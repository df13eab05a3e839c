# A TLA+ model of finops-proxy

finops-proxy is a reverse proxy in front of LLM endpoints. It fingerprints every
request, answers `429` when an agent repeats itself or a caller's budget is used
up, recovers the cost of every response from its bytes, and publishes what it
does. `finops-run` supervises an agent process and restarts it with a recovery
prompt when the proxy reports a loop. This directory holds the TLA+ modules that
model these programs, the TLC configurations that check them, and the theorems
proved about them with TLAPS.

Run `tlc -config X.cfg M` for a run of the table below and `tlapm M.tla` for a
proof module, inside this directory.

## 1. Inventory

| Component (source) | State | Operations | What is hard | What makes it correct |
|---|---|---|---|---|
| Exact-hash detector (`pkg/circuitbreaker/hash_detector.go`) | `seen`: windows by (agent, fingerprint); `limit` | `Check`, `SetLimit`, `Reset`, `AgentStatus`, `BlockedAgents`, `evictIfNeeded` | fixed windows, eviction when full, a limit that changes, rounding | a loop passes at most its quota; a first block is reported once per window; Retry-After outlasts the window; open windows are not forgotten while dead ones can be |
| Structural detector (`structural_hasher.go`) | a window of sketches per agent | `CheckPayload`, `Reset` | blocked requests fill the window, degenerate bodies, approximate matching | no agent gets more turns of one structure through than the limit |
| Tool-cycle detector (`tool_matcher.go`) | a history of tool names, `period`, `confirms` per agent | `CheckPayload`, `Reset` | trimmed history, periods that contain each other | what is blocked is periodic; a confirmed cycle is blocked |
| Velocity breaker (`velocity_breaker.go`) | two rings with running sums, an incident flag per agent | `CheckVelocity`, `Reset` | running sums, the ring's cap, clearing the flag | sums equal the rings; what is admitted stays within the burst; incidents are apart |
| Pipeline (`pipeline.go`) | none of its own | `CheckPayload`, `Check`, `Reset` over the four | no common lock | a later stage hears only of what earlier ones passed; a Reset leaves at most what was in flight |
| Request handler (`pkg/proxy/handler.go`, `reverseproxy.go`) | a goroutine per request; counters | `ServeHTTP`, `handleDeleteHistory` | gate and row are far apart in time; every path must clean up | bounded overspend; books that balance; no silent incident |
| Cost accounting (`cost_tracking.go`) | parse state of a body, `sync.Once` | `Read`, `Close`, `finalize`, `onCost` | arbitrary chunks, a capped buffer, aborted copies | tokens depend on whole lines only, as long as lines fit the buffer; a seen usage stays; accounted once |
| Budget alerts (`alerting.go`, `budget.go`) | `dayKey`, `fired` | `checkBudget`, `Spend` | three clock readings outside the mutex, a crash between row and alert, costs below zero | a crossing goes unannounced only if a check across midnight forestalled it, whichever process is running |
| Metrics (`metrics.go`) | a ring of per-second buckets, atomics, a ring of triggers | `markStart`, `markDone`, `markForwarded`, `markLoopBlocked`, `recordTrigger`, `Snapshot` | the clock is read before the mutex; Snapshot loads atomic by atomic | the gauge equals what was recorded; a torn snapshot counts no sample that is not in its sum; the newest triggers, in order |
| Live-log hub (`pkg/logstream/hub.go`) | subscribers, bounded channels, an RWMutex | `Subscribe`, `Publish`, `Close` | Close against Publish, slow readers, lock fairness | no send on a closed channel; drops counted; nobody waits for ever |
| Price registry (`pkg/pricing/registry.go`) | current table, kind, failures, loop | `Bootstrap`, `Start`, `Stop`, `RefreshNow`, `Replace`, `ReplaceLive`, `SetOnSync` | overlapping refreshes, Stop during a fetch, backoff | prices never go back; Stop returns and means stop; sane delays |
| Supervisor (`internal/wrapper`) | attempt, child, marker, watchdogs | `Run`, `startChild`, `DeleteHistory` | marker against exit, signals against reaping, interrupts | every attempt is settled; loops are broken; interrupts end the run |
| Price tables and calculation (`load.go`, `calculator.go`), fetcher (`fetcher.go`) | the static table, the served one, the locals of a lookup | `Load`, `fetchModels`, `merge`, `PriceFor`, `Cost`, `SavedCost` | map order, a swap during a lookup, duplicate and unpriceable entries, 64-bit products | the longest prefix of one table; the last usable entry; no overflow for plausible token counts |
| Process (`cmd/proxy/main.go`) and what the stores keep (`internal/store`) | flags, files, settings row, price book, callers | `run`, `Open`, `SeedModelPrices`, `loadKeys`, `GetSettings`, `UpdateSettings` | a failure or crash at any step, other flags and files at the next start | it serves with all its keys and the stored settings or not at all; edited prices survive |
| Request log and callers | rows, keys | as the above use them | calls that fail | see section 7 |

How they interact. `ServeHTTP` calls, in this order and with no lock around
them, the ledger (budget gate), the detector (or the pipeline), the store, the
notifier and the hub, then the reverse proxy, whose response body is wrapped by
the usage tracker; the tracker calls back into `onCost`, which updates the
metrics, writes the row, checks the budget and publishes. The supervisor talks
to the proxy only by `DELETE /v1/agent/{id}/history`. The registry is read by the
price calculation and written by its loop and by operators.

`PROJECT.json` lists the hazards at the lines where they bite, each with the
properties that would catch it.

## 2. Modules

Each component module declares its state, one action per operation (or per
stretch of an operation between two points where another goroutine can run), and
its properties. Operators marked *Mutant* are deliberately wrong variants of the
operator that follows them; they are used to confirm that a property can fail.

- **HashDetector** — every call is atomic under the detector's mutex. `Check` is
  `OpenWindow` or `RepeatSighting`; `Evictions` is the set of key sets
  `evictIfNeeded` may remove (Go's map order is a choice). `passed` and `alerts`
  are history variables.
- **StructuralHasher, ToolMatcher, VelocityBreaker** — the other detectors. A body
  is a sequence of classified tokens, resp. its tool names, resp. a token count.
  MinHash is abstracted to the set of shingles it samples; `Near` adds pairs of
  different sets the estimate may find similar.
- **Pipeline** — instances of the four detectors; one step per stage of a request
  and of a Reset.
- **UsageTracker** — the response observer over lines and byte counts.
- **BudgetAlerts** — `onCost`'s row and `checkBudget`, one step per clock reading,
  ledger access and critical section. The ledger is the sums read from it.
  `Restart` kills the goroutines and the monitor and, without a database file, the
  rows. Costs may be negative: nothing checks the token counts of the upstream.
  `start` is the day a worker has summed and `today` the day it hands to Spend;
  `sent` counts events by day, threshold and summed day, so that an event computed
  from yesterday's rows is not taken for one of today's.
- **TokenWindow** — the metrics ring, with callers that arrive late.
- **Metrics** — the other counters: `Marks` is the sequence of atomic steps a request
  takes, `BeginSnapshot`, `Load` and `LoadTriggers` those of a poll.
- **ProxyHandler** — the request path. It *composes* `D == INSTANCE HashDetector`
  and `B == INSTANCE BudgetAlerts` on one clock; goroutines `Requests` are reused.
- **LogHub** — Go's RWMutex is modelled by what it guarantees: a waiting writer
  keeps new readers out.
- **PriceRegistry** — refreshers serialised by `refreshMu`, the loop, and a
  catalogue that changes; durations wrap at `Width` bits.
- **Pricing** — the tables behind the registry: `Load` or refuse a file, read a catalog
  entry by entry, swap, look a model up key by key in any order, and charge in two's
  complement of `Width` bits. Model ids are sequences of parts, so that one can be a
  prefix of another; money is counted in fractions of a dollar (`Grain`), so that
  rounding happens; a price text is known by what the parser makes of it.
- **ProxyProcess** — one process after the other: `run` step by step up to serving,
  `Crash` anywhere, and the two stores' settings and price book. `UpdateSettings` and
  `EditPrice` are seams the core offers and an administration tool uses.
- **Supervisor** — `Run`, its child, the goroutine in `Wait`, one watchdog for
  each attempt, and the copiers that scan the two outputs. `Write` passes on and scans
  what is in the pipe; a marker with a window (4096 bytes) of output behind it may be
  missed (`ChildFloods`). After `WriteFails` the output is not read any more: `copier`
  says whether it is the one that carries the marker. WaitDelay closes the pipes on
  what has not been read.
- **Detectors** — the four detectors and the metrics (counters and token gauge), which
  share no state, as one specification: a variable `part`, fixed in the initial state,
  says which of them moves, so its behaviours are the union of theirs.
- **Prices** — the registry, the tables, the process and the response observer as one
  specification, in the same way.
- **MC\*** — instances for TLC. Each gives constants of the module it extends their
  values.
- **HashDetectorProofs, DetectorsProofs, PipelineProofs, BudgetAlertsProofs,
  ProxyHandlerProofs, LogHubProofs, PricesProofs, SupervisorProofs** — theorems.

## 3. Runs

| Run | Instance | Shows |
|---|---|---|
| BudgetAlerts | 2 workers, 3 responses that cost -1 or 3, 2 days, a restart with or without the rows | `MissedOnlyByStaleSum`, `CrossingIsAlerted` |
| LogHub | 2 publishers, one of which may publish for ever; 2 subscribers that ask for buffers of 0 (raised to 1) and 2 | `NoSendOnClosed`, `StreamIsFaithful` (order, counted drops, the newest kept), `PublishCompletes`, `CloseCompletes` |
| ProxyHandlerGate | 2 goroutines, 3 requests, a caller with a daily and a monthly budget, 2-day months | `OverspendBounded`, `RetryReachesNextWindow` |
| ProxyHandlerBooks | the same without authentication, every kind of request, store calls that fail | `BooksBalance`, `IncidentIsNotified`, and that the two instances behave as specified (`PartsAreUsedAsSpecified`) |
| Supervisor | 2 attempts, retry on failure, a child that may ignore SIGTERM, bury its marker and leave a descendant, writes that fail, WaitDelay | `AttemptIsSettled`, `LoopIsBroken`, `InterruptEndsRun` |
| Prices | registry: 2 models, the loop and one more refresher, 4 failures, 5-bit durations, with and without a fetcher; tables: 8 files (6 of them refused), catalogs of 2 entries out of 6, ids that are prefixes of each other, token counts of -5, 7 and 8 in 7-bit arithmetic, where 7 is the largest that must be exact; process: 2 starts, 3 price files, 4 keys files, 2 limits, with and without database; responses: all streams of up to 3 lines over 6 kinds of line, and of 4 over the shorter kinds, one of which overflows after some cuts only and one always, chunks of 1 to 4 bytes, a buffer of 6 | `NeverOlder`, `KindIsHonest`, `DelayIsSane`, `StopMeansQuiet`, `StopCompletes`; `LookupIsExact`, `CatalogIsExact`, `ChargeIsExact`; `ServesAsConfigured`, `PriceBookIsKept`; `ChunkingIsInvisible`, `UsageIsKept` |
| Pipeline | 2 goroutines, 3 checks, memory for 3 entries, 1 reset | `LeftoverIsInFlight`, `FunnelNarrows` |
| Detectors | exact: 2 agents, 2 fingerprints, memory for 2 entries, limits 0 and 3 set at run time, 4 sightings, 4 ticks, TTL 2; others: 1 or 2 agents, histories of 5 to 12, requests with one tool call and with a call and listed definitions; metrics: 2 goroutines, 3 requests, a ring of 2 triggers, polls at any time; token gauge: 2 callers, who may be late, on a ring of 3 seconds | `SlidingQuota`: what passes in any stretch of a TTL is at most twice what one window lets through; `OneAlertPerWindow`, `HonestRetryAfter`, `ForgetsDeadFirst`; `LoopQuota`, `BlocksCycles`, `RingsAreExact`, `AdmittedWithinBurst`, `AlertsAreRare`; `SnapshotIsOrdered`, `PollIsExact` |
| BudgetAlertsRace | 2 workers, 2 days | **violated**: `OncePerDay` |
| BudgetAlertsLost | 1 worker, 2 days | **violated**: `RealCrossingIsAnnounced` |
| SupervisorStray | 2 attempts | **violated**: `NeverSignalsReaped` |
| LimitFlag | as Prices, without failures | **violated**: `LimitFlagCounts` |

The four violated runs state what the repository says of itself and show that
the code does something else; `PROJECT.json` quotes the lines. In short: a
budget alert can fire twice for one day when a worker carries yesterday's clock
reading past midnight; it is never sent for a day's own spend when midnight falls
between the sum and the clock reading for Spend, as the old day's sum then marks the
threshold as fired for the new day; the supervisor's watchdog can
signal a process group after it was collected; and
`-limit` has no effect, because the settings row, whose default is 2, is applied
after it.

Some properties say less than one might wish, because the code does less.
`MissedOnlyByStaleSum` and `CrossingIsAlerted` except the alerts that a check across
midnight has forestalled (the run BudgetAlertsLost shows one), and ask for an
announcement only once the present process has accounted for a response: what a crash
has swallowed is announced then, and not before. `ChunkingIsInvisible` makes the result
independent of the chunks for lines at least a chunk below the buffer's cap (`Fits`):
`feedSSE` compares the pending bytes plus the whole chunk with the cap before it splits
lines, so near the cap the cuts decide whether parsing stops. What it then asks is that
the result is either the exact one or the prompt estimate with no completion.
`AttemptIsSettled` excepts markers that a window of bytes has buried and outputs that a
failing write or WaitDelay has cut. `CycleIsCaught` speaks of cycles named one tool per
request. `SnapshotIsOrdered` bounds the average latency from below only: a sample
may be in the sum and not yet in the count.

The modules' type invariants (`TypeOK`) describe their variables; the run of the
exact-hash detector checks its own, on which the proofs rest, and the others
document the modules.

Why the bounds are enough. Every interleaving hazard here is between two actors
(two requests, a request and a reset, a publisher and a closer, two refreshers),
so two of each suffice to meet it, and a third event is there for what has to
happen before or after the race. Clocks run past at least one TTL, day or month;
memories, rings and buffers are smaller than what is put into them; counters that
would grow for ever stop at a named bound (`MaxClock`, `MaxSightings`,
`MaxArrivals`, `MaxRows`, `MaxStarts`, ...). Symmetry is used only over interchangeable agents,
fingerprints and goroutines and never together with liveness.

`Pipeline.cfg` switches the deadlock check off, because a proxy to which no
request comes rests. Elsewhere an action `BoundsReached`, `Closed`, `Exited` or `Finished`
marks the only states in which nothing more happens, and TLC reports any other.

## 4. Fairness

Weak fairness of what a goroutine can do by itself: the Go scheduler runs every
runnable goroutine. `BudgetAlerts`: a worker finishes `onCost`, whose store calls
return. `LogHub`: publishers and closers proceed when their lock is free;
**readers get none**, and neither does a publisher's decision to publish again.
`Supervisor`: Run, the waiting goroutine, the watchdogs and os/exec's WaitDelay;
the copiers, as the supervisor's own output does not block for ever (a write may fail);
the child gets none, so it may hang and ignore SIGTERM, but SIGKILL works.
`PriceRegistry`: the refreshers and the loop; a fetch returns, as the HTTP client
has a timeout.

## 5. Proofs

What TLC shows on the instances of section 3, the theorems show for every value of
the constants that the named assumptions of the modules allow. These ask for what the
code's types and constructors provide (positive TTLs, capacities and units of time,
finitely many goroutines, a highest limit and a highest cost); TLC evaluates them on
the instances.

**HashDetectorProofs.** For any agents, fingerprints, TTL, memory and limits
(`DetectorAssumption`). The inductive invariant `DetectorInv` is the conjunction of
`TypeOK`, `BoundedMemory`, `WindowShape` and the relation between `alerts` and each
window's `blockedAt`. `TypeOK` alone is not inductive, as the memory's finiteness is
needed for the eviction lemma (`EvictionMakesRoom`, by the cardinality theorems);
`OneAlertPerWindow` alone is not, as it must be known that a window which has not
blocked has not alerted. From it: `TypeCorrect`, `MemoryIsBounded`,
`WindowsAreShaped`, `AlertsOncePerWindow`, and as action properties
`WindowsAreFixed`, `OpenWindowsAreKept` and `RetryAfterIsHonest` (which rests on
`CeilBounds`). `PassesPerTTLAreBounded` is `SlidingQuota`: its invariant `QuotaInv`
says that the passes remembered for a key come from at most two windows and that
within one window their numbers are distinct and lie in `1..Quota`, so the passes of
an interval inject into two such ranges. `LimitsAssumption` says that the limits in
use have a highest one.

**DetectorsProofs.** The other detectors and the metrics (`PartsAssumption`).
`LoopsAreStopped` (`LoopQuota`): `SketchInv` ties the window of sketches to the history
of the agent; it is the sketches of the last `Window` requests, blocked ones included,
and two bodies of one structure have one sketch, so the passes among them are at most
the matches `CheckPayload` counts. Nothing is assumed of `Near`, so the theorem does not
depend on how the estimate errs. `IncidentsAreReportedOnce` (`AlertsAreRare`):
`RateInv` relates the incident flag to the time of the last report. `PollsAreOrdered`
(`SnapshotIsOrdered`): `MeterInv` says by how much each counter is ahead of the next one
while requests are between two of their atomic steps (`WorkInv`), that the ring is the
end of the sequence of triggers (`RingInv`), and that what a poll has loaded is not
ahead of what it has still to load (`PollInv`). A sum over goroutines is written there
as the cardinality of a set of units, about which the finite-set theorems speak.
`RingsStayExact` (`RingsAreExact`) and `AdmissionIsBounded` (`AdmittedWithinBurst`):
`TokenInv` says that each ring is the end of the agent's history of observations, from
the first one its horizon and its cap leave (`TailOf`), and that each running sum is the
total of its ring. Totals are a recursive function of a length; that it satisfies its
equation, that it is unchanged by what lies outside the ring, and that dropping the head
subtracts the head, follow by the least-number principle. Expiry and the cap only ever
drop from the front, which is why a tail is all there is to say; a request that was
refused is in the rings too, so what was admitted within a `Window` is a part of what
the check has compared with the cap. `PollsAreExact` (`PollIsExact`): `GaugeInv` says
that a bucket of a second the ring still reaches holds what was recorded for that second,
and that every caller under way is at most `MaxLag` late. Seconds less than `Buckets`
apart have buckets of their own (`OwnSlots`), and `MaxLag <= Buckets - Horizon` keeps the
seconds a late poll sums within reach; advancing the ring clears exactly the buckets of
the seconds that enter it (`AdvanceIsExact`). The sums of the model and of the property
are then sums of equal functions.
`PartsAreSound` carries the six over to the specification the run explores, with its
one clock. `ConfirmationsAreCycles` is the half of `BlocksCycles` that says that nothing
is blocked by coincidence: whatever was confirmed has repeated without a break since two
periods before the first confirmation, although the history is trimmed. Requests may
carry any number of names, calls and listed definitions. A confirmation compares the
last two periods of the history only, so a request with more names than the period can
carry a foreign name past it; `pushed` therefore counts anew at such a request, and what
is claimed from there on is again two periods and everything since.

**BudgetAlertsProofs.** `AlertsAreMissedOnlyByStaleSums` (`MissedOnlyByStaleSum`), for any
number of workers, costs, thresholds and days, assuming that ledger reads do not fail (`"sum" \notin
Failures`; `checkBudget` gives up on an error, so the property is false without
it). The invariant says that for a threshold reached today an event has been emitted,
from a sum of today or of an earlier day, *or* some worker is still on its way to
announce it: one that has yet to read the sum of today, or has read one that reaches the
threshold. `FiredWasSent` says that whatever the monitor holds as fired was sent for its
day, and `SumsAreOld` that no sum is of a later day than the one it is handed over for;
so the only event that can stand in the way of the real one is one from yesterday's
sum. That the monitor may forget (the
reason `OncePerDay` fails) does no harm here: it can only repeat. After a restart
the claim starts afresh with the first response that reaches `Spend`
(`dayKey # 0`), which finds the rows of its predecessor in the sum. As costs may be
negative, a threshold may be reached, left and reached again; the claim is about
thresholds that are reached now.

**ProxyHandlerProofs.** The composed request path, for any number of goroutines, any
callers, budgets, costs and calendar (`HandlerAssumption`). The lemmas of the two parts
are used at the instances the handler makes of them (`DP`, `BP`). `CoreInv` is their
invariants, the types, and what the place of a request says of its locals (a request
past the gate has an agent and a fingerprint, a running `onCost` belongs to a response).
It gives `PartsAreImplemented`: the handler refines HashDetector and BudgetAlerts, so
every theorem about them holds inside it. `RetriesReachNextWindow` is arithmetic of
`\div` for any lengths of seconds, days and months. On top of the core:

- `BooksAlwaysBalance`, from `BooksInv`: every tracked response is accounted exactly
  once, neither twice nor not at all, and each pair of counters agrees once the requests
  that have made the one entry and not yet the other are counted in. `TypeCorrect`
  follows from it too, as the gauge is the number of requests between `markStart` and
  `markDone`.
- `IncidentsAreNotified`, from `IncidentInv`: a window that has blocked has been
  announced, or a request that was told `FirstBlock` is on its way to do so.
- `OverspendIsBounded`, from `OverspendInv`: for every day and month, what is spent plus
  `MaxCost` for every request that can still be charged in it without another look at
  its sum is at most the budget - 1 plus `MaxCost` for every goroutine. The requests
  meant are those past the gate, those whose gate read the clock before the window
  began, and those about to write their row; the last two are what midnight between
  gate and row adds, and what makes the bound alone not inductive. `MaxCost` is the
  largest of the costs and 0, since costs may be negative. It assumes that the gate's
  queries do not fail (`"gate" \notin Failures`): the gate fails open.

**LogHubProofs.** `NeverSendsOnClosed` and `StreamsAreFaithful`, for any publishers,
subscribers and buffers. `HubInv` says who holds the hub's lock and each subscriber's
mutex where (`LocksAreHeld`), without which neither a closed channel nor a dropped event
can be attributed; that drops are exactly what is missing (`Counted`); and that the
numbers of one publisher's events ascend in what a subscriber has received, from there
into its buffer, and up to what the publisher is about to send (`Numbered`).

**SupervisorProofs.** `AttemptsAreSettled`, for any number of restarts and retries.
`SettledInv`: a result on the exit channel means that the child is collected and its
output read to the end, or cut; a marker that is owed (`Owed`: neither buried nor on a
cut output) is in the pipe or has been seen. Nothing but a flood or a cut ends the debt,
which is what makes the exceptions of `AttemptIsSettled` the only ones.

**PricesProofs.** Of the registry: `PricesNeverGoBack`, from mutual exclusion of the
refreshers and the freshness of what the holder has fetched; `StoppedIsQuiet`,
from the phases of the loop and of Stop; `KindTellsTheTruth`; and
`BaseKeepsItsPrice`, for registries whose given tables price the base models.
`DelaysAreSane`: for any number of failures the delay is positive and at most the
refresh interval. `Doubled` is defined by recursion; the least-number principle
(`LeastNumber`, from the theorems on well-founded relations, which a first-order prover
can use) shows that it satisfies its equation and stays positive. `RegistryAssumption`
asks that twice `BackoffMax` fits the width of a duration, and states
`2^Width = 2 * 2^(Width - 1)`, a fact of arithmetic the provers do not have
(`PricingConstants` states it too).

Of the tables: `LookupExactness`, for any files, catalogs, queries and alphabet
of ids (`IdsOver`). The invariant has two parts: no table has an empty key
(`TablesAreKeyed`, from what `Load` refuses and the catalog loop skips; without it an
empty `best` would not mean "nothing found"), and during a scan the table is still the
one the lookup began with, as the swap waits for it, and `best` is the longest prefix
among the keys scanned so far. That prefixes of one length are equal
(`PrefixesOfOneLength`) makes the order of the map irrelevant. `CatalogExactness`: the
last usable entry of an id counts; inductive as it stands, over `parsed \in Seq(Entries)`.
`ChargesAreExact` (`ChargeIsExact`): `ChargeInv` says that every price that can reach
`Cost`, from a file, a catalog or a merge of both, is between 0 and the cap
(`Tariff`); so two products of token counts up to `MaxExact` and their sum stay below
half of `2^Width` and wrapping them changes nothing.

Of the process: `PriceBookSurvives` (`PriceBookIsKept`), from `BookInv`: an edited row is
in the book as edited, and past the seeding the book has a row for every model of the
file. `ConfiguredBeforeServing` (`ServesAsConfigured`), from `KeysInv`, which follows
`loadKeys` entry by entry (`ReadUpTo`: the callers are the entries so far, each as its
last entry says), and `RowsInv`, which says that a stored row is the last one written or
the defaults. Both hold for any sequence of starts, failures and crashes.

Of the response: `ChunksDoNotShow` (`ChunkingIsInvisible`) and `UsageIsNeverLost`
(`UsageIsKept`), for any responses, chunks and cap. Line ends ascend, so the lines that
have arrived whole are a prefix of the response (`WholeIsPrefix`), and `Parsed` says that
the observer has treated exactly that prefix, however the chunks divided it. `UsageInv`
adds that the pending bytes are those of the line that is not whole yet, so lines a chunk
below the cap never overflow (`FittingFits`); that past the cap nothing is counted
without a usage object; that a usage object held is the first one of the response, the
cap passed or not (`FirstUsage`); and that the result is what the parse state says. That
a held usage object stays is shown step by step (`LoopKeepsUse`, `FeedKeepsUse`).
The bytes of the lines and the loop over them
are recursive functions; their equations follow by the least-number principle as above.
`UsageConstants` asks that a line has at least one byte and that only the last one may
lack its line feed, which is what cutting bytes at line feeds gives.

`PricesAreSound` carries all of these over to the specification the run explores.

**PipelineProofs.** `ResetLeavesInFlight` (`LeftoverIsInFlight`) and `FunnelIsNarrow`
(`FunnelNarrows`), for any number of goroutines, any bodies and any constants of the four
detectors (`PipelineAssumption`). The invariant `PipeInv` counts, agent by agent.
`LeftInv` says what every stage may still hold of an agent, by how far a Reset of it has
got: a stage that has been cleared holds at most one observation for each request that
has passed it since, and every such request was in flight when the Reset began or came
while it ran. The tools are counted in names, so `LeftNames` multiplies by the longest
list of names a body has. The bound of the property alone is not inductive, as it is
silent about a Reset that is half done and about requests that have not reached the
stage yet. `FunnelInv` says that each pass of the exact stage pays for one request that
is in a later stage, was refused by one, or was observed by the last. It is stated, as
`FunnelNarrows` is, while the exact stage still remembers all its passes: within the first
TTL and with room for an entry for every check; `|DOMAIN seen| <= checks` shows that
nothing is evicted then.

Only model-checked:

- all liveness (`CrossingIsAlerted`, `PublishCompletes`, `CloseCompletes`,
  `LoopIsBroken`, `InterruptEndsRun`, `StopCompletes`), which is outside TLAPS's reach;
- the other half of `BlocksCycles`, that a cycle is blocked in time: the detector may be
  following another period when the cycle begins, so the claim is one about words with
  two periods, for which no argument by the first-order provers was found.

## 6. Further disagreements met while modelling

Without a run of their own; the model follows the code.

- `hash_detector.go:67-69` says that raising the limit never unblocks a blocked
  window; `Check` compares the count with the new limit, so it does.
- `detector.go:55-56` says that two concurrent requests with one fingerprint can
  never both pass; with a limit above 2 they can.
- `registry.go:254-261`: without a fetcher a failed refresh leaves the kind
  `live`; `registry.go:186` calls `ReplaceLive(nil)` a no-op; it keeps the table but
  marks it live.
- `velocity_breaker.go:109-111` guards cold starts by the age of the agent's first
  observation, so a lone request after an idle period still counts as a spike;
  `133-134`: the flag is cleared only by a request that is not blocked, so a new
  spike may go unreported.
- `tool_matcher.go:9` speaks of tool-call patterns; the definitions a request lists
  (`258-271`) enter the history as well. An agent that lists the same two to eight
  tools in every request and calls none is blocked at its third request.
- `velocity_breaker.go:71-72` says that invalid fields are replaced by defaults; with a
  Window below 5 seconds the ShortWindow becomes 5 seconds (`77-79`), which is longer.
  `main` runs it with 30 and 5.
- `hub.go:181` (and `61-62`, `156-157`) says that with a buffer of 1 the new event is
  dropped when the buffer is still full. It never is: publishers hold `sub.mu`, the
  receive has made room and the reader only takes away. The code keeps the newest event,
  with a buffer of 1 as well, as `StreamIsFaithful` states.
- `README.md:118-120` lists the global daily budget among those that answer `429` and do
  not forward (`README.md:10`: "hard-stops spend at per-key and global budget caps"); the
  gate in `handler.go:221` consults the caller's own budgets only, and the global one is
  read in `checkBudget` (`alerting.go:38`), which alerts and refuses nothing.
- `signals.go:10-13`: the window keeps a marker that is split across writes; a marker
  followed by 4096 bytes or more in one write is not in it, and after a failing write
  (`56-58`) nothing is scanned.
- `cost_tracking.go:198-199`: whether a line near the cap of the parse buffer overflows
  it depends on where the chunks were cut, as the cap is compared with the pending bytes
  plus the whole chunk.
- `structural_hasher.go:8-12`: only the first 256 shingles of a body count.
- `README.md:124` against `handler.go:246-249`: requests declared larger than
  the cap are forwarded but not recorded.
- `wrapper.go:16-17`: when the child ends together with an interrupt, `select` may
  take either branch, so the result is 130 or what the child's end asks for.
- `metrics.go:117` calls Snapshot a point-in-time read; it loads one atomic after the
  other, so a poll may show more triggers than loop blocks, or a saved cost whose
  block it does not count.
- `sqlite.go:236-246`: the column `loop_threshold_count` has a default of 2, and gorm
  stores the default for a zero value on insert; a threshold of 0 would be read back
  as 2 from SQLite and as 0, clamped to 1, from the memory store. The models use
  thresholds other than 0, for which the stores agree.

## 7. Not modelled

- The SQL of the stores and their listings, the fetcher's HTTP and its scanning of
  digits and units, key hashing and header parsing: their callers see a value or an
  error, and that is what the models have. Rows are atomic because both stores
  serialise every call.
- `finops-run`'s arguments, configuration and status bar, text logging, dashboard and
  mock server: pure or display-only code. The status bar polls and prints; nothing
  reads what it keeps.
- In ProxyHandler: the incident recorder and the emitter, which the open-source
  `main` does not wire, and the advisory `cost_alert` line. The handler is checked
  with the exact-hash detector; the pipeline, which has the same interface, is
  checked by itself.
- A restart inside ProxyHandler: BudgetAlerts and ProxyProcess have it; detectors,
  metrics and gates simply begin again.
- A Replace during a refresh (`registry.go:297`) is an interleaving of PriceRegistry,
  with no promise to hold it against: the core never calls Replace.

## 8. Plan

Done: the components of section 1, and the theorems of section 5. Next, in this order:

1. Compose: ProxyHandler over Pipeline; the supervisor with the proxy's Reset.
2. An abstract specification of a detector (a quota per agent and stretch of time)
   that HashDetector and Pipeline implement.
3. The half of `BlocksCycles` that section 5 leaves to TLC.
