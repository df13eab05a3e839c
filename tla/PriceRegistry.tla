---------------------------- MODULE PriceRegistry ----------------------------
(***************************************************************************)
(* The price registry, pkg/pricing/registry.go: the table that is served,  *)
(* its refresh from the catalog, by the background loop and by RefreshNow, *)
(* the state machine static / live / stale, and the shutdown.              *)
(*                                                                         *)
(* A refresh holds refreshMu from the fetch to the swap; the fields it     *)
(* writes at the end, and all reads, are under mu for one statement group, *)
(* an atomic step here.  Replace and ReplaceLive take mu only, so they may *)
(* fall between the fetch and the swap of a refresh.  The loop runs under  *)
(* context.Background(), as main starts it.                                *)
(*                                                                         *)
(* A table maps the models it prices to where the price comes from.  The   *)
(* catalog is abstracted to a version and, per fetch, the set of models it *)
(* prices.  Durations are counted in units of which Width bits hold a      *)
(* signed number, as 64 bits do nanoseconds.                               *)
(***************************************************************************)
EXTENDS Integers

CONSTANTS
  Models,           (* model ids                                           *)
  BaseModels,       (* those the static file prices                        *)
  Callers,          (* goroutines that call RefreshNow                     *)
  Loop,             (* main until Start, then the background loop          *)
  Nobody,           (* no goroutine                                        *)
  FetcherModes,     (* whether there may be a fetcher: FALSE is the        *)
                    (* static-only mode                                    *)
  RefreshInterval,  (* 0 or less: no background refresh                    *)
  BackoffBase, BackoffMax,
  Width,            (* bits of a duration                                  *)
  Tables,           (* the tables Replace and ReplaceLive are given        *)
  Nil,              (* a nil table                                         *)
  MaxVersion,       (* bound: versions of the catalog                      *)
  MaxFails          (* bound: consecutive failures counted                 *)

Refreshers == Callers \cup {Loop}

(* Durations are configured in whole units, far below the largest.  (That   *)
(* powers of two double is spelled out for the provers.)                    *)
ASSUME RegistryAssumption ==
  /\ BaseModels \subseteq Models
  /\ Loop \notin Callers /\ Nobody \notin Callers \cup {Loop}
  /\ FetcherModes \subseteq BOOLEAN
  /\ RefreshInterval \in Int
  /\ BackoffBase \in Nat \ {0} /\ BackoffMax \in Nat \ {0}
  /\ Width \in Nat \ {0} /\ 2^Width = 2 * 2^(Width - 1)
  /\ BackoffBase < 2^(Width - 1) /\ 2 * BackoffMax <= 2^(Width - 1)
  /\ MaxVersion \in Nat /\ MaxFails \in Nat \ {0}

VARIABLES
  cur,        (* r.cur: the models it prices                               *)
  kind,       (* r.kind                                                    *)
  synced,     (* r.lastSync is not the zero time                           *)
  failed,     (* r.lastErr is not nil                                      *)
  fails,      (* r.fails                                                   *)
  hook,       (* r.onSync is installed                                     *)
  hasFetcher, (* r.fetcher is not nil; fixed by NewRegistry                *)
  phase,      (* the life of the loop: new, boot, booted, begin, arm,      *)
              (* wait, refresh, ended; off if Start had nothing to do      *)
  delay,      (* the delay its timer was armed with                        *)
  stop,       (* Stop: no, waiting, returned                               *)
  holder,     (* who holds refreshMu                                       *)
  pc,         (* where a refresh is: idle, lock, fetch, swap               *)
  fetched,    (* the models it has fetched                                 *)
  version,    (* the version of the catalog it has fetched                 *)
  remote,     (* the version the catalog has now                           *)
  installed   (* history: the version a refresh swapped in last            *)

tableVars == <<cur, kind, synced, failed, fails>>
loopVars  == <<phase, delay, stop>>
fetchVars == <<fetched, version>>
setup     == <<hook, hasFetcher>>
vars == <<tableVars, setup, loopVars, holder, pc, fetchVars, remote, installed>>

-----------------------------------------------------------------------------
(* Two's complement in Width bits. *)
Wrap(n) ==
  LET m == n % 2^Width IN IF m >= 2^(Width - 1) THEN m - 2^Width ELSE m

(* The doubling loop of nextDelay after n failures: it stops early, once    *)
(* BackoffMax is reached.                                                   *)
Doubled[n \in Nat] ==
  IF n <= 1 THEN BackoffBase
  ELSE LET b == Doubled[n - 1] IN IF b < BackoffMax THEN Wrap(2 * b) ELSE b

Smaller(a, b) == IF a < b THEN a ELSE b

(* Mutant: one multiplication by a power of two. *)
NextDelayShifted(n) ==
  IF n <= 0 THEN RefreshInterval
  ELSE Smaller(Smaller(Wrap(BackoffBase * 2^(n - 1)), BackoffMax), RefreshInterval)

NextDelay(n) ==
  IF n <= 0 THEN RefreshInterval
  ELSE Smaller(Smaller(Doubled[n], BackoffMax), RefreshInterval)

(* merge: the catalog's prices over a copy of the static ones. *)
Merge(models) ==
  [m \in BaseModels \cup models |-> IF m \in models THEN "catalog" ELSE "base"]

-----------------------------------------------------------------------------
(* A refresh begins, and ends by releasing refreshMu; its locals die, and   *)
(* Bootstrap or the loop goes on.                                           *)
Begin(p) == pc[p] = "idle" /\ pc' = [pc EXCEPT ![p] = "lock"]

Resume(p) ==
  phase' = IF p # Loop THEN phase ELSE IF phase = "boot" THEN "booted" ELSE "arm"

End(p) ==
  /\ pc' = [pc EXCEPT ![p] = "idle"]
  /\ holder' = Nobody
  /\ fetched' = [fetched EXCEPT ![p] = {}]
  /\ version' = [version EXCEPT ![p] = 0]
  /\ Resume(p)
  /\ UNCHANGED <<delay, stop>>

CountFailure == fails' = IF fails < MaxFails THEN fails + 1 ELSE fails

(* Mutant: no serialisation. *)
AcquireUnserialised(p) ==
  /\ hasFetcher /\ pc[p] = "lock"
  /\ holder' = p
  /\ pc' = [pc EXCEPT ![p] = "fetch"]
  /\ UNCHANGED <<tableVars, setup, loopVars, fetchVars, remote, installed>>

Acquire(p) ==
  /\ hasFetcher /\ pc[p] = "lock" /\ holder = Nobody
  /\ holder' = p
  /\ pc' = [pc EXCEPT ![p] = "fetch"]
  /\ UNCHANGED <<tableVars, setup, loopVars, fetchVars, remote, installed>>

(* Without a fetcher a refresh only records its failure. *)
NoFetcher(p) ==
  /\ ~hasFetcher /\ pc[p] = "lock" /\ holder = Nobody
  /\ failed' = TRUE /\ CountFailure
  /\ End(p)
  /\ UNCHANGED <<cur, kind, synced, setup, remote, installed>>

(* FetchModels answers with at least one priced model. *)
FetchModels(p, models) ==
  /\ pc[p] = "fetch"
  /\ fetched' = [fetched EXCEPT ![p] = models]
  /\ version' = [version EXCEPT ![p] = remote]
  /\ pc' = [pc EXCEPT ![p] = "swap"]
  /\ UNCHANGED <<tableVars, setup, loopVars, holder, remote, installed>>

(* Mutant: back to static after a failure. *)
RefreshFailedStatic(p) ==
  /\ pc[p] = "fetch" \/ (pc[p] = "swap" /\ hook)
  /\ failed' = TRUE /\ CountFailure
  /\ kind' = "static"
  /\ End(p)
  /\ UNCHANGED <<cur, synced, setup, remote, installed>>

(* refreshFailed: the fetch failed, timed out or priced nothing, or the     *)
(* persistence hook failed.                                                 *)
RefreshFailed(p) ==
  /\ pc[p] = "fetch" \/ (pc[p] = "swap" /\ hook)
  /\ failed' = TRUE /\ CountFailure
  /\ kind' = IF kind = "static" THEN "static" ELSE "stale"
  /\ End(p)
  /\ UNCHANGED <<cur, synced, setup, remote, installed>>

(* The swap.  The hook, if there is one, returns the merged table as well,  *)
(* rebuilt from the rows it has stored.                                     *)
Install(p) ==
  /\ pc[p] = "swap"
  /\ cur' = Merge(fetched[p])
  /\ kind' = "live" /\ synced' = TRUE /\ failed' = FALSE /\ fails' = 0
  /\ installed' = version[p]
  /\ End(p)
  /\ UNCHANGED <<setup, remote>>

RefreshNow(p) ==
  /\ Begin(p)
  /\ UNCHANGED <<tableVars, setup, loopVars, holder, fetchVars, remote, installed>>

-----------------------------------------------------------------------------
(* Startup and the loop. *)
Bootstrap ==
  /\ phase = "new"
  /\ IF hasFetcher
     THEN phase' = "boot" /\ Begin(Loop)
     ELSE phase' = "booted" /\ UNCHANGED pc
  /\ UNCHANGED <<tableVars, setup, delay, stop, holder, fetchVars, remote, installed>>

Start ==
  /\ phase \in {"new", "booted"}
  /\ phase' = IF hasFetcher /\ RefreshInterval > 0 THEN "begin" ELSE "off"
  /\ UNCHANGED <<tableVars, setup, delay, stop, holder, pc, fetchVars, remote, installed>>

LoopBegins ==
  /\ phase = "begin"
  /\ IF synced
     THEN phase' = "arm" /\ UNCHANGED pc
     ELSE phase' = "refresh" /\ Begin(Loop)
  /\ UNCHANGED <<tableVars, setup, delay, stop, holder, fetchVars, remote, installed>>

ArmTimer ==
  /\ phase = "arm"
  /\ phase' = "wait" /\ delay' = NextDelay(fails)
  /\ UNCHANGED <<tableVars, setup, stop, holder, pc, fetchVars, remote, installed>>

TimerFires ==
  /\ phase = "wait"
  /\ phase' = "refresh" /\ Begin(Loop)
  /\ delay' = 0
  /\ UNCHANGED <<tableVars, setup, stop, holder, fetchVars, remote, installed>>

LoopEnds ==
  /\ phase = "wait" /\ stop # "no"
  /\ phase' = "ended"
  /\ delay' = 0
  /\ UNCHANGED <<tableVars, setup, stop, holder, pc, fetchVars, remote, installed>>

(* Mutant: keeping refreshMu while waiting for the loop. *)
StopLocked ==
  /\ stop = "no" /\ phase \notin {"new", "boot", "booted"} /\ holder = Nobody
  /\ stop' = "waiting" /\ holder' = Loop
  /\ UNCHANGED <<tableVars, setup, phase, delay, pc, fetchVars, remote, installed>>

(* Stop, which is to be called after Start. *)
Stop ==
  /\ stop = "no" /\ phase \notin {"new", "boot", "booted"}
  /\ stop' = "waiting"
  /\ UNCHANGED <<tableVars, setup, phase, delay, holder, pc, fetchVars, remote, installed>>

(* Mutant: not waiting. *)
StopReturnsAtOnce ==
  /\ stop = "waiting" /\ stop' = "returned"
  /\ UNCHANGED <<tableVars, setup, phase, delay, holder, pc, fetchVars, remote, installed>>

StopReturns ==
  /\ stop = "waiting" /\ phase \in {"ended", "off"}
  /\ stop' = "returned"
  /\ UNCHANGED <<tableVars, setup, phase, delay, holder, pc, fetchVars, remote, installed>>

-----------------------------------------------------------------------------
SetOnSync ==
  /\ phase = "new" /\ hook' = TRUE
  /\ UNCHANGED <<tableVars, hasFetcher, loopVars, holder, pc, fetchVars, remote, installed>>

Replace(t) ==
  /\ cur' = IF t = Nil THEN cur ELSE t
  /\ UNCHANGED <<kind, synced, failed, fails, setup, loopVars, holder, pc, fetchVars,
                 remote, installed>>

ReplaceLive(t) ==
  /\ cur' = IF t = Nil THEN cur ELSE t
  /\ kind' = "live" /\ synced' = TRUE /\ failed' = FALSE /\ fails' = 0
  /\ UNCHANGED <<setup, loopVars, holder, pc, fetchVars, remote, installed>>

CatalogChanges ==
  /\ remote < MaxVersion
  /\ remote' = remote + 1
  /\ UNCHANGED <<tableVars, setup, loopVars, holder, pc, fetchVars, installed>>

Init ==
  /\ cur = [m \in BaseModels |-> "base"]
  /\ kind = "static" /\ synced = FALSE /\ failed = FALSE /\ fails = 0
  /\ hook = FALSE /\ hasFetcher \in FetcherModes
  /\ phase = "new" /\ delay = 0 /\ stop = "no"
  /\ holder = Nobody
  /\ pc = [p \in Refreshers |-> "idle"]
  /\ fetched = [p \in Refreshers |-> {}]
  /\ version = [p \in Refreshers |-> 0]
  /\ remote = 0 /\ installed = 0

Refreshing(p) ==
  \/ Acquire(p) \/ NoFetcher(p) \/ RefreshFailed(p) \/ Install(p)
  \/ \E models \in SUBSET Models \ {{}} : FetchModels(p, models)

Looping == LoopBegins \/ ArmTimer \/ TimerFires

Next ==
  \/ \E p \in Refreshers : Refreshing(p)
  \/ \E p \in Callers : RefreshNow(p)
  \/ Bootstrap \/ Start \/ Looping \/ LoopEnds \/ Stop \/ StopReturns
  \/ SetOnSync \/ CatalogChanges
  \/ \E t \in Tables : Replace(t) \/ ReplaceLive(t)

Spec == Init /\ [][Next]_vars

(* A fetch ends, at the latest by its timeout; refreshMu is handed to a     *)
(* waiter that starves; the timer fires; and a select that finds both the   *)
(* timer and stopCh ready again and again picks stopCh at some time.        *)
FairSpec ==
  /\ Spec
  /\ \A p \in Refreshers : SF_vars(Refreshing(p))
  /\ WF_vars(Looping) /\ SF_vars(LoopEnds) /\ WF_vars(StopReturns)

-----------------------------------------------------------------------------
(* The types of the variables. *)
TypeOK ==
  /\ DOMAIN cur \subseteq Models
  /\ kind \in {"static", "live", "stale"}
  /\ synced \in BOOLEAN /\ failed \in BOOLEAN /\ hook \in BOOLEAN
  /\ hasFetcher \in FetcherModes
  /\ fails \in 0..MaxFails
  /\ phase \in {"new", "boot", "booted", "begin", "arm", "wait", "refresh", "ended", "off"}
  /\ delay \in Int
  /\ stop \in {"no", "waiting", "returned"}
  /\ holder \in Refreshers \cup {Nobody}
  /\ pc \in [Refreshers -> {"idle", "lock", "fetch", "swap"}]
  /\ fetched \in [Refreshers -> SUBSET Models]
  /\ version \in [Refreshers -> 0..remote]
  /\ remote \in 0..MaxVersion /\ installed \in 0..remote

(* The kind tells the truth about the last refresh, whoever made it: static *)
(* means that no table was ever adopted, live that the last attempt         *)
(* succeeded, stale that it failed, and the failure counter the backoff is  *)
(* computed from and the recorded error agree with it.  Without a fetcher a *)
(* failed refresh leaves the kind of a table adopted by ReplaceLive alone,  *)
(* and only the error and the counter agree.                                *)
KindIsHonest ==
  /\ kind = "static" <=> ~synced
  /\ hasFetcher => (kind = "live" <=> (synced /\ fails = 0))
  /\ failed <=> fails > 0

(* A refresh that is overtaken never brings back older prices: what is      *)
(* swapped in is never an older version of the catalog than the refresh     *)
(* before, although RefreshNow and the loop fetch independently.            *)
NeverOlder == [][installed' >= installed]_vars

(* Whatever the catalog drops, a model the static file prices always keeps  *)
(* a price of its own and never falls back to the default.                  *)
BaseIsPriced == BaseModels \subseteq DOMAIN cur

(* The loop neither spins nor stalls: the delay it waits is positive and    *)
(* never longer than the refresh interval, after any number of failures.    *)
DelayIsSane == phase = "wait" => (0 < delay /\ delay <= RefreshInterval)

(* Once Stop has returned, the loop is gone and will fetch no more. *)
StopMeansQuiet ==
  stop = "returned" => (phase \in {"ended", "off"} /\ pc[Loop] = "idle")

(* Stop returns although the loop may be in the middle of a refresh, or     *)
(* waiting for one of RefreshNow's.                                         *)
StopCompletes == stop = "waiting" ~> stop = "returned"
=============================================================================
