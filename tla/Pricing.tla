------------------------------- MODULE Pricing -------------------------------
(***************************************************************************)
(* The price tables themselves (pkg/pricing): the static file is loaded or *)
(* refused (load.go), the catalog is read entry by entry (fetcher.go) and  *)
(* laid over it, a model is looked up, and tokens are charged for          *)
(* (calculator.go).  PriceRegistry is about when this happens.             *)
(*                                                                         *)
(* A lookup that misses scans the Go map, whose order is random: one step  *)
(* per key, in any order.  Registry.PriceFor and SavedCost hold mu for     *)
(* reading until they return, and the swap of a refresh takes it for       *)
(* writing.                                                                *)
(*                                                                         *)
(* A model id is a sequence of parts, so that ids can be prefixes of each  *)
(* other; <<>> is the empty id.  Amounts of money in files and catalogs    *)
(* are counted in units of 1/Grain USD; Million is both the uUSD in a USD  *)
(* and the tokens a price is for.  A price text of the catalog is known by *)
(* what the parser makes of it: its form, its number and its unit.         *)
(***************************************************************************)
EXTENDS Integers, Sequences

CONSTANTS
  Files,        (* static files: [header, assumed, chars, def, models]     *)
  Entries,      (* catalog entries: [id, prompt, completion]               *)
  Queries,      (* models that are looked up                               *)
  TokenCounts,  (* token counts that are charged, as the upstream says     *)
  BodySizes,    (* sizes of blocked request bodies                         *)
  Million, Grain,
  MaxUSDPer1M,  (* the sanity cap on a price, in USD                       *)
  Width,        (* bits of an int64                                        *)
  Absent,       (* a field the file does not have                          *)
  Unpriced,     (* no usable price                                         *)
  MaxEntries    (* bound: entries of one catalog                           *)

CapMicro == MaxUSDPer1M * Million

(* The token counts for which no product or sum can leave 64 bits. *)
MaxExact == (2^(Width - 1) - 1) \div (2 * CapMicro)

(* A number, or a field that is not there. *)
Field == Int \cup {Absent}

(* 2^Width is spelled out for provers, which know nothing of exponents.     *)
PricingConstants ==
  /\ Million \in Nat \ {0} /\ Grain \in Nat \ {0} /\ MaxUSDPer1M \in Nat \ {0}
  /\ Width \in Nat \ {0} /\ 2^(Width - 1) \in Nat \ {0} /\ 2^Width = 2 * 2^(Width - 1)
  /\ TokenCounts \subseteq Int /\ BodySizes \subseteq Nat /\ MaxEntries \in Nat
  /\ Unpriced \notin Int
  /\ \A f \in Files : /\ {f.assumed, f.chars, f.def.in, f.def.out} \subseteq Field
                      /\ \A k \in DOMAIN f.models : {f.models[k].in, f.models[k].out} \subseteq Field
  /\ \A e \in Entries : e.prompt.value \in Int /\ e.completion.value \in Int

(* The ids are sequences over some alphabet. *)
IdsOver(Parts) ==
  /\ \A f \in Files : DOMAIN f.models \subseteq Seq(Parts)
  /\ \A e \in Entries : e.id \in Seq(Parts)
  /\ Queries \subseteq Seq(Parts)

VARIABLES
  stage,     (* start, serving, or fatal: Load refused the file            *)
  base,      (* the static table                                           *)
  cur,       (* the table that is served                                   *)
  parsed,    (* the entries of the catalog read so far                     *)
  models,    (* what they have been made into                              *)
  pc,        (* where the reader is: idle, scan, priced, billed            *)
  purpose,   (* actual: the cost of a response; saved: of a blocked one    *)
  query, todo, best, price,   (* the locals of PriceFor                    *)
  bill,      (* what it has charged: [prompt, completion, cost]            *)
  snapshot   (* history: the table the lookup began with                   *)

tableVars  == <<stage, base, cur>>
fetchVars  == <<parsed, models>>
readerVars == <<pc, purpose, query, todo, best, price, bill, snapshot>>
vars == <<tableVars, fetchVars, readerVars>>

-----------------------------------------------------------------------------
(* Mutant: no sanity cap. *)
ToMicroUncapped(v) ==
  IF v = Unpriced \/ v = Absent THEN Unpriced
  ELSE IF v < 0 THEN Unpriced
  ELSE (2 * v * Million + Grain) \div (2 * Grain)

(* toMicroUSDPer1M: rejects, or rounds to whole uUSD, halves up. *)
ToMicroUSDPer1M(v) ==
  IF v = Unpriced \/ v = Absent THEN Unpriced
  ELSE IF v < 0 \/ v > MaxUSDPer1M * Grain THEN Unpriced
  ELSE (2 * v * Million + Grain) \div (2 * Grain)

(* Either side unpriceable drops the whole price. *)
PriceOf(in, out) ==
  LET i == ToMicroUSDPer1M(in)
      o == ToMicroUSDPer1M(out)
  IN  IF i = Unpriced \/ o = Unpriced THEN Unpriced ELSE [in |-> i, out |-> o]

(* parsePriceString: USD per 1M tokens.  A text is blank, variable ("-1",   *)
(* "per_request"), a word without a number in front, or a number with a     *)
(* unit; without a per-million unit it is USD per token.                    *)
ParsePriceString(t) ==
  IF t.form # "number" THEN Unpriced
  ELSE IF t.perMillion THEN t.value ELSE t.value * Million

ModelPrice(e) == PriceOf(ParsePriceString(e.prompt), ParsePriceString(e.completion))

Put(f, k, v) == [x \in DOMAIN f \cup {k} |-> IF x = k THEN v ELSE f[x]]

Overlay(f, g) == [x \in DOMAIN f \cup DOMAIN g |-> IF x \in DOMAIN g THEN g[x] ELSE f[x]]

NoModels == [k \in {} |-> Unpriced]

DefaultCharsPerToken == 4

-----------------------------------------------------------------------------
(* Load: any bad entry is fatal, and then the process does not start.       *)
BadFile(f) ==
  \/ ~f.header
  \/ f.assumed # Absent /\ f.assumed < 0
  \/ f.chars # Absent /\ f.chars <= 0
  \/ PriceOf(f.def.in, f.def.out) = Unpriced
  \/ \E k \in DOMAIN f.models :
       k = <<>> \/ PriceOf(f.models[k].in, f.models[k].out) = Unpriced

TableOf(f) ==
  [models  |-> [k \in DOMAIN f.models |-> PriceOf(f.models[k].in, f.models[k].out)],
   def     |-> PriceOf(f.def.in, f.def.out),
   assumed |-> IF f.assumed = Absent THEN 0 ELSE f.assumed,
   chars   |-> IF f.chars = Absent THEN DefaultCharsPerToken ELSE f.chars]

Load(f) ==
  /\ stage = "start"
  /\ IF BadFile(f)
     THEN stage' = "fatal" /\ UNCHANGED <<base, cur>>
     ELSE stage' = "serving" /\ base' = TableOf(f) /\ cur' = base'
  /\ UNCHANGED <<fetchVars, readerVars>>

(* Mutant: an unpriceable entry takes back an earlier one of the same id.   *)
Skipping(e) == IF ModelPrice(e) = Unpriced
               THEN [k \in DOMAIN models \ {e.id} |-> models[k]]
               ELSE Put(models, e.id, ModelPrice(e))

(* fetchModels: one round of its loop over the catalog. *)
Entered(e) == IF e.id = <<>> \/ ModelPrice(e) = Unpriced THEN models
              ELSE Put(models, e.id, ModelPrice(e))

FetchEntry(e) ==
  /\ stage = "serving" /\ Len(parsed) < MaxEntries
  /\ parsed' = Append(parsed, e)
  /\ models' = Entered(e)
  /\ UNCHANGED <<tableVars, readerVars>>

ForgetFetch == parsed' = <<>> /\ models' = NoModels

(* The catalog is cut short or too large, or prices nothing. *)
FetchFails ==
  /\ parsed # <<>>
  /\ ForgetFetch
  /\ UNCHANGED <<tableVars, readerVars>>

(* A reader has mu while it scans, and SavedCost until it has multiplied. *)
ReadLocked == pc = "scan" \/ (pc = "priced" /\ purpose = "saved")

(* merge: the default and the knobs are the static file's. *)
Merged ==
  [models |-> Overlay(base.models, models), def |-> base.def,
   assumed |-> base.assumed, chars |-> base.chars]

(* Mutant: the swap does not wait for the readers. *)
InstallUnlocked ==
  /\ DOMAIN models # {}
  /\ cur' = Merged
  /\ ForgetFetch
  /\ UNCHANGED <<stage, base, readerVars>>

(* The swap under mu. *)
Install ==
  /\ DOMAIN models # {} /\ ~ReadLocked
  /\ cur' = Merged
  /\ ForgetFetch
  /\ UNCHANGED <<stage, base, readerVars>>

-----------------------------------------------------------------------------
HasPrefix(model, key) ==
  Len(key) <= Len(model) /\ SubSeq(model, 1, Len(key)) = key

(* PriceFor, for the cost of a response or as the first half of SavedCost.  *)
LookUp(m, why) ==
  /\ stage = "serving" /\ pc = "idle"
  /\ query' = m /\ purpose' = why /\ snapshot' = cur
  /\ IF m \in DOMAIN cur.models
     THEN pc' = "priced" /\ price' = cur.models[m] /\ UNCHANGED todo
     ELSE pc' = "scan" /\ todo' = DOMAIN cur.models /\ UNCHANGED price
  /\ UNCHANGED <<tableVars, fetchVars, best, bill>>

(* Mutant: the last prefix met instead of the longest. *)
AnyPrefix(k) == IF HasPrefix(query, k) THEN k ELSE best

Longer(k) == IF Len(k) > Len(best) /\ HasPrefix(query, k) THEN k ELSE best

ScanKey(k) ==
  /\ pc = "scan" /\ k \in todo
  /\ todo' = todo \ {k}
  /\ best' = Longer(k)
  /\ UNCHANGED <<tableVars, fetchVars, pc, purpose, query, price, bill, snapshot>>

ScanDone ==
  /\ pc = "scan" /\ todo = {}
  /\ pc' = "priced"
  /\ price' = IF best # <<>> THEN cur.models[best] ELSE cur.def
  /\ UNCHANGED <<tableVars, fetchVars, purpose, query, todo, best, bill, snapshot>>

(* Two's complement, and Go's division, which truncates. *)
Wrap(n) ==
  LET m == n % 2^Width IN IF m >= 2^(Width - 1) THEN m - 2^Width ELSE m

Quotient(a, b) == IF a >= 0 THEN a \div b ELSE -((-a) \div b)

Cost(mp, prompt, completion) ==
  Quotient(Wrap(Wrap(prompt * mp.in) + Wrap(completion * mp.out)), Million)

(* estimateTokens: characters per token, rounded up. *)
EstimateTokens(size) == (size + cur.chars - 1) \div cur.chars

Billed(prompt, completion) ==
  /\ pc' = "billed"
  /\ bill' = [prompt |-> prompt, completion |-> completion,
              cost |-> Cost(price, prompt, completion)]
  /\ UNCHANGED <<tableVars, fetchVars, purpose, query, todo, best, price, snapshot>>

Charge(prompt, completion) ==
  pc = "priced" /\ purpose = "actual" /\ Billed(prompt, completion)

SavedCost(size) ==
  pc = "priced" /\ purpose = "saved" /\ Billed(EstimateTokens(size), cur.assumed)

NoPrice == [in |-> 0, out |-> 0]
NoTable == [models |-> NoModels, def |-> NoPrice, assumed |-> 0, chars |-> DefaultCharsPerToken]
NoBill  == [prompt |-> 0, completion |-> 0, cost |-> 0]

(* The reader has its answer; its locals die. *)
Return ==
  /\ pc = "billed" /\ pc' = "idle"
  /\ purpose' = "actual" /\ query' = <<>> /\ todo' = {} /\ best' = <<>>
  /\ price' = NoPrice /\ bill' = NoBill /\ snapshot' = NoTable
  /\ UNCHANGED <<tableVars, fetchVars>>

(* Load refused the file: main has printed the error and exited. *)
Exited == stage = "fatal" /\ UNCHANGED vars

-----------------------------------------------------------------------------
Init ==
  /\ stage = "start" /\ base = NoTable /\ cur = NoTable
  /\ parsed = <<>> /\ models = NoModels
  /\ pc = "idle" /\ purpose = "actual" /\ query = <<>> /\ todo = {} /\ best = <<>>
  /\ price = NoPrice /\ bill = NoBill /\ snapshot = NoTable

Next ==
  \/ \E f \in Files : Load(f)
  \/ \E e \in Entries : FetchEntry(e)
  \/ FetchFails \/ Install
  \/ \E m \in Queries, why \in {"actual", "saved"} : LookUp(m, why)
  \/ \E k \in todo : ScanKey(k)
  \/ ScanDone
  \/ \E p, c \in TokenCounts : Charge(p, c)
  \/ \E size \in BodySizes : SavedCost(size)
  \/ Return \/ Exited

Spec == Init /\ [][Next]_vars

-----------------------------------------------------------------------------
(* What a table promises for a model: the price of its longest key that is  *)
(* a prefix of the model (the model itself, if it is a key), else the       *)
(* default.                                                                 *)
Promised(t, m) ==
  LET keys == {k \in DOMAIN t.models : HasPrefix(m, k)}
  IN  IF keys = {} THEN t.def
      ELSE t.models[CHOOSE k \in keys : \A j \in keys : Len(j) <= Len(k)]

(* PriceFor answers what the table it began with promises, in whatever      *)
(* order the map is scanned and although refreshes swap tables meanwhile.   *)
LookupIsExact == pc = "priced" => price = Promised(snapshot, query)

(* The catalog as a whole: the last usable entry of an id counts, and an    *)
(* unusable one, or one without an id, changes nothing.                     *)
Usable(i, id) == parsed[i].id = id /\ id # <<>> /\ ModelPrice(parsed[i]) # Unpriced

CatalogIsExact ==
  /\ \A i \in DOMAIN parsed :
       Usable(i, parsed[i].id) => parsed[i].id \in DOMAIN models
  /\ \A id \in DOMAIN models : \E i \in DOMAIN parsed :
       /\ Usable(i, id) /\ models[id] = ModelPrice(parsed[i])
       /\ \A j \in DOMAIN parsed : Usable(j, id) => j <= i

(* A charge is the exact quotient, rounded towards zero, and no overflow    *)
(* turns it around: the cap on prices, whether they come from the file or   *)
(* the catalog, leaves room for every token count up to MaxExact.           *)
Small(n) == -MaxExact <= n /\ n <= MaxExact

ChargeIsExact ==
  (pc = "billed" /\ Small(bill.prompt) /\ Small(bill.completion)) =>
    bill.cost = Quotient(bill.prompt * price.in + bill.completion * price.out, Million)
=============================================================================
