------------------------------- MODULE Prices --------------------------------
(***************************************************************************)
(* What a response costs: the tokens that are recovered from its bytes (U),*)
(* how price tables are read, merged, looked up and charged by (P), when   *)
(* the registry swaps them (PriceRegistry), and what a process starts with *)
(* and leaves to the next one (L).  The four share no state, so one        *)
(* specification holds them: part says which of them is exercised in a     *)
(* behaviour, and the others rest.                                         *)
(***************************************************************************)
EXTENDS PriceRegistry, Sequences

CONSTANTS
  Parts,       (* the alphabet of the model ids                           *)
  Files, Entries, Queries, TokenCounts, BodySizes, Million, Grain,
  MaxUSDPer1M, MoneyWidth, Absent, Unpriced, MaxEntries,             (* P *)
  PriceFiles, KeyFiles, LimitFlags, Settings, EditedRows, Failures,
  Bad, None, MaxStarts,                                              (* L *)
  Responses, PromptEstimate, BufferCap, MaxChunk                     (* U *)

VARIABLES
  part,
  stage, base, table, parsed, models, reader, purpose, query, todo, best,
  price, bill, snapshot,                                             (* P *)
  process, flags, diskRow, memRow, book, limit, costAlert, callers, next,
  starts, written, edited,                                           (* L *)
  response, received, line, buffered, overCap, use, deltaCh, result  (* U *)

priceVars == <<stage, base, table, parsed, models, reader, purpose, query, todo, best,
               price, bill, snapshot>>
processVars == <<process, flags, diskRow, memRow, book, limit, costAlert, callers, next,
                 starts, written, edited>>
usageVars == <<response, received, line, buffered, overCap, use, deltaCh, result>>

P == INSTANCE Pricing WITH Width <- MoneyWidth, cur <- table, pc <- reader
L == INSTANCE ProxyProcess WITH phase <- process
U == INSTANCE UsageTracker

ASSUME PricesAssumption ==
  P!PricingConstants /\ P!IdsOver(Parts) /\ L!ProcessConstants /\ U!UsageConstants

-----------------------------------------------------------------------------
PartInit ==
  /\ part \in {"registry", "tables", "process", "usage"}
  /\ Init /\ P!Init /\ L!Init /\ U!Init
  /\ part # "registry" => ~hasFetcher
  /\ part # "usage" => response = CHOOSE r \in Responses : TRUE

Schedule == part = "registry" /\ Next /\ UNCHANGED <<part, priceVars, processVars, usageVars>>
Quote    == part = "tables" /\ P!Next /\ UNCHANGED <<part, vars, processVars, usageVars>>
Live     == part = "process" /\ L!Next /\ UNCHANGED <<part, vars, priceVars, usageVars>>
Observe  == part = "usage" /\ U!Next /\ UNCHANGED <<part, vars, priceVars, processVars>>

PartNext == Schedule \/ Quote \/ Live \/ Observe

PartSpec ==
  /\ PartInit /\ [][PartNext]_<<part, vars, priceVars, processVars, usageVars>>
  /\ \A p \in Refreshers : SF_vars(Refreshing(p))
  /\ WF_vars(Looping) /\ SF_vars(LoopEnds) /\ WF_vars(StopReturns)

-----------------------------------------------------------------------------
(* Stated in Pricing: lookups answer what their table promises, the last    *)
(* usable catalog entry counts, and charges do not overflow.                *)
LookupIsExact  == P!LookupIsExact
CatalogIsExact == P!CatalogIsExact
ChargeIsExact  == P!ChargeIsExact

(* Stated in ProxyProcess: a process serves only with all its keys and the  *)
(* settings last stored, and the price book outlives it.                    *)
ServesAsConfigured == L!ServesAsConfigured
PriceBookIsKept    == L!PriceBookIsKept

(* Stated in UsageTracker: the tokens accounted do not depend on how the    *)
(* stream was cut into chunks, and a usage object once seen is what counts. *)
ChunkingIsInvisible == U!ChunkingIsInvisible
UsageIsKept         == U!UsageIsKept

(* Stated in ProxyProcess, and not true: -limit is the threshold.           *)
LimitFlagCounts == L!LimitFlagCounts
=============================================================================
