------------------------------ MODULE Pipeline ------------------------------
(***************************************************************************)
(* The detector pipeline, pkg/circuitbreaker/pipeline.go: the exact-hash   *)
(* detector (E) and the structural (S), tool-cycle (T) and velocity (V)    *)
(* stages behind one CheckPayload and one Reset.                           *)
(*                                                                         *)
(* Every stage has a mutex of its own and the pipeline has none, so each   *)
(* call of a stage is one step, and the calls of concurrent requests and   *)
(* of a Reset interleave between them.                                     *)
(*                                                                         *)
(* checks, resets, fresh and crossing are history variables.               *)
(***************************************************************************)
EXTENDS Integers, FiniteSets, Sequences

CONSTANTS
  Requests,     (* the goroutines serving requests                        *)
  Agents, Fps,
  Bodies,       (* [fp, tokens, tools, len]: what the stages see of one   *)
  HashTTL, InitLimit,
  Near, ShingleSize, MaxShingles, SketchWindow, SketchLimit,
  MaxSeq, MaxPeriod, CycleLimit,
  Window, ShortWindow, BurstTokens, SpikeFactor, MaxEvents,
  TTL,          (* of the structural and the tool stage                   *)
  MaxEntries, Second,
  MaxClock,     (* bound: the clock stops here                            *)
  MaxChecks,    (* bound: CheckPayload and Check calls                    *)
  MaxResets     (* bound: Reset calls                                     *)

VARIABLES
  now,
  seen, limit, verdict, alerts, passed,        (* E *)
  sketches, sketchVerdict, recent,             (* S *)
  tools, toolVerdict, hist, pushed, singles,   (* T *)
  rates, rateVerdict, obs, alert,              (* V *)
  pc,       (* the stage a request is to call next                        *)
  req,      (* its agent and body                                         *)
  reset,    (* the Reset in progress: its agent and the stage it is to    *)
            (* call next                                                  *)
  checks,   (* history: calls so far                                      *)
  resets,   (* history: Reset calls so far, for each agent                *)
  fresh,    (* history: no check of the agent has begun since its last    *)
            (* Reset returned                                             *)
  crossing  (* history: checks of the agent in flight during its last     *)
            (* Reset                                                      *)

E == INSTANCE HashDetector WITH TTL <- HashTTL, LimitInputs <- {}, MaxSightings <- MaxChecks
S == INSTANCE StructuralHasher WITH
       Bodies <- {b.tokens : b \in Bodies}, Window <- SketchWindow, Limit <- SketchLimit,
       MaxRequests <- MaxChecks, seen <- sketches, verdict <- sketchVerdict
T == INSTANCE ToolMatcher WITH
       Bodies <- {b.tools : b \in Bodies}, Limit <- CycleLimit,
       MaxNames <- 2 * MaxChecks, states <- tools, verdict <- toolVerdict

(* estimateTokens: four bytes to a token, rounded up. *)
EstimateTokens(body) == (body.len + 3) \div 4

V == INSTANCE VelocityBreaker WITH
       TokenCounts <- {EstimateTokens(b) : b \in Bodies}, MaxObserved <- MaxChecks,
       states <- rates, verdict <- rateVerdict

(* What the constructors of the stages guarantee; what bodies are made of.  *)
ASSUME PipelineAssumption ==
  /\ HashTTL \in Nat \ {0} /\ MaxEntries \in Nat \ {0} /\ InitLimit \in Int
  /\ S!StructuralConstants /\ T!ToolConstants /\ V!VelocityConstants
  /\ \A b \in Bodies : b.fp \in Fps /\ T!ExtractToolNames(b.tools) \in Seq(STRING)
  /\ MaxChecks \in Nat /\ MaxResets \in Nat

exactVars  == <<seen, limit, verdict, alerts, passed>>
sketchVars == <<sketches, sketchVerdict, recent>>
toolVars   == <<tools, toolVerdict, hist, pushed, singles>>
rateVars   == <<rates, rateVerdict, obs, alert>>
ownVars    == <<pc, req, reset, checks, resets, fresh, crossing>>

vars == <<now, exactVars, sketchVars, toolVars, rateVars, ownVars>>

NoRequest == [agent |-> CHOOSE a \in Agents : TRUE, body |-> CHOOSE b \in Bodies : TRUE]

Idle(a) == [agent |-> a, stage |-> "idle"]

InFlight(a) == {r \in Requests : pc[r] # "idle" /\ req[r].agent = a}

Goto(r, from, to) == pc[r] = from /\ pc' = [pc EXCEPT ![r] = to]

(* A verdict ends the call when it blocks; otherwise the next stage is due. *)
After(blocked, stage) == IF blocked THEN "idle" ELSE stage

-----------------------------------------------------------------------------
(* A call for agent a begins. *)
Begin(a) ==
  /\ checks < MaxChecks
  /\ checks' = checks + 1
  /\ IF reset.stage # "idle" /\ reset.agent = a
     THEN crossing' = [crossing EXCEPT ![a] = @ + 1] /\ UNCHANGED fresh
     ELSE fresh' = [fresh EXCEPT ![a] = FALSE] /\ UNCHANGED crossing
  /\ UNCHANGED <<reset, resets>>

(* Check, the contract without a body: the exact stage alone. *)
Check(a, fp) ==
  /\ Begin(a)
  /\ E!Check(<<a, fp>>)
  /\ UNCHANGED <<sketchVars, toolVars, rateVars, pc, req>>

(* CheckPayload: first the exact stage, ... *)
ExactStage(r, a, body) ==
  /\ Begin(a)
  /\ E!Check(<<a, body.fp>>)
  /\ req' = [req EXCEPT ![r] = [agent |-> a, body |-> body]]
  /\ Goto(r, "idle", After(verdict'.block, "structural"))
  /\ UNCHANGED <<sketchVars, toolVars, rateVars>>

(* Mutant: a structural block does not end the call. *)
StructuralStageGoesOn(r) ==
  /\ S!CheckPayload(req[r].agent, req[r].body.tokens)
  /\ Goto(r, "structural", "tools")
  /\ UNCHANGED <<exactVars, toolVars, rateVars, req, reset, checks, resets, fresh, crossing>>

(* ... then, unless a block has ended the call, each further stage. *)
StructuralStage(r) ==
  /\ S!CheckPayload(req[r].agent, req[r].body.tokens)
  /\ Goto(r, "structural", After(sketchVerdict'.block, "tools"))
  /\ UNCHANGED <<exactVars, toolVars, rateVars, req, reset, checks, resets, fresh, crossing>>

ToolStage(r) ==
  /\ T!CheckPayload(req[r].agent, req[r].body.tools)
  /\ Goto(r, "tools", After(toolVerdict'.block, "velocity"))
  /\ UNCHANGED <<exactVars, sketchVars, rateVars, req, reset, checks, resets, fresh, crossing>>

VelocityStage(r) ==
  /\ V!CheckVelocity(req[r].agent, EstimateTokens(req[r].body))
  /\ Goto(r, "velocity", "idle")
  /\ UNCHANGED <<exactVars, sketchVars, toolVars, req, reset, checks, resets, fresh, crossing>>

-----------------------------------------------------------------------------
(* Reset fans out in the same order, one stage after the other. *)
ResetExact(a) ==
  /\ reset.stage = "idle"
  /\ E!Reset(a)
  /\ reset' = [agent |-> a, stage |-> "structural"]
  /\ resets[a] < MaxResets
  /\ resets' = [resets EXCEPT ![a] = @ + 1]
  /\ fresh' = [fresh EXCEPT ![a] = FALSE]
  /\ crossing' = [crossing EXCEPT ![a] = Cardinality(InFlight(a))]
  /\ UNCHANGED <<sketchVars, toolVars, rateVars, pc, req, checks>>

ResetStructural ==
  /\ reset.stage = "structural"
  /\ S!Reset(reset.agent)
  /\ reset' = [reset EXCEPT !.stage = "tools"]
  /\ UNCHANGED <<exactVars, toolVars, rateVars, pc, req, checks, resets, fresh, crossing>>

(* Mutant: the fan-out ends with the tool stage. *)
ResetToolsOnly ==
  /\ reset.stage = "tools"
  /\ T!Reset(reset.agent)
  /\ reset' = [reset EXCEPT !.stage = "idle"]
  /\ fresh' = [fresh EXCEPT ![reset.agent] = TRUE]
  /\ UNCHANGED <<exactVars, sketchVars, rateVars, pc, req, checks, resets, crossing>>

ResetTools ==
  /\ reset.stage = "tools"
  /\ T!Reset(reset.agent)
  /\ reset' = [reset EXCEPT !.stage = "velocity"]
  /\ UNCHANGED <<exactVars, sketchVars, rateVars, pc, req, checks, resets, fresh, crossing>>

ResetVelocity ==
  /\ reset.stage = "velocity"
  /\ V!Reset(reset.agent)
  /\ reset' = [reset EXCEPT !.stage = "idle"]
  /\ fresh' = [fresh EXCEPT ![reset.agent] = TRUE]
  /\ UNCHANGED <<exactVars, sketchVars, toolVars, pc, req, checks, resets, crossing>>

Tick ==
  /\ E!Tick /\ S!Tick /\ T!Tick /\ V!Tick
  /\ UNCHANGED ownVars

Init ==
  /\ E!Init /\ S!Init /\ T!Init /\ V!Init
  /\ pc = [r \in Requests |-> "idle"]
  /\ req = [r \in Requests |-> NoRequest]
  /\ reset = Idle(NoRequest.agent)
  /\ checks = 0
  /\ resets = [a \in Agents |-> 0]
  /\ fresh = [a \in Agents |-> TRUE]
  /\ crossing = [a \in Agents |-> 0]

Next ==
  \/ \E a \in Agents, fp \in Fps : Check(a, fp)
  \/ \E r \in Requests, a \in Agents, body \in Bodies : ExactStage(r, a, body)
  \/ \E r \in Requests : StructuralStage(r) \/ ToolStage(r) \/ VelocityStage(r)
  \/ \E a \in Agents : ResetExact(a)
  \/ ResetStructural \/ ResetTools \/ ResetVelocity
  \/ Tick

Spec == Init /\ [][Next]_vars

-----------------------------------------------------------------------------
(* The types of the stages and of this module's own variables. *)
TypeOK ==
  /\ E!TypeOK /\ S!TypeOK /\ T!TypeOK /\ V!TypeOK
  /\ pc \in [Requests -> {"idle", "structural", "tools", "velocity"}]
  /\ reset \in [agent : Agents, stage : {"idle", "structural", "tools", "velocity"}]
  /\ checks \in 0..MaxChecks
  /\ crossing \in [Agents -> 0..MaxChecks]
  /\ resets \in [Agents -> 0..MaxResets]

(* What the exact stage remembers of an agent, one element per sighting,    *)
(* and how many tools a body calls.                                         *)
Sightings(a) ==
  UNION {{k} \X (1..seen[k].count) : k \in {l \in DOMAIN seen : l[1] = a}}

Calls == {Len(T!ExtractToolNames(b.tools)) : b \in Bodies}

(* A Reset and the requests it crosses: when it has returned, and before    *)
(* another request of the agent begins, no stage remembers more of the      *)
(* agent than one observation for each request that was in flight meanwhile *)
(* - nothing at all when there was none.                                    *)
LeftoverIsInFlight ==
  \A a \in Agents : fresh[a] =>
    /\ Cardinality(Sightings(a)) <= crossing[a]
    /\ a \in DOMAIN sketches => Len(sketches[a].sigs) <= crossing[a]
    /\ a \in DOMAIN tools =>
         \A n \in Calls : (\A m \in Calls : m <= n) => Len(tools[a].seq) <= crossing[a] * n
    /\ a \in DOMAIN rates => /\ Len(rates[a].events) <= crossing[a]
                             /\ Len(rates[a].short) <= crossing[a]

(* A later stage only hears of requests that every earlier one has let      *)
(* through, also when requests overtake each other between stages: it never *)
(* charges an agent for a request that another stage has already refused.   *)
(* The passes of the exact stage pay, one each, for what velocity has       *)
(* observed, what structural has refused and what is still in flight; and   *)
(* for what structural has recorded and what is on its way there.           *)
FunnelNarrows ==
  \A a \in {b \in Agents : resets[b] = 0} :
    LET refused == {i \in DOMAIN recent[a] : ~recent[a][i].pass}
        exact   == UNION {{<<k, p>> : p \in passed[k]} : k \in {a} \X Fps}
    IN  (now < HashTTL /\ checks <= MaxEntries) =>
           /\ Len(obs[a]) + Cardinality(refused) + Cardinality(InFlight(a)) <= Cardinality(exact)
           /\ Len(recent[a]) + Cardinality({r \in InFlight(a) : pc[r] = "structural"})
                <= Cardinality(exact)
=============================================================================
