--------------------------- MODULE MCProxyHandler ---------------------------
(* Instances of ProxyHandler for TLC.  Authentication is on or off for all  *)
(* requests of a run: From is the set of callers that may show up.          *)
EXTENDS ProxyHandler, TLC

CONSTANTS
  From,    (* who sends requests                                           *)
  Kinds,   (* the kinds of request that arrive                             *)
  Daily, Monthly   (* the budgets of every caller                          *)

MCDaily == [k \in Callers \cup {Anonymous} |-> Daily]
MCMonthly == [k \in Callers \cup {Anonymous} |-> Monthly]
MCInputs == [kind : Kinds, caller : From, agent : Agents, fp : Fps]

(* The upstream may report a negative number of tokens. *)
GateCosts == {-1, 2}

(* The goroutines that serve requests are interchangeable. *)
Symmetry == Permutations(Requests)
=============================================================================
