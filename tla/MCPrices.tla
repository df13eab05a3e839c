------------------------------ MODULE MCPrices ------------------------------
(* Instances of Prices for TLC. *)
EXTENDS Prices

(* The table of a manual update prices the static models, as seeded.        *)
Manual == [m \in BaseModels |-> "manual"]

ManualTables == {Manual}

(* Ids of which one is a prefix of the next, and two that are none's.       *)
G == <<"gpt">>
G4 == <<"gpt", "4o">>
G4m == <<"gpt", "4o", "mini">>
Claude == <<"claude">>

USD(in, out) == [in |-> in, out |-> out]
File(m, d, a, c) == [header |-> TRUE, assumed |-> a, chars |-> c, def |-> d, models |-> m]
One(k, p) == [x \in {k} |-> p]

(* A good file with the knobs absent, one with them, and the ways to be     *)
(* refused; amounts in half dollars.                                        *)
Good == File(One(G, USD(2, 3)), USD(1, 1), Absent, Absent)

StaticFiles ==
  {Good, File(One(G4, USD(4, 0)), USD(3, 2), 2, 3),
   [Good EXCEPT !.header = FALSE], [Good EXCEPT !.assumed = -1], [Good EXCEPT !.chars = 0],
   [Good EXCEPT !.def = USD(1, Absent)], [Good EXCEPT !.models = One(<<>>, USD(1, 1))],
   [Good EXCEPT !.models = One(G, USD(1, 20))]}

Text(form, value, perMillion) == [form |-> form, value |-> value, perMillion |-> perMillion]
PerM(n) == Text("number", n, TRUE)
PerToken(n) == Text("number", n, FALSE)
NoText == Text("blank", 0, FALSE)

Entry(id, prompt, completion) == [id |-> id, prompt |-> prompt, completion |-> completion]

CatalogEntries ==
  {Entry(G, PerM(4), PerM(0)), Entry(G, PerM(1), NoText), Entry(G, PerM(3), PerToken(1)),
   Entry(G4m, PerToken(2), PerM(1)), Entry(<<>>, PerM(1), PerM(1)),
   Entry(Claude, PerM(-1), PerM(1))}

LookedUp == {G4m, <<"gpt", "4o", "max">>, Claude}
Tokens == {-5, 7, 8}

(* Keys files: one that names a key twice, one with an entry without id;    *)
(* settings: one that SetLimit clamps.                                      *)
Key(k, id, budget) == [key |-> k, id |-> id, budget |-> budget]

Row(loop, cost) == [loop |-> loop, cost |-> cost]

StaticPrices == {Bad, One("gpt", 2), [m \in {"gpt", "claude"} |-> 3]}
CallerKeys == {<<Key("k1", "a", 1), Key("k2", "b", 0), Key("k1", "c", 2)>>,
               <<Key("k1", "a", 1), Key("k2", None, 1)>>}
StoredRows == {Row(-1, 1), Row(5, 0)}
PriceEdits == {[price |-> 9, source |-> "manual"], [price |-> 2, source |-> "sync"]}

Line(what, size, prompt, completion, content, feed) ==
  [kind |-> what, size |-> size, prompt |-> prompt, completion |-> completion,
   content |-> content, feed |-> feed]

Usage(size, c) == Line("usage", size, 7, c, 0, TRUE)
Delta(size, n) == Line("delta", size, 0, 0, n, TRUE)
Other(size)    == Line("other", size, 0, 0, 0, TRUE)
Unfed(l)       == [l EXCEPT !.feed = FALSE]

(* Event streams of up to three lines, and of four of the shorter kinds of  *)
(* line: some a chunk below the cap of the parse buffer, one that           *)
(* overflows the buffer after some cuts only and one that always does, the  *)
(* last line perhaps without its line feed; and documents, one too large.   *)
SomeLines == {Delta(2, 3), Delta(4, 6), Delta(7, 5), Other(1), Usage(2, 5), Usage(3, 9)}

ShortLines == {Delta(2, 3), Delta(4, 6), Other(1), Usage(2, 5)}

Fed == UNION {[1..n -> SomeLines] : n \in 1..3} \cup [1..4 -> ShortLines]

Streams == Fed \cup {[s EXCEPT ![Len(s)] = Unfed(@)] : s \in Fed}

Documents == {<<Unfed(Usage(6, 5))>>, <<Unfed(Usage(8, 5))>>, <<Unfed(Other(4))>>}

Bodies == {[sse |-> TRUE, lines |-> s] : s \in Streams}
          \cup {[sse |-> FALSE, lines |-> d] : d \in Documents}
=============================================================================
