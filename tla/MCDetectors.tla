----------------------------- MODULE MCDetectors ----------------------------
(***************************************************************************)
(* An instance of Detectors for TLC.  The agents and fingerprints of the   *)
(* exact-hash detector are interchangeable: none of its actions or         *)
(* properties distinguishes one from another.                              *)
(***************************************************************************)
EXTENDS Detectors, TLC

Symmetry == Permutations(Agents) \cup Permutations(Fps)

-----------------------------------------------------------------------------
Tok(kind, v) == [kind |-> kind, value |-> v]
Key(k) == Tok("static", k)

(* One turn of a loop, {"attempt": ...} with a value of every dynamic kind: *)
(* two turns of it, the second with white space; the same key with a text   *)
(* instead; and a body too small to have a form.                            *)
Turn(v, space) ==
  <<Key("attempt")>> \o space \o
    [i \in 1..6 |-> Tok(<<"number", "uuid", "timestamp", "hex", "bool", "null">>[i], v)]

Text == <<Key("attempt"), Key("1")>>

TurnBodies ==
  {Turn("x", <<>>), Turn("y", <<Tok("space", " ")>>), Text, <<Tok("bool", "true")>>}

(* The shingles of a turn and of the text, which happen to look alike. *)
TurnSketch == {<<"attempt", "#">>, <<"#", "U">>, <<"U", "T">>, <<"T", "H">>, <<"H", "B">>, <<"B", "N">>}
TextSketch == {<<"attempt", "1">>}
LookAlike  == {<<TurnSketch, TextSketch>>, <<TextSketch, TurnSketch>>}

(* One tool call per request, a call with the definition of its tool in     *)
(* both lists, or no JSON.                                                  *)
Call(t) == [parses |-> TRUE, calls |-> <<t>>, functions |-> <<>>, tools |-> <<>>]
Garbled == [parses |-> FALSE, calls |-> <<>>, functions |-> <<>>, tools |-> <<>>]
Listing == [parses |-> TRUE, calls |-> <<"B">>, functions |-> <<"B">>, tools |-> <<"B">>]
Calls   == {Call("A"), Call("B"), Listing, Garbled}
=============================================================================
