---------------------------- MODULE UsageTracker ----------------------------
(***************************************************************************)
(* The passive observer of an upstream response body, usageTrackingBody in *)
(* pkg/proxy/cost_tracking.go: it recovers the token counts of a response  *)
(* from a copy of its bytes, cut into chunks wherever the network cut them.*)
(*                                                                         *)
(* A response is a sequence of lines.  A line is what processLine makes of *)
(* it: the usage object, a content delta, or nothing of interest (other    *)
(* fields, [DONE], what is not JSON); its size counts its bytes with the   *)
(* line feed, which the last line may lack.  A response that is not an     *)
(* event stream is one line: a document with or without a usage object.    *)
(*                                                                         *)
(* One goroutine reads a body, so a Read is one action.  Finish is the end *)
(* of the stream or Close; that finalize runs once is part of ProxyHandler.*)
(***************************************************************************)
EXTENDS Integers, Sequences, FiniteSetsExt

CONSTANTS
  Responses,       (* [sse, lines]                                        *)
  PromptEstimate,  (* meta.promptTok, the estimate from the request       *)
  BufferCap,       (* usageBufferCap                                      *)
  MaxChunk         (* bytes one Read returns at most: the buffer the      *)
                   (* reverse proxy copies with                           *)

Lines == [kind : {"usage", "delta", "other"}, size : Nat \ {0}, prompt : Int,
          completion : Int, content : Nat, feed : BOOLEAN]

UsageConstants ==
  /\ PromptEstimate \in Nat
  /\ BufferCap \in Nat
  /\ MaxChunk \in Nat \ {0}
  /\ Responses # {}
  /\ \A r \in Responses : /\ r.sse \in BOOLEAN /\ r.lines \in Seq(Lines)
                          /\ \A i \in 1..(Len(r.lines) - 1) : r.lines[i].feed

VARIABLES
  response,  (* what the upstream sends                                   *)
  received,  (* bytes read so far                                         *)
  line,      (* the first line not processed yet                          *)
  buffered,  (* len(pending), or len(jsonBuf)                             *)
  overCap,
  use,       (* haveUse, useP and useC                                    *)
  deltaCh,
  result     (* the token counts handed to onCost                         *)

vars == <<response, received, line, buffered, overCap, use, deltaCh, result>>

NoUse == [have |-> FALSE, prompt |-> 0, completion |-> 0]
NoResult == <<-1, -1>>

(* f[1] + ... + f[n] *)
Sum(f, n) ==
  LET upTo[i \in Nat] == IF i = 0 THEN 0 ELSE upTo[i - 1] + f[i]
  IN  upTo[n]

(* Where line i ends. *)
End(r, i) == Sum([k \in 1..Len(r.lines) |-> r.lines[k].size], i)

Size(r) == End(r, Len(r.lines))

(* The lines whose line feed is among the first n bytes. *)
Complete(r, n) == {i \in 1..Len(r.lines) : r.lines[i].feed /\ End(r, i) <= n}

-----------------------------------------------------------------------------
(* processLine and parseSSEPayload: nothing counts after a usage object. *)
ProcessLine(st, l) ==
  IF st.use.have THEN st
  ELSE CASE l.kind = "usage" ->
              [use |-> [have |-> TRUE, prompt |-> l.prompt, completion |-> l.completion],
               ch  |-> st.ch]
         [] l.kind = "delta" -> [st EXCEPT !.ch = @ + l.content]
         [] OTHER -> st

(* Mutant: only the first complete line of a chunk is processed. *)
ProcessFirst(st, lines) == IF lines = <<>> THEN st ELSE ProcessLine(st, Head(lines))

ProcessLines(st, lines) ==
  LET after[i \in Nat] == IF i = 0 THEN st ELSE ProcessLine(after[i - 1], lines[i])
  IN  after[Len(lines)]

(* The buffer with n more bytes in it exceeds the cap. *)
Overflows(n) == buffered + n > BufferCap

(* Mutant: an observer that overflows forgets all it has seen. *)
OverflowForgets ==
  /\ overCap' = TRUE
  /\ buffered' = 0
  /\ use' = NoUse /\ deltaCh' = 0
  /\ UNCHANGED line

(* Past the cap the observer stops parsing.  A partial count of the content *)
(* is dropped, a usage object already seen is kept.                         *)
Overflow ==
  /\ overCap' = TRUE
  /\ buffered' = 0
  /\ deltaCh' = IF response.sse /\ ~use.have THEN 0 ELSE deltaCh
  /\ UNCHANGED <<line, use>>

FeedJSON(n) ==
  /\ buffered' = buffered + n
  /\ UNCHANGED <<line, use, deltaCh, overCap>>

(* The chunk joins the pending bytes, and every complete line is processed. *)
FeedSSE(n) ==
  LET due  == {i \in Complete(response, received + n) : i >= line}
      next == IF due = {} THEN line ELSE Max(due) + 1
      st   == ProcessLines([use |-> use, ch |-> deltaCh], SubSeq(response.lines, line, next - 1))
  IN  /\ line' = next
      /\ use' = st.use
      /\ deltaCh' = st.ch
      /\ buffered' = received + n - End(response, next - 1)
      /\ UNCHANGED overCap

(* Read returns n bytes, which pass through to the client unchanged. *)
Read(n) ==
  /\ result = NoResult
  /\ received + n <= Size(response)
  /\ received' = received + n
  /\ IF overCap THEN UNCHANGED <<line, buffered, overCap, use, deltaCh>>
     ELSE IF Overflows(n) THEN Overflow
     ELSE IF response.sse THEN FeedSSE(n) ELSE FeedJSON(n)
  /\ UNCHANGED <<response, result>>

EstimateCompletionTokens(chars) == IF chars <= 0 THEN 0 ELSE (chars + 3) \div 4

(* parseJSONUsage needs the whole document. *)
ParsesWithUsage ==
  ~overCap /\ buffered = Size(response) /\ response.lines[1].kind = "usage"

Tokens ==
  CASE response.sse /\ use.have -> <<use.prompt, use.completion>>
    [] response.sse /\ ~use.have -> <<PromptEstimate, EstimateCompletionTokens(deltaCh)>>
    [] ~response.sse /\ ParsesWithUsage ->
         <<response.lines[1].prompt, response.lines[1].completion>>
    [] OTHER -> <<PromptEstimate, 0>>

(* The end of the stream, an error, or the client going away: at any byte. *)
Finish ==
  /\ result = NoResult
  /\ result' = Tokens
  /\ UNCHANGED <<response, received, line, buffered, overCap, use, deltaCh>>

(* The response has been accounted; nothing is left to do. *)
Closed == result # NoResult /\ UNCHANGED vars

Init ==
  /\ response \in Responses
  /\ received = 0
  /\ line = 1
  /\ buffered = 0
  /\ overCap = FALSE
  /\ use = NoUse
  /\ deltaCh = 0
  /\ result = NoResult

Next == (\E n \in 1..MaxChunk : Read(n)) \/ Finish \/ Closed

Spec == Init /\ [][Next]_vars

-----------------------------------------------------------------------------
(* Type invariant, with the bound the declaration states: at most           *)
(* usageBufferCap bytes of parse state (cost_tracking.go:136-137).          *)
TypeOK ==
  /\ response \in Responses
  /\ received \in 0..Size(response)
  /\ line \in 1..(Len(response.lines) + 1)
  /\ buffered \in 0..BufferCap
  /\ overCap \in BOOLEAN
  /\ use \in [have : BOOLEAN, prompt : Int, completion : Int]
  /\ deltaCh \in Nat

(* The tokens of the lines that have arrived whole: the first usage object  *)
(* among them, or else the content so far.                                  *)
Expected ==
  LET whole  == Complete(response, received)
      usages == {i \in whole : response.lines[i].kind = "usage"}
      chars  == [i \in 1..Len(response.lines) |->
                   IF i \in whole /\ response.lines[i].kind = "delta"
                   THEN response.lines[i].content ELSE 0]
  IN  IF usages # {}
      THEN <<response.lines[Min(usages)].prompt, response.lines[Min(usages)].completion>>
      ELSE <<PromptEstimate, (Sum(chars, Len(response.lines)) + 3) \div 4>>

(* The buffer takes any line of the response and, in the worst case, a full *)
(* chunk after all of the line but its last byte.                           *)
Fits == \A i \in 1..Len(response.lines) :
          response.lines[i].size + MaxChunk <= BufferCap + 1

(* Where the network cuts the stream does not matter: whatever the chunks   *)
(* are and wherever the stream breaks off, what is accounted depends only   *)
(* on the lines that arrived whole, if all lines stay a chunk below the cap *)
(* of the parse buffer.  With longer lines it depends on the cuts too, but  *)
(* there are no more than two outcomes: the same, or the estimate with no   *)
(* completion at all; never a part of the content.                          *)
ChunkingIsInvisible ==
  (result # NoResult /\ response.sse) =>
    /\ result \in {Expected, <<PromptEstimate, 0>>}
    /\ Fits => result = Expected

(* The real usage is never lost again: once it has been seen, no later line *)
(* replaces it, no overflow of the buffer clears it, and it is what the     *)
(* response is accounted by, at the end of the stream or when the client    *)
(* goes away.                                                               *)
UsageIsKept ==
  [][use.have => /\ use' = use
                 /\ result' # result => result' = <<use.prompt, use.completion>>]_vars
=============================================================================
