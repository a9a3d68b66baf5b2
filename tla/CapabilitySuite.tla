--------------------------- MODULE CapabilitySuite ---------------------------
(***************************************************************************)
(* The capability suite: the eight requests it sends to a model and what   *)
(* it makes of the answers.  The body of an answer is the set of facts the *)
(* suite reads off it; a stream is the sequence of its frames.             *)
(***************************************************************************)
EXTENDS Integers, SequencesExt

CONSTANT Protocol  \* the protocol the model is asked in
Protocols == {"responses", "messages", "chat"}
ASSUME ProtocolAssumption == Protocol \in Protocols

Probes == <<"minimal", "rejected", "streamed", "cancelled", "invalid", "tool", "forced",
            "structured">>
Streams == {"streamed", "cancelled"}

(* The capabilities, in the order in which the suite reports them.         *)
Registry == <<"endpoint-reachable", "model-id-mapping", "non-streaming", "streaming-order",
              "cancellation", "error-semantics", "single-tool-call", "forced-tool-choice",
              "structured-output">>
(* Mutant: authentication is only preferred.                               *)
RequiredButAuth ==
  ToSet(Registry) \ {"endpoint-reachable", "cancellation", "forced-tool-choice", "structured-output"}
RequiredCaps == ToSet(Registry) \ {"cancellation", "forced-tool-choice", "structured-output"}

-----------------------------------------------------------------------------
(* What is sent *)

Asking(prompt, ceiling, stream) ==
  [prompt |-> prompt, ceiling |-> ceiling, stream |-> stream, tool |-> "none",
   choice |-> "auto", schema |-> "none"]
minimalBody(stream) == Asking("ok", 16, stream)
longerStreamBody == Asking("count", 256, TRUE)
invalidBody == Asking("ok", -1, FALSE)
toolBody == [Asking("weather with the tool", 256, FALSE) EXCEPT !.tool = "get_weather"]
forcedToolBody ==
  [Asking("weather", 256, FALSE) EXCEPT !.tool = "get_weather", !.choice = "get_weather"]

(* Messages has no mode for structured output: a forced tool carries the   *)
(* schema.                                                                 *)
(* Mutant: the schema is always asked for by itself.                       *)
structuredBodyByMode == [Asking("reading", 256, FALSE) EXCEPT !.schema = "reading"]
structuredBody ==
  IF Protocol = "messages"
  THEN [Asking("reading", 256, FALSE) EXCEPT !.tool = "report_weather", !.choice = "report_weather"]
  ELSE [Asking("reading", 256, FALSE) EXCEPT !.schema = "reading"]

BodyOf(p) ==
  CASE p \in {"minimal", "rejected"} -> minimalBody(FALSE)
    [] p = "streamed" -> minimalBody(TRUE)
    [] p = "cancelled" -> longerStreamBody
    [] p = "invalid" -> invalidBody
    [] p = "tool" -> toolBody
    [] p = "forced" -> forcedToolBody
    [] p = "structured" -> structuredBody

-----------------------------------------------------------------------------
(* What comes back *)

(* An answer does not arrive, breaks off in its body, is longer than the   *)
(* suite reads (cut also when recorded), or arrives whole.                 *)
Facts(p) ==
  CASE p = "minimal" -> {"shape", "usage", "model", "mapped"}
    [] p = "invalid" -> {"error"}
    [] p \in {"tool", "forced"} -> {"call", "city"}
    [] p = "structured" -> {"value", "fields"}
    [] OTHER -> {}
Frames == <<"first", "frame", "last">>
Whole(p, status, facts, id) ==
  [arrives |-> "whole", status |-> status, facts |-> facts, id |-> id,
   events |-> IF p \in Streams /\ status = 200 THEN Frames ELSE <<>>]
Lost == [arrives |-> "lost", status |-> 0, facts |-> {}, id |-> "none", events |-> <<>>]

(* A model that keeps to its protocol: it refuses a wrong credential and a *)
(* negative ceiling, calls a tool it is asked or forced to call, and fills *)
(* in a schema where its protocol has a place for one.                     *)
CanFill(b) == b.choice = "report_weather" \/ (b.schema # "none" /\ Protocol # "messages")
Usual(p) ==
  LET b == BodyOf(p)
      holds == {"shape", "usage", "model", "mapped"}
                 \cup (IF b.tool # "none" THEN {"call", "city"} ELSE {})
                 \cup (IF CanFill(b) THEN {"value", "fields"} ELSE {})
  IN IF p = "rejected" THEN Whole(p, 401, {}, "own")
     ELSE IF b.ceiling < 0 THEN Whole(p, 400, {"error"}, "own")
     ELSE Whole(p, 200, Facts(p) \cap holds, "own")
Unusual(p) ==
  {Lost}
    \cup {[Usual(p) EXCEPT !.arrives = a, !.facts = {}, !.events = es] :
            a \in {"cut", "long"}, es \in IF p \in Streams THEN {<<>>, <<"first", "frame">>} ELSE {<<>>}}
    \cup {Whole(p, 200, Facts(p) \ fs, id) : fs \in {{}, Facts(p)} \cup {{f} : f \in Facts(p)},
                                           id \in {"own", "none"}}
    \cup {Whole(p, s, fs, id) : s \in {400, 401}, id \in {"own", "none"},
                                fs \in IF p = "invalid" THEN SUBSET Facts(p) ELSE {{}}}
    \cup {Whole(p, 500, {}, "edge")}
    \cup {[Usual(p) EXCEPT !.events = es] :
            es \in IF p \in Streams THEN {<<>>, <<"frame", "last">>, <<"first">>} ELSE {}}

(* jsonProbe, streamProbe: a request that gets no response is a result, a  *)
(* body that cannot be read throws, except in a stream under way.          *)
Ok(a) == a.status = 200
EnoughToAbort(a) == Ok(a) /\ Len(a.events) >= 2
Throws(p, a) == a.arrives = "cut" /\ ~(p \in Streams /\ Ok(a))
BreaksOff(p, a) == a.arrives = "cut" /\ ~(p = "cancelled" /\ EnoughToAbort(a))
Succeeds(p, a) == Ok(a) /\ ~(p \in Streams /\ BreaksOff(p, a))

-----------------------------------------------------------------------------
(* What is made of it *)

Graded(ok, whole, partly) ==
  IF ~ok THEN "unsupported" ELSE IF whole THEN "supported" ELSE IF partly THEN "partial"
  ELSE "unsupported"

EndpointReachable(as) ==
  Graded(Succeeds("minimal", as["minimal"]), as["rejected"].status \in {401, 403}, FALSE)
ModelIdMapping(as) ==
  IF ~Succeeds("minimal", as["minimal"]) THEN "unknown"
  ELSE Graded("mapped" \in as["minimal"].facts, "model" \in as["minimal"].facts, TRUE)
NonStreaming(as) ==
  Graded(Succeeds("minimal", as["minimal"]), {"shape", "usage"} \subseteq as["minimal"].facts, TRUE)
StreamingOrder(as) ==
  LET es == as["streamed"].events
  IN Graded(Succeeds("streamed", as["streamed"]),
            es # <<>> /\ Head(es) = "first" /\ Last(es) = "last", FALSE)
Cancellation(as) ==
  IF EnoughToAbort(as["cancelled"]) THEN "supported"
  ELSE Graded(Succeeds("cancelled", as["cancelled"]), FALSE, TRUE)
ErrorSemantics(as) ==
  Graded(as["invalid"].status \in 400..499,
         "error" \in as["invalid"].facts /\ as["invalid"].id # "none", TRUE)
SingleToolCall(as) ==
  Graded(Succeeds("tool", as["tool"]) /\ "call" \in as["tool"].facts,
         "city" \in as["tool"].facts, TRUE)
ForcedToolChoice(as) == Graded(Succeeds("forced", as["forced"]), "call" \in as["forced"].facts, TRUE)
StructuredOutput(as) ==
  Graded(Succeeds("structured", as["structured"]),
         {"value", "fields"} \subseteq as["structured"].facts, FALSE)

Outcomes(as) ==
  [c \in ToSet(Registry) |->
    CASE c = "endpoint-reachable" -> EndpointReachable(as)
      [] c = "model-id-mapping" -> ModelIdMapping(as)
      [] c = "non-streaming" -> NonStreaming(as)
      [] c = "streaming-order" -> StreamingOrder(as)
      [] c = "cancellation" -> Cancellation(as)
      [] c = "error-semantics" -> ErrorSemantics(as)
      [] c = "single-tool-call" -> SingleToolCall(as)
      [] c = "forced-tool-choice" -> ForcedToolChoice(as)
      [] c = "structured-output" -> StructuredOutput(as)]

(* The verdict a record carries on its own run: the first required         *)
(* capability, in the suite's order, that failed or is unknown decides.    *)
Decides(os, i) == Registry[i] \in RequiredCaps /\ os[Registry[i]] \in {"unsupported", "unknown"}
RunVerdict(os) ==
  LET first == {i \in DOMAIN Registry : Decides(os, i) /\ \A j \in 1..(i - 1) : ~Decides(os, j)}
  IN IF first # {}
     THEN IF \E i \in first : os[Registry[i]] = "unsupported" THEN "incompatible" ELSE "unknown"
     ELSE IF \E c \in DOMAIN os : os[c] \in {"partial", "unsupported"} THEN "partial" ELSE "verified"

=============================================================================
