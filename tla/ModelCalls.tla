------------------------------ MODULE ModelCalls ------------------------------
(***************************************************************************)
(* One structured call to a language model: the client chooses a provider  *)
(* from the settings, the adapter sends the conversation and reads the     *)
(* reply, extract_json looks for the object in it, and the schema decides. *)
(* A text is a sequence of the characters the scanner tells apart: the     *)
(* four brackets, a quote, an escape, a fence, and "x" for any other.      *)
(***************************************************************************)
EXTENDS Integers, FiniteSets, Sequences

CONSTANTS
    Providers,     \* the settings: sequences of [name, kind, enabled, key, local]
    Objects,       \* the objects a model may send, as texts
    Valid,         \* those of them that conform to the schema
    Surroundings   \* what may stand before and after the object

VARIABLE call
\* call.enabled, .providers, .default: settings.llm; .provider: its position;
\* .sent: the object in the reply; .read: what was found in it; .requests: how
\* many replies came; .repairing: the next request is a repair turn; .result; .stage

kinds == {"openai_compatible", "anthropic", "gemini"}
max_repairs == 2

-----------------------------------------------------------------------------
is_configured(settings) ==
    settings.enabled /\ \E i \in DOMAIN settings.providers : settings.providers[i].enabled

Named(settings, name) ==
    {i \in DOMAIN settings.providers : settings.providers[i].name = name}

\* The provider asked for by the settings or the first enabled one; 0: an error.
get_provider(settings) ==
    LET enabled == {i \in DOMAIN settings.providers : settings.providers[i].enabled}
        resolved == IF settings.default # "none" THEN Named(settings, settings.default)
                    ELSE {i \in enabled : \A o \in enabled : i <= o}
    IN  IF is_configured(settings) /\ resolved \cap enabled # {}
        THEN CHOOSE i \in resolved \cap enabled : TRUE
        ELSE 0

-----------------------------------------------------------------------------
\* What a response with this status means for the call. Other refusals pass as
\* if they were replies; a date in Retry-After is no number and raises.
translate_error(status, retry_after) ==
    CASE status = 429 -> IF retry_after = "date" THEN "value_error" ELSE "rate_limited"
      [] status \in {401, 403} -> "authentication_required"
      [] status >= 500 -> "transient_network"
      [] OTHER -> "none"

\* A request that fails before there is a response.
Broken == {"timeout", "connect", "transport"}
transport_error(how) == IF how \in {"timeout", "connect"} THEN "transient_network" ELSE "unexpected"

\* The parts of the reply an adapter makes its text of: the input of a tool call
\* takes the place of what came before it.
Taken(kind, text, part) ==
    IF kind = "anthropic" /\ part.type = "tool_use" THEN part.text ELSE text \o part.text
text_of(kind, parts) ==
    LET made[n \in 0..Len(parts)] ==
            IF n = 0 THEN <<>> ELSE Taken(kind, made[n - 1], parts[n])
    IN  IF kind = "openai_compatible"
        THEN IF parts = <<>> THEN <<>> ELSE parts[1].text
        ELSE made[Len(parts)]

provider_health(provider, status) ==
    LET keyless == provider.kind = "openai_compatible" /\ provider.local
    IN  IF ~provider.key /\ ~keyless THEN "degraded"
        ELSE IF status = 0 THEN "unavailable"
        ELSE IF status < 400 \/ (keyless /\ status \in {401, 403}) THEN "healthy"
        ELSE "unavailable"

-----------------------------------------------------------------------------
EscapeUnheeded(s, char, open, close) ==
    IF char = "quote" THEN [s EXCEPT !.in_string = ~@]
    ELSE IF s.in_string THEN s
    ELSE IF char = open THEN [s EXCEPT !.depth = @ + 1]
    ELSE IF char = close THEN [s EXCEPT !.depth = @ - 1]
    ELSE s

\* One character of the scan, from the first opening bracket on.
Scan(s, char, open, close) ==
    IF s.escape THEN [s EXCEPT !.escape = FALSE]
    ELSE IF char = "escape" THEN [s EXCEPT !.escape = TRUE]
    ELSE IF char = "quote" THEN [s EXCEPT !.in_string = ~@]
    ELSE IF s.in_string THEN s
    ELSE IF char = open THEN [s EXCEPT !.depth = @ + 1]
    ELSE IF char = close THEN [s EXCEPT !.depth = @ - 1]
    ELSE s

Earliest(positions) == CHOOSE i \in positions : \A o \in positions : i <= o

\* What stands between two fences, when there are two.
Unfenced(text) ==
    LET fences == {i \in DOMAIN text : text[i] = "fence"}
        first == Earliest(fences)
        second == Earliest(fences \ {first})
    IN  IF Cardinality(fences) < 2 THEN text ELSE SubSeq(text, first + 1, second - 1)

\* What is known after each character, from the bracket at start on.
Scanned(text, start, open, close) ==
    LET after[k \in 0..(Len(text) - start + 1)] ==
            IF k = 0 THEN [depth |-> 0, in_string |-> FALSE, escape |-> FALSE]
            ELSE Scan(after[k - 1], text[start + k - 1], open, close)
    IN  after

\* After how many characters every bracket that was opened is closed.
Closings(text, start, open, close) ==
    LET after == Scanned(text, start, open, close)
    IN  {k \in 1..(Len(text) - start + 1) :
            text[start + k - 1] = close /\ after[k - 1].depth = 1 /\ after[k].depth = 0}

FirstBalanced(text, open, close) ==
    LET starts == {i \in DOMAIN text : text[i] = open}
        start == Earliest(starts)
        ends == Closings(text, start, open, close)
    IN  IF starts = {} \/ ends = {} THEN <<>>
        ELSE SubSeq(text, start, start + Earliest(ends) - 1)

\* Braces are looked for before square brackets, wherever they stand.
extract_json(text) ==
    LET bare == Unfenced(text)
        object == FirstBalanced(bare, "brace", "endbrace")
        array == FirstBalanced(bare, "bracket", "endbracket")
    IN  IF object # <<>> THEN object ELSE IF array # <<>> THEN array ELSE bare

-----------------------------------------------------------------------------
Lex(s, char) ==
    CASE s.place = "escaped" -> [s EXCEPT !.place = "string"]
      [] s.place = "string" ->
            [s EXCEPT !.place = IF char = "quote" THEN "outside"
                                ELSE IF char = "escape" THEN "escaped" ELSE "string"]
      [] OTHER -> [place |-> IF char = "quote" THEN "string" ELSE "outside",
                   open |-> IF char = "brace" THEN s.open + 1
                            ELSE IF char = "endbrace" THEN s.open - 1 ELSE s.open]

\* How far the grammar of JSON takes an object, after each of its characters: outside a
\* string, in one, or behind an escape in one, and how many braces are open.
Lexed(object) ==
    LET at[n \in 0..Len(object)] ==
            IF n = 0 THEN [place |-> "outside", open |-> 0]
            ELSE Lex(at[n - 1], object[n])
    IN  at

\* One object: its first brace is closed by its last character and not before, an
\* escape stands in a string, and no fence is part of it.
WellFormed(object) ==
    LET at == Lexed(object)
        last == Len(object)
    IN  /\ object \in Seq(STRING) /\ last > 0 /\ object[1] = "brace"
        /\ \A n \in 1..last : (at[n].open <= 0) <=> (n = last)
        /\ \A n \in 1..last : object[n] = "escape" => at[n - 1].place # "outside"
        /\ \A n \in 1..last : object[n] # "fence"

Sole(text, char) ==
    \A i, j \in DOMAIN text : text[i] = char /\ text[j] = char => i = j

Provider == [name : STRING, kind : kinds, enabled : BOOLEAN, key : BOOLEAN, local : BOOLEAN]

\* Prose before the object opens no brace, and a reply has one fence on either side.
ASSUME CallAssumption ==
    /\ \A providers \in Providers : providers \in Seq(Provider)
    /\ \A object \in Objects : WellFormed(object)
    /\ Valid \subseteq Objects
    /\ \A around \in Surroundings :
          /\ around.before \in Seq(STRING) /\ around.after \in Seq(STRING)
          /\ \A i \in DOMAIN around.before : around.before[i] # "brace"
          /\ Sole(around.before, "fence") /\ Sole(around.after, "fence")

-----------------------------------------------------------------------------
CallInit ==
    \E providers \in Providers, enabled \in BOOLEAN, default \in {"none", "first", "second"} :
        call = [enabled |-> enabled, providers |-> providers, default |-> default,
                provider |-> 0, sent |-> <<>>, read |-> <<>>, requests |-> 0,
                repairing |-> FALSE, result |-> "none", stage |-> "new"]

\* LLMClient.structured: the prompt is rendered and a provider resolved.
Resolve ==
    /\ call.stage = "new"
    /\ LET p == get_provider(call) IN
       call' = [call EXCEPT !.provider = p,
                            !.stage = IF p = 0 THEN "ended" ELSE "asking",
                            !.result = IF p = 0 THEN "configuration" ELSE @]

Kind == call.providers[call.provider].kind
Fail(error) == call' = [call EXCEPT !.stage = "ended", !.result = error]

\* The adapter builds the request from the messages. The repair turn carries the
\* response itself among them, which has no role: the adapter raises on it.
SendFails == call.stage = "asking" /\ call.repairing /\ Fail("attribute_error")

\* The model replies with one object in some text, or with no part at all.
Arrives ==
    /\ call.stage = "asking" /\ ~call.repairing
    /\ \E object \in Objects, around \in Surroundings, tool \in BOOLEAN :
          LET text == around.before \o object \o around.after
              parts == IF tool /\ Kind = "anthropic"
                       THEN <<[type |-> "text", text |-> around.before],
                              [type |-> "tool_use", text |-> object]>>
                       ELSE <<[type |-> "text", text |-> text]>>
          IN  call' = [call EXCEPT !.requests = @ + 1, !.stage = "replied", !.sent = object,
                                   !.read = extract_json(text_of(Kind, parts))]

Refuses ==
    /\ call.stage = "asking" /\ ~call.repairing
    /\ \/ \E how \in Broken : Fail(transport_error(how))
       \/ \E status \in {400, 401, 403, 404, 429, 500, 529}, retry_after \in {"none", "seconds", "date"} :
             /\ retry_after # "none" => status = 429
             /\ IF translate_error(status, retry_after) # "none"
                THEN Fail(translate_error(status, retry_after))
                ELSE call' = [call EXCEPT !.requests = @ + 1, !.stage = "replied",
                                          !.sent = <<>>, !.read = <<>>]

\* request_structured: a valid object is returned, another one is sent back, at
\* most max_repairs times.
Validate ==
    /\ call.stage = "replied"
    /\ IF call.read \in Valid THEN call' = [call EXCEPT !.stage = "ended", !.result = "object"]
       ELSE IF call.requests > max_repairs THEN Fail("invalid_output")
       ELSE call' = [call EXCEPT !.stage = "asking", !.repairing = TRUE]

\* The health of every enabled provider, probed apart from any call.
Probed ==
    /\ call.stage = "new" /\ is_configured(call)
    /\ \E i \in DOMAIN call.providers, status \in {0, 200, 401, 500} :
          /\ call.providers[i].enabled
          /\ Fail(provider_health(call.providers[i], status))

CallNext == Resolve \/ SendFails \/ Arrives \/ Refuses \/ Validate \/ Probed

CallSpec == CallInit /\ [][CallNext]_call

-----------------------------------------------------------------------------
(* The object that is validated is the one the model sent, whatever prose  *)
(* or fences it is wrapped in and whatever quotes, escapes and brackets    *)
(* its strings contain, so a conforming reply costs one request and is     *)
(* returned; and a client that says it is configured and has no default    *)
(* resolves to an enabled provider (extract_json, request_structured,      *)
(* LLMClient._get_provider).                                               *)
ReplyIsReadAsSent ==
    /\ call.sent # <<>> => call.read = call.sent
    /\ call.sent \in Valid /\ call.stage = "ended" => call.result = "object" /\ call.requests = 1
    /\ is_configured(call) /\ call.default = "none" => call.result # "configuration"
=============================================================================
