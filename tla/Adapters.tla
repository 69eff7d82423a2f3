------------------------------- MODULE Adapters -------------------------------
(***************************************************************************)
(* The provider adapters (src/provider): what OpenAiAdapter and              *)
(* AnthropicAdapter say one SSE event, or a whole response body, costs.      *)
(*                                                                           *)
(* JSON is abstracted to what the adapters read of it.  A payload of OpenAI  *)
(* is [est, usage, tools]: the tokens of the content, names and arguments in *)
(* it, its total_tokens or NoTotal, and the names.  A payload of Anthropic   *)
(* is [type, tokens, tool], of which each type uses what it has.  Unreadable *)
(* is any text that gives no event: malformed JSON, or OpenAI's [DONE].      *)
(***************************************************************************)
EXTENDS Wire, EventCost

CONSTANT Unreadable

\* p is what the provider's data lines carry.
IsPayload(provider, p) ==
    \/ p = Unreadable
    \/ /\ provider = "OpenAi"
       /\ p.est \in Nat /\ p.usage \in Nat \cup {NoTotal} /\ p.tools \in Seq(Tools)
    \/ /\ provider = "Anthropic"
       /\ p.tokens \in Nat /\ (p.type = "tool_use" => p.tool \in Tools)

\* The text of a data line: two pieces of one payload, at the start of a line
\* and up to its end.  text.lines() takes a '\r' before '\n' for part of the
\* line's end, and the payload's parser ignores one at the end of the text.
IsDataLine(f, i) ==
    LET n == Len(f)
    IN  /\ i < n
        /\ f[i] \in Piece /\ f[i].part = 1
        /\ f[i + 1] = [f[i] EXCEPT !.part = 2]
        /\ i = 1 \/ f[i - 1] = LF
        /\ \/ i + 1 = n
           \/ f[i + 2] = LF
           \/ f[i + 2] = CR /\ (i + 2 = n \/ f[i + 3] = LF)

\* The adapter's input_tokens and the ChunkCost it is building.
NoCost(input) == [input |-> input, est |-> 0, total |-> NoTotal, tools |-> <<>>]

-----------------------------------------------------------------------------
(* OpenAI.                                                                   *)

OpenAiLine(acc, p) ==
    IF p = Unreadable THEN acc
    ELSE [acc EXCEPT !.est = @ + p.est,
                     !.tools = @ \o p.tools,
                     !.total = IF p.usage = NoTotal THEN @ ELSE p.usage]

\* Usage is optional: a body without it still tells its tool calls.
OpenAiBodyCost(body) ==
    IF body = Unreadable THEN [total |-> NoTotal, tools |-> <<>>]
    ELSE [total |-> IF body.usage THEN body.input + body.output ELSE NoTotal,
          tools |-> body.tools]

-----------------------------------------------------------------------------
(* Anthropic.                                                                *)

\* Mutant: message_delta's output tokens are taken for the total.
AnthropicLineOutputOnly(acc, p) ==
    IF p = Unreadable THEN acc
    ELSE CASE p.type = "message_start" -> [acc EXCEPT !.input = p.tokens, !.total = p.tokens]
           [] p.type = "tool_use" -> [acc EXCEPT !.tools = Append(@, p.tool)]
           [] p.type = "content_block_delta" -> [acc EXCEPT !.est = @ + p.tokens]
           [] p.type = "message_delta" -> [acc EXCEPT !.total = p.tokens]
           [] OTHER -> acc

\* message_start tells the input tokens, message_delta the output tokens: the
\* total is their sum, also when they come in different events.
AnthropicLine(acc, p) ==
    IF p = Unreadable THEN acc
    ELSE CASE p.type = "message_start" -> [acc EXCEPT !.input = p.tokens, !.total = p.tokens]
           [] p.type = "tool_use" -> [acc EXCEPT !.tools = Append(@, p.tool)]
           [] p.type = "content_block_delta" -> [acc EXCEPT !.est = @ + p.tokens]
           [] p.type = "message_delta" -> [acc EXCEPT !.total = acc.input + p.tokens]
           [] OTHER -> acc

\* Usage is required: a body without it does not parse, and tells nothing.
AnthropicBodyCost(body) ==
    IF body = Unreadable \/ ~body.usage THEN [total |-> NoTotal, tools |-> <<>>]
    ELSE [total |-> body.input + body.output, tools |-> body.tools]

-----------------------------------------------------------------------------
\* new_adapter: the provider chooses the adapter.
AddLine(provider, acc, p) ==
    IF provider = "OpenAi" THEN OpenAiLine(acc, p) ELSE AnthropicLine(acc, p)

\* chunk_cost: the loop over the lines of the event f.
ChunkCost(provider, input, f) ==
    LET cost[i \in 0 .. Len(f)] ==
           IF i = 0 THEN NoCost(input)
           ELSE IF IsDataLine(f, i) THEN AddLine(provider, cost[i - 1], f[i].payload)
           ELSE cost[i - 1]
    IN  cost[Len(f)]

NonStreamingCost(provider, body) ==
    IF provider = "OpenAi" THEN OpenAiBodyCost(body) ELSE AnthropicBodyCost(body)

-----------------------------------------------------------------------------
(* What a data line tells, for the statements about whole responses.         *)

\* Anthropic's first line, which tells the input tokens.
Opens(provider, p) ==
    provider = "Anthropic" /\ p # Unreadable /\ p.type = "message_start"

\* The line that tells the total of the response.
Settles(provider, p) ==
    p # Unreadable /\ IF provider = "OpenAi" THEN p.usage # NoTotal ELSE p.type = "message_delta"

\* A line that tells no tokens.
Silent(provider, p) ==
    \/ p = Unreadable
    \/ /\ ~Opens(provider, p) /\ ~Settles(provider, p)
       /\ IF provider = "OpenAi" THEN p.est = 0
          ELSE p.type = "content_block_delta" => p.tokens = 0

ToolsTold(provider, p) ==
    IF p = Unreadable THEN {}
    ELSE IF provider = "OpenAi" THEN { p.tools[i] : i \in DOMAIN p.tools }
    ELSE IF p.type = "tool_use" THEN {p.tool} ELSE {}
=============================================================================
