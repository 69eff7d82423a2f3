----------------------------- MODULE MCAccounting -----------------------------
(***************************************************************************)
(* Responses of both providers: an answer of some blocks, its lines ended by *)
(* LF or CRLF, its events named or not.  The text they would give as one     *)
(* body goes with them.                                                      *)
(***************************************************************************)
EXTENDS Accounting, SequencesExt

CONSTANTS search, shell

\* A block of an answer: text, or a tool call and its arguments.
TextBlock(est) == [est |-> est, tools |-> <<>>]
ToolBlock(est, tool) == [est |-> est, tools |-> <<tool>>]

MCAnswers == { <<>>,
               <<TextBlock(2)>>,
               <<TextBlock(1), TextBlock(2)>>,
               <<ToolBlock(1, search), TextBlock(1)>>,
               <<TextBlock(1), ToolBlock(2, shell)>> }

ToolsIn(answer) == FoldLeft(LAMBDA ts, b : ts \o b.tools, <<>>, answer)

-----------------------------------------------------------------------------
OpenAiChunk(est, usage, tools) == [est |-> est, usage |-> usage, tools |-> tools]

\* One chunk for each block; with usage, a last chunk that tells the total.  A
\* running response tells a total in every chunk.
OpenAiPayloads(answer, usage, running, total) ==
    [i \in DOMAIN answer |->
        OpenAiChunk(answer[i].est, IF running THEN 1 + i ELSE NoTotal, answer[i].tools)]
       \o (IF usage THEN <<OpenAiChunk(0, total, <<>>)>> ELSE <<>>)
       \o <<Unreadable>>

AnthropicEvent(type, tokens) == [type |-> type, tokens |-> tokens, tool |-> NoTotal]

AnthropicBlock(b) ==
    (IF b.tools = <<>> THEN <<>>
     ELSE <<[type |-> "tool_use", tokens |-> 0, tool |-> b.tools[1]]>>)
       \o <<AnthropicEvent("content_block_delta", b.est)>>

\* Output tokens are told once, at the end, or after every block.
AnthropicPayloads(answer, running, in, out) ==
    <<AnthropicEvent("message_start", in)>>
       \o FoldLeft(LAMBDA ps, i : ps \o AnthropicBlock(answer[i])
                                   \o (IF running THEN <<AnthropicEvent("message_delta", i)>>
                                       ELSE <<>>),
                   <<>>, [i \in DOMAIN answer |-> i])
       \o <<AnthropicEvent("message_delta", out), AnthropicEvent("message_stop", 0)>>

MCAnthropicTypes == {"message_start", "content_block_delta", "message_delta", "message_stop"}

MCPayloads ==
    {Unreadable}
       \cup [est : 0 .. 2, usage : {NoTotal} \cup 2 .. 5, tools : {<<>>, <<search>>, <<shell>>}]
       \cup [type : MCAnthropicTypes, tokens : 0 .. 4, tool : {NoTotal}]
       \cup [type : {"tool_use"}, tokens : {0}, tool : {search, shell}]

-----------------------------------------------------------------------------
\* The event of payload p: a name line if it has one, its data line, and the
\* blank line that ends it.
EventText(p, eol, named) ==
    (IF named THEN <<Other>> \o eol ELSE <<>>)
       \o <<[payload |-> p, part |-> 1], [payload |-> p, part |-> 2]>> \o eol \o eol

WireOf(payloads, eol, named) ==
    FoldLeft(LAMBDA w, p : w \o EventText(p, eol, named), <<>>, payloads)

MCEols == { <<LF>>, <<CR, LF>> }

Body(answer, usage, in, out) ==
    [usage |-> usage, input |-> in, output |-> out, tools |-> ToolsIn(answer)]

\* The authoritative totals lie below or above what the blocks are estimated
\* at; running totals repeat, rise, and fall before they rise again.
MCOpenAi == { [provider |-> "OpenAi", body |-> Body(a, usage, 1, out),
               wire |-> WireOf(OpenAiPayloads(a, usage, running, 1 + out), eol, FALSE)] :
              a \in MCAnswers, usage \in BOOLEAN, running \in BOOLEAN,
              out \in {1, 3, 4}, eol \in MCEols }

MCAnthropic == { [provider |-> "Anthropic", body |-> Body(a, TRUE, 1, out),
                  wire |-> WireOf(AnthropicPayloads(a, running, 1, out), eol, TRUE)] :
                 a \in MCAnswers, running \in BOOLEAN, out \in {1, 3, 4}, eol \in MCEols }

\* No provider's text: blank lines and text in any order.
MCBlankLines == { [provider |-> "OpenAi", body |-> Unreadable, wire |-> w] :
                  w \in [1 .. 8 -> {LF, Other}] }

MCUpstreams == MCOpenAi \cup MCAnthropic \cup MCBlankLines
=============================================================================
