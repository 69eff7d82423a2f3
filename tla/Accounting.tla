------------------------------ MODULE Accounting ------------------------------
(***************************************************************************)
(* What enforce (src/enforcer.rs) charges and reports for the bytes of one   *)
(* upstream response: the frame buffer cuts them into events, the provider's *)
(* adapter says what an event costs, process_event does the accounting.      *)
(*                                                                           *)
(* The client and the tenant stay: what happens when they leave, and what    *)
(* several streams do to each other, is Enforcer's subject.  The upstream    *)
(* may send its bytes in any reads, end early, or fail.                      *)
(***************************************************************************)
EXTENDS SseFrames, Adapters

CONSTANTS Upstreams,  \* responses: [provider, wire, body]
          MaxTokens   \* what is left of the tenant's limit

ASSUME AccountingOK ==
    /\ MaxTokens \in Nat
    /\ \A u \in Upstreams : /\ u.provider \in {"OpenAi", "Anthropic"}
                            /\ u.wire \in Seq(Bytes)
                            /\ \A i \in DOMAIN u.wire : u.wire[i] \in Piece =>
                                  IsPayload(u.provider, u.wire[i].payload)

\* Where the data lines of a wire begin.
LinesIn(w) == { i \in DOMAIN w : IsDataLine(w, i) }

\* The body of an upstream is the same response as its wire: the same tools and
\* the same total, if the body tells one.  The wire may tell totals as often as
\* it likes, rising or falling; the last one is the response's, and nothing
\* behind it tells tokens.  Anthropic's total has two parts, and the last line
\* that tells each of them counts.
ASSUME SameResponse ==
    \A u \in Upstreams :
       LET whole   == NonStreamingCost(u.provider, u.body)
           lines   == LinesIn(u.wire)
           told(i) == u.wire[i].payload
       IN  whole.total # NoTotal =>
              /\ ToolsOf(whole) = UNION { ToolsTold(u.provider, told(i)) : i \in lines }
              /\ \E i \in lines :
                    /\ Settles(u.provider, told(i))
                    /\ \A k \in lines : k > i => Silent(u.provider, told(k))
                    /\ IF u.provider = "OpenAi" THEN whole.total = told(i).usage
                       ELSE \E j \in lines :
                               /\ Opens(u.provider, told(j))
                               /\ \A k \in lines : k > j => ~Opens(u.provider, told(k))
                               /\ whole.total = told(j).tokens + told(i).tokens

VARIABLES upstream,   \* the response the upstream gives
          next,       \* the place in frames of the event processed next
          input,      \* the adapter's input_tokens
          recorded,   \* recorded_so_far
          toolsSeen,  \* tools_seen
          charged,    \* what the stream has charged to the tenant
          fallen,     \* history: by how much totals have lowered recorded_so_far
          outcome     \* "open", or the outcome reported

stream == <<upstream, next, input, recorded, toolsSeen, charged, fallen, outcome>>
vars == <<frameVars, stream>>

Init == /\ FramesInit
        /\ upstream \in Upstreams
        /\ next = 1
        /\ input = 0
        /\ recorded = 0
        /\ toolsSeen = {}
        /\ charged = 0
        /\ fallen = 0
        /\ outcome = "open"

\* The events of the last read are processed, and the upstream is awaited.
Awaiting == outcome = "open" /\ phase = "idle" /\ next > Len(frames)

\* The upstream's next n bytes arrive.
Read(n) == /\ Awaiting
           /\ Push(SubSeq(upstream.wire, Len(bytes) + 1, Len(bytes) + n))
           /\ UNCHANGED stream

ReadError == /\ Awaiting
             /\ outcome' = "UpstreamError"
             /\ UNCHANGED <<frameVars, upstream, next, input, recorded, toolsSeen, charged, fallen>>

\* The upstream ends, wherever it stands.
End == Awaiting /\ Flush /\ UNCHANGED stream

Frame == (Drain \/ Return) /\ UNCHANGED stream

Cost == ChunkCost(upstream.provider, input, frames[next])

\* process_event's first half: the adapter sees the event, its tools are noted.
TakeEvent == /\ outcome = "open"
             /\ phase # "framing"
             /\ next <= Len(frames)
             /\ input' = Cost.input
             /\ toolsSeen' = toolsSeen \cup ToolsScanned(Cost)
             /\ UNCHANGED <<frameVars, upstream>>

PolicyTrip == /\ TakeEvent
              /\ ToolsOf(Cost) \cap Blocked # {}
              /\ outcome' = "PolicyBlocked"
              /\ UNCHANGED <<next, recorded, charged, fallen>>

\* Its second half: the event is charged, and forwarded if the tenant stays
\* within its limit.
Charge == /\ TakeEvent
          /\ ToolsOf(Cost) \cap Blocked = {}
          /\ recorded' = NewRecorded(Cost, recorded)
          /\ charged' = charged + Delta(Cost, recorded)
          /\ fallen' = fallen + (IF recorded' < recorded THEN recorded - recorded' ELSE 0)
          /\ \/ charged' <= MaxTokens /\ next' = next + 1 /\ UNCHANGED outcome
             \/ charged' > MaxTokens /\ outcome' = "BudgetBlocked" /\ UNCHANGED next

Complete == /\ outcome = "open"
            /\ phase = "flushed"
            /\ next > Len(frames)
            /\ outcome' = "Completed"
            /\ UNCHANGED <<frameVars, upstream, next, input, recorded, toolsSeen, charged, fallen>>

Over == outcome # "open" /\ UNCHANGED vars

Next == \/ \E n \in 1 .. Len(upstream.wire) - Len(bytes) : Read(n)
        \/ ReadError \/ End \/ Frame \/ PolicyTrip \/ Charge \/ Complete
        \/ Over

Spec == Init /\ [][Next]_vars

-----------------------------------------------------------------------------
\* The stream's locals hold what the code declares, and a flushed buffer is
\* empty: the generator reads nothing after the upstream's end.
TypeOK == /\ phase \in {"idle", "framing", "flushed"}
          /\ next \in 1 .. Len(frames) + 1
          /\ {input, recorded, charged, fallen} \subseteq Nat
          /\ toolsSeen \subseteq Tools
          /\ outcome \in {"open", "Completed", "BudgetBlocked", "PolicyBlocked", "UpstreamError"}
          /\ phase = "flushed" => buf = <<>>
          /\ outcome = "Completed" => phase = "flushed" /\ next > Len(frames)

\* The two paths of the gateway, enforce and the buffered body
\* (provider/mod.rs:27-36), agree: a response that is streamed to its end
\* reports the tokens and the tools that the same response would report as one
\* body, whichever provider sends it, however its lines end and its bytes arrive.
StreamedEqualsWhole ==
    LET whole == NonStreamingCost(upstream.provider, upstream.body)
    IN  (outcome = "Completed" /\ bytes = upstream.wire /\ whole.total # NoTotal)
           => recorded = whole.total /\ toolsSeen = ToolsOf(whole)

\* The test at enforcer.rs:381, authoritative totals reconcile and do not
\* double-count: every rise of what the stream has reported is charged once,
\* estimated or told, however often totals are repeated, and a total that
\* lowers it refunds nothing and is charged again when it is made up for.
ChargedOnce == charged = recorded + fallen

\* The design spec (2026-07-10-symfynity-circuit-breaker-design.md:96-97): each
\* adapter reconciles the running estimate against authoritative usage data
\* the instant it appears, correcting the tenant's ledger.
LedgerCorrected == charged = recorded
=============================================================================
