------------------------------- MODULE Enforcer -------------------------------
(***************************************************************************)
(* enforce (src/enforcer.rs): the generator that relays one upstream SSE     *)
(* stream to one client, charging every event to the tenant's budget and     *)
(* checking its tool calls before the event is yielded.  Several streams of  *)
(* one tenant run at once and share its budget.                              *)
(*                                                                           *)
(* The generator runs only while it is polled.  It gives up control at the   *)
(* upstream read and at every yield, and at either of them, or before the    *)
(* first poll, the server may drop it because the client went away.  Bytes   *)
(* are abstracted to the events they make up: a read completes some events   *)
(* and may leave an unterminated tail.                                       *)
(***************************************************************************)
EXTENDS EventCost

CONSTANTS Streams,    \* the streams of the tenant
          Events,     \* what chunk_cost makes of the SSE events
          MaxTokens,  \* the tenant's limit
          MaxEvents   \* bound: MaxEvents[s] events are sent on stream s

ASSUME EnforcerOK ==
    /\ MaxTokens \in Nat
    /\ MaxEvents \in [Streams -> Nat]
    /\ \A e \in Events : IsCost(e)

VARIABLES pc,         \* where the generator of a stream stands
          queue,      \* complete events of the last read, not processed yet
          tail,       \* the frame buffer holds an unterminated event
          ended,      \* upstream.next() returned None
          pending,    \* what the generator does when polled after a yield
          recorded,   \* recorded_so_far
          toolsSeen,  \* tools_seen
          events,     \* usage events pushed for the stream
          gone,       \* the client has disconnected
          used,       \* the tenant's usage in the current window
          known,      \* the tenant is in the configuration
          received,   \* history: the events upstream sent
          sent,       \* history: what was yielded to the client
          charged,    \* history: what the stream charged to the tenant
          granted     \* history: what all streams forwarded

generator == <<pc, queue, tail, ended, pending, recorded, toolsSeen, events>>
history == <<received, sent, charged, granted>>
vars == <<generator, gone, used, known, history>>

Outcomes == {"Completed", "BudgetBlocked", "PolicyBlocked", "UpstreamError", "Incomplete"}

UpTo(S, n) == UNION { [1 .. m -> S] : m \in 0 .. n }

Init == /\ pc = [s \in Streams |-> "unpolled"]
        /\ queue = [s \in Streams |-> <<>>]
        /\ tail = [s \in Streams |-> FALSE]
        /\ ended = [s \in Streams |-> FALSE]
        /\ pending = [s \in Streams |-> "next"]
        /\ recorded = [s \in Streams |-> 0]
        /\ toolsSeen = [s \in Streams |-> {}]
        /\ events = [s \in Streams |-> <<>>]
        /\ gone = [s \in Streams |-> FALSE]
        /\ used = 0
        /\ known = TRUE
        /\ received = [s \in Streams |-> <<>>]
        /\ sent = [s \in Streams |-> <<>>]
        /\ charged = [s \in Streams |-> 0]
        /\ granted = 0

-----------------------------------------------------------------------------
(* StreamTelemetry.                                                          *)

\* Mutant: emit does not remember that it has emitted.
EmitAgain(pushed, s, outcome) ==
    Append(pushed, [outcome |-> outcome, tokens |-> recorded[s], tools |-> toolsSeen[s]])

\* emit pushes one usage event and is a no-op after that.
Emit(pushed, s, outcome) ==
    IF pushed # <<>> THEN pushed
    ELSE Append(pushed, [outcome |-> outcome, tokens |-> recorded[s], tools |-> toolsSeen[s]])

\* Dropping the telemetry emits Incomplete, unless a terminal path has emitted.
DropTelemetry(pushed, s) == Emit(pushed, s, "Incomplete")


\* A terminal path emits its outcome and returns, which drops the telemetry.
Finish(s, outcome) ==
    /\ pc' = [pc EXCEPT ![s] = "done"]
    /\ events' = [events EXCEPT ![s] = DropTelemetry(Emit(@, s, outcome), s)]

-----------------------------------------------------------------------------
(* The generator.                                                            *)

\* The server polls the body for the first time: the telemetry now exists.
FirstPoll(s) == /\ pc[s] = "unpolled"
                /\ pc' = [pc EXCEPT ![s] = "reading"]
                /\ UNCHANGED <<queue, tail, ended, pending, recorded, toolsSeen, events,
                               gone, used, known, history>>

\* upstream.next() gives bytes that complete the events of es.
Read(s, es) ==
    /\ pc[s] = "reading"
    /\ Len(received[s]) + Len(es) <= MaxEvents[s]
    /\ received' = [received EXCEPT ![s] = @ \o es]
    /\ \E left \in BOOLEAN : /\ es = <<>> => (left \/ ~tail[s])
                             /\ left => Len(received'[s]) < MaxEvents[s]
                             /\ tail' = [tail EXCEPT ![s] = left]
    /\ queue' = [queue EXCEPT ![s] = es]
    /\ pc' = [pc EXCEPT ![s] = IF es = <<>> THEN "reading" ELSE "processing"]
    /\ UNCHANGED <<ended, pending, recorded, toolsSeen, events, gone, used, known,
                   sent, charged, granted>>

\* What a stream sends: forwarded events, and at most one item that cuts it off.
EventItem(e) == [kind |-> "event", event |-> e]
CutOff(why) == [kind |-> why]

\* The generator yields item and is polled again only to do what next says.
Yield(s, item, next) == /\ sent' = [sent EXCEPT ![s] = Append(@, item)]
                        /\ pending' = [pending EXCEPT ![s] = next]
                        /\ pc' = [pc EXCEPT ![s] = "yielded"]

\* upstream.next() gives an error.
ReadError(s) == /\ pc[s] = "reading"
                /\ Yield(s, CutOff("error"), "UpstreamError")
                /\ UNCHANGED <<queue, tail, ended, recorded, toolsSeen, events, gone, used,
                               known, received, charged, granted>>

\* upstream.next() gives None and the frame buffer is empty ...
EndEmpty(s) == /\ pc[s] = "reading"
               /\ ~tail[s]
               /\ ended' = [ended EXCEPT ![s] = TRUE]
               /\ Finish(s, "Completed")
               /\ UNCHANGED <<queue, tail, pending, recorded, toolsSeen, gone, used, known,
                              history>>

\* Mutant: the flushed bytes stay in the frame buffer.
EndFlushKeepingTail(s, e) == /\ pc[s] = "reading"
                             /\ tail[s]
                             /\ ended' = [ended EXCEPT ![s] = TRUE]
                             /\ queue' = [queue EXCEPT ![s] = <<e>>]
                             /\ received' = [received EXCEPT ![s] = Append(@, e)]
                             /\ pc' = [pc EXCEPT ![s] = "processing"]
                             /\ UNCHANGED <<tail, pending, recorded, toolsSeen, events, gone,
                                            used, known, sent, charged, granted>>

\* ... or it is flushed: the tail is processed as the event e.
EndFlush(s, e) == /\ pc[s] = "reading"
                  /\ tail[s]
                  /\ ended' = [ended EXCEPT ![s] = TRUE]
                  /\ tail' = [tail EXCEPT ![s] = FALSE]
                  /\ queue' = [queue EXCEPT ![s] = <<e>>]
                  /\ received' = [received EXCEPT ![s] = Append(@, e)]
                  /\ pc' = [pc EXCEPT ![s] = "processing"]
                  /\ UNCHANGED <<pending, recorded, toolsSeen, events, gone, used, known,
                                 sent, charged, granted>>

-----------------------------------------------------------------------------
(* process_event and the match on its outcome, for the head of the queue.    *)

TakeHead(s) == /\ pc[s] = "processing"
               /\ queue' = [queue EXCEPT ![s] = Tail(@)]
               /\ toolsSeen' = [toolsSeen EXCEPT ![s] = @ \cup ToolsScanned(Head(queue[s]))]
               /\ UNCHANGED <<tail, ended, events, gone, known, received>>

\* A blocked tool ends the stream before anything is charged.
PolicyTrip(s) == /\ TakeHead(s)
                 /\ ToolsOf(Head(queue[s])) \cap Blocked # {}
                 /\ Yield(s, CutOff("policy_violation"), "PolicyBlocked")
                 /\ UNCHANGED <<recorded, used, charged, granted>>

\* Mutant: the tenant's usage is compared before the event's cost is added.
WithinLimitBefore(before, delta) == before <= MaxTokens

\* record: the usage with the event's cost is at most the limit.
WithinLimit(before, delta) == before + delta <= MaxTokens

\* The event's cost is recorded with the registry, and the event forwarded
\* if the tenant stays within its limit.
Charge(s) ==
    LET e == Head(queue[s])
        delta == Delta(e, recorded[s])
    IN  /\ TakeHead(s)
        /\ ToolsOf(e) \cap Blocked = {}
        /\ known
        /\ recorded' = [recorded EXCEPT ![s] = NewRecorded(e, @)]
        /\ used' = used + delta
        /\ charged' = [charged EXCEPT ![s] = @ + delta]
        /\ \/ /\ WithinLimit(used, delta)
              /\ Yield(s, EventItem(e), "next")
              /\ granted' = granted + delta
           \/ /\ ~WithinLimit(used, delta)
              /\ Yield(s, CutOff("budget_exceeded"), "BudgetBlocked")
              /\ UNCHANGED granted

\* The tenant is no longer configured: record fails after recorded_so_far was
\* updated, and nothing is charged.
ChargeFails(s) == /\ TakeHead(s)
                  /\ ToolsOf(Head(queue[s])) \cap Blocked = {}
                  /\ ~known
                  /\ recorded' = [recorded EXCEPT ![s] = NewRecorded(Head(queue[s]), @)]
                  /\ Yield(s, CutOff("error"), "UpstreamError")
                  /\ UNCHANGED <<used, charged, granted>>

Process(s) == PolicyTrip(s) \/ Charge(s) \/ ChargeFails(s)

-----------------------------------------------------------------------------
\* Mutant: the rest of the events of a read is forgotten after a yield.
ContinueToRead(s) == /\ pc[s] = "yielded"
                     /\ pending[s] = "next"
                     /\ queue' = [queue EXCEPT ![s] = <<>>]
                     /\ \/ /\ ~ended[s]
                           /\ pc' = [pc EXCEPT ![s] = "reading"]
                           /\ UNCHANGED events
                        \/ ended[s] /\ Finish(s, "Completed")
                     /\ UNCHANGED <<tail, ended, pending, recorded, toolsSeen, gone, used,
                                    known, history>>

\* Polled after a yield, the generator takes the next event of the read, reads
\* again, or completes ...
Continue(s) == /\ pc[s] = "yielded"
               /\ pending[s] = "next"
               /\ \/ /\ queue[s] # <<>>
                     /\ pc' = [pc EXCEPT ![s] = "processing"]
                     /\ UNCHANGED events
                  \/ /\ queue[s] = <<>> /\ ~ended[s]
                     /\ pc' = [pc EXCEPT ![s] = "reading"]
                     /\ UNCHANGED events
                  \/ /\ queue[s] = <<>> /\ ended[s]
                     /\ Finish(s, "Completed")
               /\ UNCHANGED <<queue, tail, ended, pending, recorded, toolsSeen, gone, used,
                              known, history>>

\* ... or, after the item that cut the stream off, reports why and returns.
Conclude(s) == /\ pc[s] = "yielded"
               /\ pending[s] # "next"
               /\ Finish(s, pending[s])
               /\ UNCHANGED <<queue, tail, ended, pending, recorded, toolsSeen, gone, used,
                              known, history>>

\* Mutant: StreamTelemetry has no Drop.
DropSilently(s) == /\ gone[s]
                   /\ pc[s] \in {"reading", "yielded"}
                   /\ pc' = [pc EXCEPT ![s] = "done"]
                   /\ UNCHANGED <<queue, tail, ended, pending, recorded, toolsSeen, events,
                                  gone, used, known, history>>

\* The server drops the generator of a client that is gone, at an await or a
\* yield: the telemetry is dropped with it ...
Drop(s) == /\ gone[s]
           /\ pc[s] \in {"reading", "yielded"}
           /\ pc' = [pc EXCEPT ![s] = "done"]
           /\ events' = [events EXCEPT ![s] = DropTelemetry(@, s)]
           /\ UNCHANGED <<queue, tail, ended, pending, recorded, toolsSeen, gone, used, known,
                          history>>

\* ... but before the first poll there is no telemetry yet.
DropUnpolled(s) == /\ gone[s]
                   /\ pc[s] = "unpolled"
                   /\ pc' = [pc EXCEPT ![s] = "abandoned"]
                   /\ UNCHANGED <<queue, tail, ended, pending, recorded, toolsSeen, events,
                                  gone, used, known, history>>

-----------------------------------------------------------------------------
(* The environment: clients leave, and a reload removes or restores the      *)
(* tenant.                                                                   *)

Over(s) == pc[s] \in {"done", "abandoned"}

Disconnect(s) == /\ ~gone[s] /\ ~Over(s)
                 /\ gone' = [gone EXCEPT ![s] = TRUE]
                 /\ UNCHANGED <<generator, used, known, history>>

Reload == /\ \E s \in Streams : ~Over(s)
          /\ known' = ~known
          /\ UNCHANGED <<generator, gone, used, history>>

Poll(s) == FirstPoll(s) \/ Process(s) \/ Continue(s) \/ Conclude(s)

Upstream(s) == \/ \E es \in UpTo(Events, 2) : Read(s, es)
               \/ ReadError(s)
               \/ EndEmpty(s)
               \/ \E e \in Events : EndFlush(s, e)

AllDone == (\A s \in Streams : Over(s)) /\ UNCHANGED vars

Next == \/ \E s \in Streams : Poll(s) \/ Upstream(s) \/ Drop(s) \/ DropUnpolled(s) \/ Disconnect(s)
        \/ Reload
        \/ AllDone

Spec == Init /\ [][Next]_vars

\* The server polls a body whose client takes what it is given and drops one
\* whose client is gone.  Nothing makes an upstream answer: there is no
\* timeout, so reads are not fair.
FairSpec == Spec /\ \A s \in Streams : WF_vars(Poll(s)) /\ WF_vars(Drop(s))

-----------------------------------------------------------------------------
(* Properties.                                                               *)

UsageEvents == [outcome : Outcomes, tokens : Nat, tools : SUBSET Tools]

Items == [kind : {"event"}, event : Events]
            \cup [kind : {"error", "policy_violation", "budget_exceeded"}]

\* The generator's locals hold what the code declares them to hold, and an
\* ended upstream has left nothing in the frame buffer.
TypeOK == /\ pc \in [Streams -> {"unpolled", "reading", "processing", "yielded", "done",
                            "abandoned"}]
          /\ queue \in [Streams -> Seq(Events)]
          /\ tail \in [Streams -> BOOLEAN]
          /\ ended \in [Streams -> BOOLEAN]
          /\ pending \in [Streams -> {"next", "BudgetBlocked", "PolicyBlocked", "UpstreamError"}]
          /\ recorded \in [Streams -> Nat]
          /\ toolsSeen \in [Streams -> SUBSET Tools]
          /\ events \in [Streams -> Seq(UsageEvents)]
          /\ gone \in [Streams -> BOOLEAN]
          /\ used \in Nat /\ known \in BOOLEAN
          /\ received \in [Streams -> Seq(Events)]
          /\ sent \in [Streams -> Seq(Items)]
          /\ charged \in [Streams -> Nat]
          /\ granted \in Nat
          /\ \A s \in Streams : /\ pc[s] = "processing" => queue[s] # <<>>
                                /\ ended[s] => ~tail[s]

\* enforcer.rs:154-166: on completion, however the stream ends, exactly one
\* usage event is pushed, and not before it is over.
ExactlyOneEvent ==
    \A s \in Streams : Len(events[s]) = IF pc[s] = "done" THEN 1 ELSE 0

IsEvent(item) == item.kind = "event"

\* The n-th item that reaches the client is the n-th event of the upstream or
\* the cut-off, which nothing follows: no event is lost, repeated or reordered
\* across reads.  A stream reported as completed was forwarded in full.
ForwardedInOrder ==
    \A s \in Streams :
       /\ \A i \in DOMAIN sent[s] :
             IF IsEvent(sent[s][i])
             THEN i <= Len(received[s]) /\ sent[s][i].event = received[s][i]
             ELSE i = Len(sent[s])
       /\ \A i \in DOMAIN events[s] :
             events[s][i].outcome = "Completed" =>
                /\ Len(sent[s]) = Len(received[s])
                /\ \A j \in DOMAIN sent[s] : IsEvent(sent[s][j])

\* README: an over-budget chunk is never sent to the client.  What the
\* tenant's streams forward between them never exceeds its limit.
GrantedWithinLimit == granted <= MaxTokens

\* The tenant pays for everything its usage events report: however estimates
\* and authoritative totals alternate, a stream has charged at least its
\* recorded_so_far, as long as the registry knew the tenant.
ChargedCoversRecorded ==
    \A s \in Streams : charged[s] >= recorded[s] \/ pending[s] = "UpstreamError"

\* An event with a blocked tool is never forwarded, and the usage event of a
\* stream that was cut off for one names the tool.
BlockedToolsStopped ==
    \A s \in Streams :
       /\ \A i \in DOMAIN sent[s] : IsEvent(sent[s][i]) => ToolsOf(sent[s][i].event) \cap Blocked = {}
       /\ \A i \in DOMAIN events[s] :
             events[s][i].outcome = "PolicyBlocked" => events[s][i].tools \cap Blocked # {}

-----------------------------------------------------------------------------
(* The refinement: what the gateway may rely on.                             *)

Phase(s) == IF pc[s] = "done" THEN "over"
            ELSE IF pc[s] \in {"unpolled", "abandoned"} THEN pc[s]
            ELSE IF pending[s] = "next" THEN "open" ELSE pending[s]

Phases == [s \in Streams |-> Phase(s)]

Report(e) == [outcome |-> e.outcome, tokens |-> e.tokens]
Reports == [s \in Streams |-> [i \in DOMAIN events[s] |-> Report(events[s][i])]]

Contract == INSTANCE StreamContract
              WITH phase <- Phases, events <- Reports, limit <- MaxTokens

\* enforcer.rs:158-166: enforce charges and gates event by event and reports
\* once.  Every stream keeps the contract the gateway hands it over under.
KeepsContract == Contract!Spec

-----------------------------------------------------------------------------
\* A stream that started and whose upstream ended, or whose client left, is
\* eventually accounted for, whatever the other streams do.
EventuallyReported ==
    \A s \in Streams : (pc[s] \in {"reading", "processing", "yielded"} /\ (ended[s] \/ gone[s])) ~> events[s] # <<>>

=============================================================================
