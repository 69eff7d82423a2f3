---------------------------- MODULE Gateway_proofs ----------------------------
(***************************************************************************)
(* Proofs about the gateway, for any number of requests, any configurations  *)
(* and reloads between any two steps: which requests leave a usage event,    *)
(* that no request for a model that was blocked all along is sent, that      *)
(* nothing is forwarded beyond every limit there has been, and that what the *)
(* requests report as spent between them was charged to the tenant.          *)
(***************************************************************************)
EXTENDS Gateway, InductionTheorems, TLAPS

Events == [outcome : Outcomes, tokens : Nat]

\* Where the handler stands and what it has told: before it answers it has
\* told nothing, a stream tells once it is over, and every other answer but
\* one leaves the event that says the same.
Tracked(r) ==
    /\ pc[r] \in {"new", "admitted", "parsing", "sending", "buffering"} =>
          answer[r] = NoAnswer /\ events[r] = <<>>
    /\ pc[r] = "dropped" => events[r] = <<>>
    /\ pc[r] = "streaming" =>
          /\ answer[r] = "ok"
          /\ phase[r] # "over" => events[r] = <<>>
          /\ phase[r] = "over" => Len(events[r]) = 1
    /\ pc[r] = "answered" =>
          \/ answer[r] = "UnknownTenant" /\ events[r] = <<>>
          \/ /\ answer[r] # "UnknownTenant"
             /\ Len(events[r]) = 1
             /\ Status(answer[r]) = StatusFor(events[r][1].outcome)

\* The policy a request is judged by was in force since it arrived, and
\* behind the check it does not block the request's model.
Judged(r) ==
    pc[r] \in {"parsing", "sending", "buffering", "streaming"} =>
       /\ policy[r] # NoTenant
       /\ \E i \in arrived[r] .. Len(configs) : configs[i] = policy[r]
       /\ pc[r] # "parsing" => model[r] \notin policy[r].models

\* What was forwarded is part of what was charged.
GrantsCharged == granted <= used

\* No request reports more as spent than it was charged ...
Covered(r) == Spent(r) <= charged[r]

\* ... and the usage is what the requests were charged.
UsedIsCharged == used = SumFunctionOnSet(charged, Requests)

Inv == /\ TypeOK
       /\ \A r \in Requests : Tracked(r) /\ Judged(r) /\ Covered(r)
       /\ UsedIsCharged
       /\ GrantsCharged
       /\ GrantedWithinLimits

-----------------------------------------------------------------------------
(* What the parts of a step leave behind.                                    *)

\* The configuration in force is one there is.
LEMMA ConfigTyped ==
  ASSUME TypeOK
  PROVE  /\ Len(configs) \in Nat \ {0}
         /\ config \in Configs \cup {NoTenant}
         /\ Known => config \in Configs /\ config.max \in Nat
<1>1. configs \in Seq(Configs \cup {NoTenant}) /\ configs # <<>>
  BY DEF TypeOK
<1>2. Len(configs) \in Nat \ {0}
  BY <1>1
<1>3. config \in Configs \cup {NoTenant}
  BY <1>1, <1>2 DEF config
<1> QED
  BY <1>2, <1>3, GatewayOK DEF Known

\* A request that had no usage event has the one that is pushed.
LEMMA PushOne ==
  ASSUME TypeOK, NEW r \in Requests, NEW outcome \in Outcomes, NEW n \in Nat,
         events' = [events EXCEPT ![r] = Append(@, UsageEvent(outcome, n))]
  PROVE  /\ events' \in [Requests -> Seq(Events)]
         /\ events[r] = <<>> => Len(events'[r]) = 1 /\ events'[r][1].outcome = outcome
         /\ \A q \in Requests \ {r} : events'[q] = events[q]
<1> DEFINE e == UsageEvent(outcome, n)
<1>1. e \in Events /\ e.outcome = outcome
  BY DEF UsageEvent, Events
<1>2. events \in [Requests -> Seq(Events)]
  BY DEF TypeOK, Events
<1>3. events'[r] = Append(events[r], e)
  BY <1>2
<1> HIDE DEF e
<1>4. events' \in [Requests -> Seq(Events)]
  <2>1. Append(events[r], e) \in Seq(Events)
    BY <1>1, <1>2
  <2>2. events' = [events EXCEPT ![r] = Append(events[r], e)]
    BY DEF e
  <2> DEFINE app == Append(events[r], e)
  <2>3. app \in Seq(Events) /\ events' = [events EXCEPT ![r] = app]
    BY <2>1, <2>2
  <2> HIDE DEF app
  <2> QED
    BY <1>2, <2>3
<1>5. events[r] = <<>> => events'[r] = <<e>>
  BY <1>3
<1>6. events[r] = <<>> => Len(events'[r]) = 1 /\ events'[r][1].outcome = outcome
  BY <1>1, <1>5
<1>7. \A q \in Requests \ {r} : events'[q] = events[q]
  BY <1>2
<1> QED
  BY <1>4, <1>6, <1>7

\* An answer ends a request, and no other.
LEMMA Answered ==
  ASSUME TypeOK, NEW r \in Requests,
         NEW a \in {"ok", "UnknownTenant", "PolicyViolation", "BudgetExceeded", "Upstream"},
         Answer(r, a)
  PROVE  /\ pc'[r] = "answered" /\ answer'[r] = a
         /\ \A q \in Requests \ {r} : pc'[q] = pc[q] /\ answer'[q] = answer[q]
  BY DEF TypeOK, Answer, Goto

-----------------------------------------------------------------------------
(* Types.                                                                    *)

LEMMA InitTypes == Init => TypeOK
<1> SUFFICES ASSUME Init PROVE TypeOK
  OBVIOUS
<1>1. configs \in Seq(Configs \cup {NoTenant}) /\ configs # <<>> /\ Len(configs) = 1
  BY DEF Init
<1>2. arrived \in [Requests -> 1 .. Len(configs)]
  BY <1>1 DEF Init
<1> QED
  BY <1>1, <1>2 DEF Init, TypeOK, Stream!Init, NoAnswer

\* The steps of a handler up to its response.
LEMMA HandlerTypes ==
  ASSUME TypeOK, NEW r \in Requests,
         \/ \E m \in Models \cup {NoModel} : Admit(r, m)
         \/ ReadPolicy(r) \/ CheckModel(r)
         \/ UpstreamFails(r) \/ UpstreamStreams(r) \/ UpstreamWhole(r) \/ BodyFails(r)
  PROVE  TypeOK'
<1>1. ASSUME NEW m \in Models \cup {NoModel}, Admit(r, m) PROVE TypeOK'
  <2>1. events' \in [Requests -> Seq(Events)]
    <3>1. CASE Push(r, "BudgetBlocked", 0)
      BY <3>1, PushOne DEF Push, Outcomes, Stream!CutOffs
    <3>2. CASE events' = events
      BY <3>2 DEF TypeOK, Events
    <3> QED
      BY <1>1, <3>1, <3>2 DEF Admit
  <2>2. arrived' \in [Requests -> 1 .. Len(configs)] /\ UNCHANGED configs
    BY <1>1, ConfigTyped DEF Admit, TypeOK
  <2>3. /\ pc' \in [Requests -> {"new", "admitted", "parsing", "sending", "buffering",
                                "streaming", "answered", "dropped"}]
        /\ answer' \in [Requests -> {NoAnswer, "ok", "UnknownTenant", "PolicyViolation",
                                    "BudgetExceeded", "Upstream"}]
        /\ \A q \in Requests : pc'[q] = "streaming" <=> pc[q] = "streaming"
    <3>1. pc[r] = "new"
      BY <1>1 DEF Admit
    <3>2. CASE Answer(r, "UnknownTenant") \/ Answer(r, "BudgetExceeded")
      BY <3>1, <3>2 DEF TypeOK, Answer, Goto
    <3>3. CASE Goto(r, "admitted") /\ UNCHANGED answer
      BY <3>1, <3>3 DEF TypeOK, Goto
    <3> QED
      BY <1>1, <3>2, <3>3 DEF Admit
  <2>4. model' \in [Requests -> Models \cup {NoModel}]
    BY <1>1 DEF Admit, TypeOK
  <2> QED
    BY <1>1, <2>1, <2>2, <2>3, <2>4 DEF Admit, TypeOK, Events
<1>2. CASE ReadPolicy(r)
  <2>1. policy' \in [Requests -> Configs \cup {NoTenant}]
    BY <1>2, ConfigTyped DEF ReadPolicy, TypeOK
  <2>2. CASE Goto(r, "parsing") /\ UNCHANGED answer
    BY <1>2, <2>1, <2>2 DEF ReadPolicy, TypeOK, Goto, accounts
  <2>3. CASE Answer(r, "UnknownTenant")
    BY <1>2, <2>1, <2>3 DEF ReadPolicy, TypeOK, Answer, Goto, accounts
  <2> QED
    BY <1>2, <2>2, <2>3 DEF ReadPolicy
<1>3. CASE CheckModel(r)
  <2>1. events' \in [Requests -> Seq(Events)]
    <3>1. CASE Push(r, "PolicyBlocked", 0)
      BY <3>1, PushOne DEF Push, Outcomes, Stream!CutOffs
    <3> QED
      BY <1>3, <3>1 DEF CheckModel, TypeOK, Events
  <2> QED
    BY <1>3, <2>1 DEF CheckModel, TypeOK, Answer, Goto, Events
<1>4. CASE UpstreamFails(r) \/ BodyFails(r)
  <2>1. events' \in [Requests -> Seq(Events)]
    BY <1>4, PushOne DEF UpstreamFails, BodyFails, Push, Outcomes, Stream!CutOffs
  <2> QED
    BY <1>4, <2>1 DEF UpstreamFails, BodyFails, TypeOK, Answer, Goto, Events
<1>5. CASE UpstreamStreams(r) \/ UpstreamWhole(r)
  BY <1>5 DEF UpstreamStreams, UpstreamWhole, TypeOK, Goto, accounts
<1> QED
  BY <1>1, <1>2, <1>3, <1>4, <1>5

\* A whole response.
LEMMA BodyTypes ==
  ASSUME TypeOK, NEW r \in Requests, NEW tools \in SUBSET Tools, BodyArrives(r, tools)
  PROVE  TypeOK'
<1>1. CASE ForwardUncounted(r, tools)
  <2>1. events' \in [Requests -> Seq(Events)]
    BY <1>1, PushOne DEF ForwardUncounted, Push, Outcomes
  <2> QED
    BY <1>1, <2>1 DEF ForwardUncounted, TypeOK, Answer, Goto, Events
<1>2. ASSUME NEW n \in Costs, Settle(r, n, tools) PROVE TypeOK'
  <2>1. n \in Nat
    BY GatewayOK
  <2>2. events' \in [Requests -> Seq(Events)]
    <3>1. CASE Push(r, "Completed", n)
      BY <2>1, <3>1, PushOne DEF Push, Outcomes
    <3>2. CASE Push(r, "BudgetBlocked", n)
      BY <2>1, <3>2, PushOne DEF Push, Outcomes, Stream!CutOffs
    <3> QED
      BY <1>2, <3>1, <3>2 DEF Settle
  <2>3. charged' \in [Requests -> Nat] /\ used' \in Nat /\ granted' \in Nat
    BY <1>2, <2>1 DEF Settle, TypeOK
  <2> QED
    BY <1>2, <2>2, <2>3 DEF Settle, TypeOK, Answer, Goto, Events
<1>3. CASE SettleUnknown(r, tools)
  BY <1>3 DEF SettleUnknown, TypeOK, Answer, Goto, accounts
<1>4. ASSUME NEW n \in Costs \cup {NoUsage}, WithholdTools(r, n, tools) PROVE TypeOK'
  <2>1. events' \in [Requests -> Seq(Events)]
    <3>1. PICK k \in Nat : Push(r, "PolicyBlocked", k)
      BY <1>4, GatewayOK DEF WithholdTools
    <3> QED
      BY <3>1, PushOne DEF Push, Outcomes, Stream!CutOffs
  <2> QED
    BY <1>4, <2>1 DEF WithholdTools, TypeOK, Answer, Goto, Events
<1> QED
  BY <1>1, <1>2, <1>3, <1>4 DEF BodyArrives

\* A report is one usage event of a known outcome.
LEMMA ReportPushes ==
  ASSUME TypeOK, NEW r \in Requests,
         NEW outcome \in Outcomes, NEW n \in Nat, Stream!Report(r, outcome, n)
  PROVE  events' = [events EXCEPT ![r] = Append(@, UsageEvent(outcome, n))]
  BY DEF Stream!Report, UsageEvent

\* What a report of a stream can be.
LEMMA StreamCases ==
  ASSUME NEW r \in Requests, StreamStep(r), TypeOK
  PROVE  \/ Stream!Open(r)
         \/ \E d \in Nat : Stream!Charge(r, d)
         \/ \E why \in Stream!CutOffs : Stream!CutOff(r, why)
         \/ \E outcome \in Outcomes, n \in Nat : Stream!Report(r, outcome, n)
         \/ Stream!Abandon(r)
<1>1. charged[r] \in Nat
  BY DEF TypeOK
<1>2. 0 .. charged[r] + 1 \subseteq Nat
  BY <1>1
<1> QED
  BY <1>2, GatewayOK DEF StreamStep, Outcomes

\* A streamed response.
LEMMA StreamTypes ==
  ASSUME TypeOK, NEW r \in Requests, StreamStep(r)
  PROVE  TypeOK'
<1> USE DEF StreamStep, handler
<1>1. CASE Stream!Open(r)
  BY <1>1 DEF Stream!Open, Stream!Enter, TypeOK
<1>2. ASSUME NEW d \in Nat, Stream!Charge(r, d) PROVE TypeOK'
  <2>1. charged' \in [Requests -> Nat] /\ used' \in Nat /\ granted' \in Nat
    BY <1>2 DEF Stream!Charge, TypeOK
  <2>2. phase' \in [Requests -> Stream!CutOffs \cup {"unpolled", "open", "over", "abandoned"}]
    BY <1>2 DEF Stream!Charge, Stream!Enter, Stream!CutOffs, TypeOK
  <2>3. \A q \in Requests : q # r => phase'[q] = phase[q]
    BY <1>2 DEF Stream!Charge, Stream!Enter, TypeOK
  <2> QED
    BY <1>2, <2>1, <2>2, <2>3 DEF Stream!Charge, TypeOK
<1>3. ASSUME NEW why \in Stream!CutOffs, Stream!CutOff(r, why) PROVE TypeOK'
  BY <1>3 DEF Stream!CutOff, Stream!Enter, Stream!CutOffs, TypeOK
<1>4. ASSUME NEW outcome \in Outcomes, NEW n \in Nat, Stream!Report(r, outcome, n)
      PROVE  TypeOK'
  <2>1. events' \in [Requests -> Seq(Events)]
    BY <1>4, ReportPushes, PushOne
  <2> QED
    BY <1>4, <2>1 DEF Stream!Report, Stream!Enter, TypeOK, Events
<1>5. CASE Stream!Abandon(r)
  BY <1>5 DEF Stream!Abandon, Stream!Enter, TypeOK
<1> QED
  BY <1>1, <1>2, <1>3, <1>4, <1>5, StreamCases

\* Every step.
LEMMA NextTypes == TypeOK /\ [Next]_vars => TypeOK'
<1> SUFFICES ASSUME TypeOK, [Next]_vars PROVE TypeOK'
  OBVIOUS
<1>1. ASSUME NEW r \in Requests, Handle(r) PROVE TypeOK'
  BY <1>1, HandlerTypes, BodyTypes, StreamTypes DEF Handle
<1>2. ASSUME NEW r \in Requests, Disconnect(r) PROVE TypeOK'
  BY <1>2 DEF Disconnect, TypeOK, handler, accounts
<1>3. ASSUME NEW r \in Requests, Drop(r) PROVE TypeOK'
  BY <1>3 DEF Drop, Goto, TypeOK, accounts
<1>4. ASSUME NEW c \in Configs \cup {NoTenant}, Reload(c) PROVE TypeOK'
  <2>1. /\ configs' \in Seq(Configs \cup {NoTenant}) /\ configs' # <<>>
        /\ Len(configs') = Len(configs) + 1
    BY <1>4 DEF Reload, TypeOK
  <2>2. arrived' \in [Requests -> 1 .. Len(configs')]
    BY <1>4, <2>1, ConfigTyped DEF Reload, handler, TypeOK
  <2> QED
    BY <1>4, <2>1, <2>2 DEF Reload, TypeOK, handler, accounts
<1>5. CASE UNCHANGED vars
  BY <1>5 DEF TypeOK, vars, handler, accounts
<1> QED
  BY <1>1, <1>2, <1>3, <1>4, <1>5 DEF Next, AllDone

-----------------------------------------------------------------------------
(* A request's own state.                                                    *)

\* A handler's step, the drop of a handler and a disconnect leave every other
\* request as it is.
LEMMA OthersUntouched ==
  ASSUME TypeOK, NEW r \in Requests, Handle(r) \/ Drop(r) \/ Disconnect(r),
         NEW q \in Requests \ {r}
  PROVE  /\ pc'[q] = pc[q] /\ model'[q] = model[q] /\ policy'[q] = policy[q]
         /\ answer'[q] = answer[q] /\ arrived'[q] = arrived[q]
         /\ phase'[q] = phase[q] /\ events'[q] = events[q]
         /\ UNCHANGED configs
<1>1. CASE \/ \E m \in Models \cup {NoModel} : Admit(r, m)
           \/ ReadPolicy(r) \/ CheckModel(r)
  BY <1>1 DEF Admit, ReadPolicy, CheckModel, TypeOK, Answer, Goto, Push, accounts
<1>2. CASE UpstreamFails(r) \/ UpstreamStreams(r) \/ UpstreamWhole(r) \/ BodyFails(r)
  BY <1>2 DEF UpstreamFails, UpstreamStreams, UpstreamWhole, BodyFails, TypeOK, Answer, Goto,
              Push, accounts
<1>3. ASSUME NEW tools \in SUBSET Tools, BodyArrives(r, tools)
      PROVE  /\ pc'[q] = pc[q] /\ model'[q] = model[q] /\ policy'[q] = policy[q]
             /\ answer'[q] = answer[q] /\ arrived'[q] = arrived[q]
             /\ phase'[q] = phase[q] /\ events'[q] = events[q]
             /\ UNCHANGED configs
  BY <1>3 DEF BodyArrives, ForwardUncounted, Settle, SettleUnknown, WithholdTools, TypeOK,
              Answer, Goto, Push, accounts
<1>4. CASE StreamStep(r)
  BY <1>4, StreamCases DEF StreamStep, handler, TypeOK, Stream!Open, Stream!Charge,
     Stream!CutOff, Stream!Report, Stream!Abandon, Stream!Enter
<1>5. CASE Drop(r) \/ Disconnect(r)
  BY <1>5 DEF Drop, Disconnect, TypeOK, Goto, handler, accounts
<1> QED
  BY <1>1, <1>2, <1>3, <1>4, <1>5 DEF Handle

-----------------------------------------------------------------------------
(* Usage events.                                                             *)

\* A request that had none pushes its event and answers with its status.
LEMMA AnswerWithEvent ==
  ASSUME TypeOK, NEW r \in Requests, NEW outcome \in Outcomes, NEW n \in Nat,
         NEW a \in {"ok", "PolicyViolation", "BudgetExceeded", "Upstream"},
         events[r] = <<>>, Push(r, outcome, n), Answer(r, a),
         Status(a) = StatusFor(outcome)
  PROVE  Tracked(r)'
<1>1. Len(events'[r]) = 1 /\ events'[r][1].outcome = outcome
  BY PushOne DEF Push
<1>2. pc'[r] = "answered" /\ answer'[r] = a
  BY Answered
<1> QED
  BY <1>1, <1>2 DEF Tracked

\* A request that has none is refused for its unknown tenant.
LEMMA AnswerUnknown ==
  ASSUME TypeOK, NEW r \in Requests,
         events[r] = <<>>, UNCHANGED events, Answer(r, "UnknownTenant")
  PROVE  Tracked(r)'
  BY Answered DEF Tracked

\* The pairs of outcome and answer that the handler uses.
LEMMA StatusesAgree ==
  /\ Status("BudgetExceeded") = StatusFor("BudgetBlocked")
  /\ Status("PolicyViolation") = StatusFor("PolicyBlocked")
  /\ Status("Upstream") = StatusFor("UpstreamError")
  /\ Status("ok") = StatusFor("Completed")
  BY DEF Status, StatusFor

LEMMA OutcomesKnown ==
  {"BudgetBlocked", "PolicyBlocked", "UpstreamError", "Completed", "Incomplete"} \subseteq Outcomes
  BY DEF Outcomes, Stream!CutOffs

\* A handler's own step keeps track of its request.
LEMMA HandlerTracked ==
  ASSUME TypeOK, NEW r \in Requests, Tracked(r), Handle(r)
  PROVE  Tracked(r)'
<1> USE StatusesAgree, OutcomesKnown
<1>1. ASSUME NEW m \in Models \cup {NoModel}, Admit(r, m) PROVE Tracked(r)'
  <2>1. pc[r] = "new" /\ events[r] = <<>> /\ answer[r] = NoAnswer
    BY <1>1 DEF Admit, Tracked
  <2>2. CASE Answer(r, "UnknownTenant") /\ UNCHANGED events
    BY <2>1, <2>2, AnswerUnknown
  <2>3. CASE Goto(r, "admitted") /\ UNCHANGED <<answer, events>>
    <3>1. pc'[r] = "admitted"
      BY <2>3 DEF Goto, TypeOK
    <3> QED
      BY <2>1, <2>3, <3>1 DEF Tracked
  <2>4. CASE Push(r, "BudgetBlocked", 0) /\ Answer(r, "BudgetExceeded")
    BY <2>1, <2>4, AnswerWithEvent
  <2> QED
    BY <1>1, <2>2, <2>3, <2>4 DEF Admit
<1>2. CASE ReadPolicy(r)
  <2>1. pc[r] = "admitted" /\ events[r] = <<>> /\ answer[r] = NoAnswer /\ UNCHANGED events
    BY <1>2 DEF ReadPolicy, Tracked, accounts
  <2>2. CASE Goto(r, "parsing") /\ UNCHANGED answer
    <3>1. pc'[r] = "parsing"
      BY <2>2 DEF Goto, TypeOK
    <3> QED
      BY <2>1, <2>2, <3>1 DEF Tracked
  <2>3. CASE Answer(r, "UnknownTenant")
    BY <2>1, <2>3, AnswerUnknown
  <2> QED
    BY <1>2, <2>2, <2>3 DEF ReadPolicy
<1>3. CASE CheckModel(r)
  <2>1. pc[r] = "parsing" /\ events[r] = <<>> /\ answer[r] = NoAnswer
    BY <1>3 DEF CheckModel, Tracked
  <2>2. CASE Push(r, "PolicyBlocked", 0) /\ Answer(r, "PolicyViolation")
    BY <2>1, <2>2, AnswerWithEvent
  <2>3. CASE Goto(r, "sending") /\ UNCHANGED <<answer, events>>
    <3>1. pc'[r] = "sending"
      BY <2>3 DEF Goto, TypeOK
    <3> QED
      BY <2>1, <2>3, <3>1 DEF Tracked
  <2> QED
    BY <1>3, <2>2, <2>3 DEF CheckModel
<1>4. CASE UpstreamFails(r) \/ BodyFails(r)
  <2>1. events[r] = <<>>
    BY <1>4 DEF UpstreamFails, BodyFails, Tracked
  <2> QED
    BY <1>4, <2>1, AnswerWithEvent DEF UpstreamFails, BodyFails
<1>5. CASE UpstreamStreams(r)
  <2>1. events[r] = <<>> /\ UNCHANGED <<events, phase>> /\ phase[r] = "unpolled"
    BY <1>5 DEF UpstreamStreams, Tracked, accounts, TypeOK
  <2>2. pc'[r] = "streaming" /\ answer'[r] = "ok"
    BY <1>5 DEF UpstreamStreams, Goto, TypeOK
  <2> QED
    BY <2>1, <2>2 DEF Tracked
<1>6. CASE UpstreamWhole(r)
  <2>1. events[r] = <<>> /\ answer[r] = NoAnswer /\ UNCHANGED <<events, answer>>
    BY <1>6 DEF UpstreamWhole, Tracked, accounts
  <2>2. pc'[r] = "buffering"
    BY <1>6 DEF UpstreamWhole, Goto, TypeOK
  <2> QED
    BY <2>1, <2>2 DEF Tracked
<1>7. ASSUME NEW tools \in SUBSET Tools, BodyArrives(r, tools) PROVE Tracked(r)'
  <2>1. events[r] = <<>>
    BY <1>7 DEF BodyArrives, ForwardUncounted, Settle, SettleUnknown, WithholdTools, Tracked
  <2>2. CASE ForwardUncounted(r, tools)
    BY <2>1, <2>2, AnswerWithEvent DEF ForwardUncounted
  <2>3. ASSUME NEW n \in Costs, Settle(r, n, tools) PROVE Tracked(r)'
    <3>1. n \in Nat
      BY GatewayOK
    <3> QED
      BY <2>1, <2>3, <3>1, AnswerWithEvent DEF Settle
  <2>4. CASE SettleUnknown(r, tools)
    BY <2>1, <2>4, AnswerUnknown DEF SettleUnknown, accounts
  <2>5. ASSUME NEW n \in Costs \cup {NoUsage}, WithholdTools(r, n, tools) PROVE Tracked(r)'
    <3>1. PICK k \in Nat : Push(r, "PolicyBlocked", k)
      BY <2>5, GatewayOK DEF WithholdTools
    <3>2. Answer(r, "PolicyViolation")
      BY <2>5 DEF WithholdTools
    <3> QED
      BY <2>1, <3>1, <3>2, AnswerWithEvent
  <2> QED
    BY <1>7, <2>2, <2>3, <2>4, <2>5 DEF BodyArrives
<1>8. CASE StreamStep(r)
  <2>1. pc[r] = "streaming" /\ answer[r] = "ok" /\ UNCHANGED <<pc, answer>>
    BY <1>8 DEF StreamStep, handler, Tracked
  <2>2. CASE /\ UNCHANGED events
             /\ phase[r] # "over" /\ phase'[r] # "over"
    BY <2>1, <2>2 DEF Tracked
  <2>3. CASE Stream!Open(r) \/ Stream!Abandon(r)
    BY <2>2, <2>3 DEF Stream!Open, Stream!Abandon, Stream!Enter, TypeOK
  <2>4. ASSUME NEW d \in Nat, Stream!Charge(r, d) PROVE Tracked(r)'
    BY <2>2, <2>4 DEF Stream!Charge, Stream!Enter, TypeOK
  <2>5. ASSUME NEW why \in Stream!CutOffs, Stream!CutOff(r, why) PROVE Tracked(r)'
    BY <2>2, <2>5 DEF Stream!CutOff, Stream!Enter, TypeOK
  <2>6. ASSUME NEW outcome \in Outcomes, NEW n \in Nat, Stream!Report(r, outcome, n)
        PROVE  Tracked(r)'
    <3>1. events[r] = <<>>
      BY <2>1, <2>6 DEF Stream!Report, Stream!CutOffs, Tracked
    <3>2. Len(events'[r]) = 1
      BY <2>6, <3>1, ReportPushes, PushOne
    <3>3. phase'[r] = "over"
      BY <2>6 DEF Stream!Report, Stream!Enter, TypeOK
    <3> QED
      BY <2>1, <3>2, <3>3 DEF Tracked
  <2> QED
    BY <1>8, <2>3, <2>4, <2>5, <2>6, StreamCases
<1> QED
  BY <1>1, <1>2, <1>3, <1>4, <1>5, <1>6, <1>7, <1>8 DEF Handle

-----------------------------------------------------------------------------
(* Policy.                                                                   *)

\* Behind the check a step leaves the model and the policy alone.
LEMMA PolicyKept ==
  ASSUME TypeOK, NEW r \in Requests, Handle(r) \/ Drop(r) \/ Disconnect(r),
         pc[r] \notin {"new", "admitted"}
  PROVE  UNCHANGED <<model, policy, arrived, configs>>
  BY DEF Handle, Admit, ReadPolicy, CheckModel, UpstreamFails, UpstreamStreams, UpstreamWhole,
         BodyFails, BodyArrives, ForwardUncounted, Settle, SettleUnknown, WithholdTools,
         StreamStep, Drop, Disconnect, handler

\* Where a step can lead to.
LEMMA Places ==
  ASSUME TypeOK, NEW r \in Requests, Handle(r) \/ Drop(r) \/ Disconnect(r)
  PROVE  /\ pc[r] = "new" => pc'[r] \in {"new", "admitted", "answered"}
         /\ pc[r] = "admitted" => pc'[r] \in {"admitted", "answered"} \/ ReadPolicy(r)
         /\ pc[r] = "parsing" => pc'[r] \in {"parsing", "answered", "dropped"} \/ CheckModel(r)
         /\ pc[r] \in {"answered", "dropped"} => pc'[r] = pc[r]
<1>1. ASSUME NEW m \in Models \cup {NoModel}, Admit(r, m)
      PROVE  pc[r] = "new" /\ pc'[r] \in {"admitted", "answered"}
  BY <1>1 DEF Admit, Answer, Goto, TypeOK
<1>2. CASE UpstreamFails(r) \/ UpstreamStreams(r) \/ UpstreamWhole(r) \/ BodyFails(r)
  BY <1>2 DEF UpstreamFails, UpstreamStreams, UpstreamWhole, BodyFails
<1>3. ASSUME NEW tools \in SUBSET Tools, BodyArrives(r, tools) PROVE pc[r] = "buffering"
  BY <1>3 DEF BodyArrives, ForwardUncounted, Settle, SettleUnknown, WithholdTools
<1>4. CASE StreamStep(r)
  BY <1>4 DEF StreamStep
<1>5. CASE Drop(r) \/ Disconnect(r)
  BY <1>5 DEF Drop, Disconnect, Goto, handler, TypeOK
<1>6. ReadPolicy(r) => pc[r] = "admitted"
  BY DEF ReadPolicy
<1>7. CheckModel(r) => pc[r] = "parsing"
  BY DEF CheckModel
<1> QED
  BY <1>1, <1>2, <1>3, <1>4, <1>5, <1>6, <1>7 DEF Handle

\* A request's own step keeps it judged by a policy of its time.
LEMMA HandlerJudged ==
  ASSUME TypeOK, NEW r \in Requests, Judged(r), Handle(r) \/ Drop(r) \/ Disconnect(r)
  PROVE  Judged(r)'
<1>1. CASE pc[r] = "new"
  BY <1>1, Places DEF Judged
<1>2. CASE pc[r] = "admitted"
  <2>1. CASE ReadPolicy(r) /\ pc'[r] = "parsing"
    <3>1. Known /\ policy'[r] = config
      BY <2>1 DEF ReadPolicy, Answer, Goto, TypeOK
    <3>2. Len(configs) \in arrived[r] .. Len(configs)
      BY ConfigTyped DEF TypeOK
    <3>3. UNCHANGED <<arrived, configs>>
      BY <2>1 DEF ReadPolicy
    <3> QED
      BY <2>1, <3>1, <3>2, <3>3 DEF Judged, Known, config
  <2>2. CASE ReadPolicy(r) /\ pc'[r] = "answered"
    BY <2>2 DEF Judged
  <2>3. ReadPolicy(r) => pc'[r] \in {"parsing", "answered"}
    BY DEF ReadPolicy, Answer, Goto, TypeOK
  <2> QED
    BY <1>2, <2>1, <2>2, <2>3, Places DEF Judged
<1>3. CASE pc[r] = "parsing"
  <2>1. UNCHANGED <<model, policy, arrived, configs>>
    BY <1>3, PolicyKept
  <2>2. CASE CheckModel(r)
    <3>1. pc'[r] = "answered" \/ model[r] \notin policy[r].models
      BY <2>2 DEF CheckModel, Answer, Goto, TypeOK
    <3> QED
      BY <1>3, <2>1, <3>1 DEF Judged
  <2>3. CASE pc'[r] \in {"parsing", "answered", "dropped"}
    BY <1>3, <2>1, <2>3 DEF Judged
  <2> QED
    BY <1>3, <2>2, <2>3, Places
<1>4. CASE pc[r] \in {"sending", "buffering", "streaming"}
  <2>1. UNCHANGED <<model, policy, arrived, configs>>
    BY <1>4, PolicyKept
  <2> QED
    BY <1>4, <2>1 DEF Judged
<1>5. CASE pc[r] \in {"answered", "dropped"}
  BY <1>5, Places DEF Judged
<1> QED
  BY <1>1, <1>2, <1>3, <1>4, <1>5 DEF TypeOK

\* A reload takes no configuration away.
LEMMA ReloadJudged ==
  ASSUME TypeOK, NEW c \in Configs \cup {NoTenant}, Reload(c),
         NEW r \in Requests, Judged(r)
  PROVE  Judged(r)'
<1>1. /\ Len(configs') = Len(configs) + 1
      /\ \A i \in 1 .. Len(configs) : configs'[i] = configs[i]
  BY DEF Reload, TypeOK
<1>2. UNCHANGED <<pc, model, policy, arrived>>
  BY DEF Reload, handler
<1>3. arrived[r] \in 1 .. Len(configs) /\ Len(configs) \in Nat
  BY ConfigTyped DEF TypeOK
<1>4. \A i \in arrived[r] .. Len(configs) :
         i \in arrived[r] .. Len(configs') /\ configs'[i] = configs[i]
  BY <1>1, <1>3
<1> QED
  BY <1>2, <1>4 DEF Judged

-----------------------------------------------------------------------------
(* The budget.                                                               *)

\* Charging n and granting it within the limit in force, or not at all.
LEMMA ChargeGrants ==
  ASSUME TypeOK, GrantsCharged, GrantedWithinLimits, NEW n \in Nat, Known,
         used' = used + n, UNCHANGED configs,
         \/ used + n <= config.max /\ granted' = granted + n
         \/ UNCHANGED granted
  PROVE  GrantsCharged' /\ GrantedWithinLimits'
<1>1. used \in Nat /\ granted \in Nat
  BY DEF TypeOK
<1>2. GrantsCharged'
  BY <1>1 DEF GrantsCharged
<1>3. CASE UNCHANGED granted
  <2>1. configs' = configs /\ granted' = granted
    BY <1>3
  <2>2. GrantedWithinLimits' <=> GrantedWithinLimits
    BY <2>1, Zenon DEF GrantedWithinLimits
  <2> QED
    BY <1>2, <2>2
<1>4. CASE used + n <= config.max /\ granted' = granted + n
  <2>1. granted' <= config.max
    BY <1>1, <1>4, ConfigTyped DEF GrantsCharged
  <2>2. Len(configs) \in DOMAIN configs /\ config # NoTenant
    BY ConfigTyped DEF TypeOK, Known
  <2> QED
    BY <1>2, <2>1, <2>2 DEF GrantedWithinLimits, config
<1> QED
  BY <1>2, <1>3, <1>4

\* Every step keeps the grants below the usage and below a limit.
LEMMA NextGrants ==
  TypeOK /\ GrantsCharged /\ GrantedWithinLimits /\ [Next]_vars
     => GrantsCharged' /\ GrantedWithinLimits'
<1> SUFFICES ASSUME TypeOK, GrantsCharged, GrantedWithinLimits, [Next]_vars
             PROVE  GrantsCharged' /\ GrantedWithinLimits'
  OBVIOUS
<1>1. CASE UNCHANGED <<used, granted, configs>>
  BY <1>1 DEF GrantsCharged, GrantedWithinLimits
<1>2. ASSUME NEW r \in Requests, Handle(r) PROVE GrantsCharged' /\ GrantedWithinLimits'
  <2>1. ASSUME NEW tools \in SUBSET Tools, NEW n \in Costs, Settle(r, n, tools)
        PROVE  GrantsCharged' /\ GrantedWithinLimits'
    <3>1. n \in Nat
      BY GatewayOK
    <3> QED
      BY <2>1, <3>1, ChargeGrants DEF Settle
  <2>2. ASSUME NEW d \in Nat, Stream!Charge(r, d), UNCHANGED configs
        PROVE  GrantsCharged' /\ GrantedWithinLimits'
    BY <2>2, ChargeGrants DEF Stream!Charge
  <2>3. CASE StreamStep(r)
    <3>1. UNCHANGED configs
      BY <2>3 DEF StreamStep
    <3> QED
      BY <1>1, <2>2, <2>3, <3>1, StreamCases
      DEF Stream!Open, Stream!CutOff, Stream!Report, Stream!Abandon
  <2>4. ASSUME NEW tools \in SUBSET Tools, BodyArrives(r, tools)
        PROVE  GrantsCharged' /\ GrantedWithinLimits'
    BY <1>1, <2>1, <2>4 DEF BodyArrives, ForwardUncounted, SettleUnknown, WithholdTools, accounts
  <2>5. CASE \/ \E m \in Models \cup {NoModel} : Admit(r, m)
             \/ ReadPolicy(r) \/ CheckModel(r)
             \/ UpstreamFails(r) \/ UpstreamStreams(r) \/ UpstreamWhole(r) \/ BodyFails(r)
    BY <1>1, <2>5 DEF Admit, ReadPolicy, CheckModel, UpstreamFails, UpstreamStreams,
                      UpstreamWhole, BodyFails, accounts
  <2> QED
    BY <1>2, <2>3, <2>4, <2>5 DEF Handle
<1>3. ASSUME NEW r \in Requests, Disconnect(r) \/ Drop(r)
      PROVE  GrantsCharged' /\ GrantedWithinLimits'
  BY <1>1, <1>3 DEF Disconnect, Drop, accounts
<1>4. ASSUME NEW c \in Configs \cup {NoTenant}, Reload(c)
      PROVE  GrantsCharged' /\ GrantedWithinLimits'
  <2>1. /\ Len(configs') = Len(configs) + 1
        /\ \A i \in DOMAIN configs : i \in DOMAIN configs' /\ configs'[i] = configs[i]
    BY <1>4 DEF Reload, TypeOK
  <2>2. UNCHANGED <<used, granted>>
    BY <1>4 DEF Reload, accounts
  <2> QED
    BY <2>1, <2>2 DEF GrantsCharged, GrantedWithinLimits
<1>5. CASE UNCHANGED vars
  BY <1>1, <1>5 DEF vars, accounts
<1> QED
  BY <1>2, <1>3, <1>4, <1>5 DEF Next, AllDone

-----------------------------------------------------------------------------
(* Charges and reports.                                                      *)

\* What a request reports is a number.
LEMMA SpentTyped == ASSUME TypeOK, NEW r \in Requests PROVE Spent(r) \in Nat
<1>1. events[r] \in Seq(Events)
  BY DEF TypeOK, Events
<1>2. events[r] # <<>> => events[r][1] \in Events
  BY <1>1
<1>3. \A e \in Events : e.tokens \in Nat
  BY DEF Events
<1> QED
  BY <1>2, <1>3 DEF Spent

\* A charge to one request, on the usage and on the request's own account.
LEMMA ChargeCounted ==
  ASSUME TypeOK, UsedIsCharged, NEW r \in Requests, NEW n \in Nat,
         used' = used + n, charged' = [charged EXCEPT ![r] = @ + n]
  PROVE  UsedIsCharged'
<1>1. \A q \in Requests : charged[q] \in Nat /\ charged'[q] \in Nat
  BY DEF TypeOK
<1>2. charged'[r] = charged[r] + n /\ \A q \in Requests \ {r} : charged'[q] = charged[q]
  BY DEF TypeOK
<1>3. SumFunctionOnSet(charged', Requests) + charged[r]
         = SumFunctionOnSet(charged, Requests) + charged'[r]
  <2> DEFINE next == charged'
  <2>1. \A q \in Requests : charged[q] \in Nat /\ next[q] \in Nat
    BY <1>1
  <2>2. \A q \in Requests \ {r} : next[q] = charged[q]
    BY <1>2
  <2> HIDE DEF next
  <2>3. SumFunctionOnSet(next, Requests) + charged[r]
           = SumFunctionOnSet(charged, Requests) + next[r]
    BY <2>1, <2>2, SumOfChanged, GatewayOK
  <2> QED
    BY <2>3 DEF next
<1>4. /\ SumFunctionOnSet(charged, Requests) \in Nat
      /\ SumFunctionOnSet(charged', Requests) \in Nat
  BY <1>1, SumType, GatewayOK
<1>5. SumFunctionOnSet(charged', Requests) = SumFunctionOnSet(charged, Requests) + n
  BY <1>1, <1>2, <1>3, <1>4
<1> QED
  BY <1>5 DEF UsedIsCharged

\* Each step of a request charges it, reports at most what it was charged, or
\* does both; it charges and reports for no other.
LEMMA Accounted ==
  ASSUME TypeOK, NEW r \in Requests, Tracked(r), Handle(r) \/ Drop(r) \/ Disconnect(r)
  PROVE  /\ \/ UNCHANGED <<used, charged>>
            \/ \E n \in Nat : used' = used + n /\ charged' = [charged EXCEPT ![r] = @ + n]
         /\ \/ UNCHANGED events
            \/ \E outcome \in Outcomes, n \in Nat :
                  /\ events[r] = <<>> /\ Push(r, outcome, n)
                  /\ n <= charged'[r] \/ outcome \notin {"Completed", "BudgetBlocked"}
<1> USE OutcomesKnown
<1>1. \A q \in Requests : charged[q] \in Nat
  BY DEF TypeOK
<1>2. ASSUME NEW m \in Models \cup {NoModel}, Admit(r, m)
      PROVE  /\ UNCHANGED <<used, charged>> /\ events[r] = <<>>
             /\ Push(r, "BudgetBlocked", 0) \/ UNCHANGED events
  BY <1>2 DEF Admit, Tracked
<1>3. CASE ReadPolicy(r) \/ UpstreamStreams(r) \/ UpstreamWhole(r) \/ Drop(r) \/ Disconnect(r)
  BY <1>3 DEF ReadPolicy, UpstreamStreams, UpstreamWhole, Drop, Disconnect, accounts
<1>4. CASE CheckModel(r)
  BY <1>4 DEF CheckModel, Tracked
<1>5. CASE UpstreamFails(r) \/ BodyFails(r)
  BY <1>5 DEF UpstreamFails, BodyFails, Tracked
<1>6. ASSUME NEW tools \in SUBSET Tools, NEW n \in Costs, Settle(r, n, tools)
      PROVE  /\ n \in Nat /\ used' = used + n /\ charged' = [charged EXCEPT ![r] = @ + n]
             /\ n <= charged'[r] /\ events[r] = <<>>
             /\ Push(r, "Completed", n) \/ Push(r, "BudgetBlocked", n)
  <2>1. n \in Nat
    BY GatewayOK
  <2>2. charged'[r] = charged[r] + n
    BY <1>6 DEF Settle, TypeOK
  <2> QED
    BY <1>1, <1>6, <2>1, <2>2 DEF Settle, Tracked
<1>7. ASSUME NEW tools \in SUBSET Tools, NEW n \in Costs \cup {NoUsage},
             WithholdTools(r, n, tools)
      PROVE  /\ UNCHANGED <<used, charged>> /\ events[r] = <<>>
             /\ \E k \in Nat : Push(r, "PolicyBlocked", k)
  BY <1>7, GatewayOK DEF WithholdTools, Tracked
<1>8. ASSUME NEW tools \in SUBSET Tools, ForwardUncounted(r, tools)
      PROVE  UNCHANGED <<used, charged>> /\ events[r] = <<>> /\ Push(r, "Completed", 0)
  BY <1>8 DEF ForwardUncounted, Tracked
<1>9. ASSUME NEW tools \in SUBSET Tools, SettleUnknown(r, tools)
      PROVE  UNCHANGED <<used, charged, events>>
  BY <1>9 DEF SettleUnknown, accounts
<1>10. CASE StreamStep(r)
  <2>1. CASE Stream!Open(r) \/ Stream!Abandon(r)
    BY <2>1 DEF Stream!Open, Stream!Abandon
  <2>2. CASE \E d \in Nat : Stream!Charge(r, d)
    BY <2>2 DEF Stream!Charge
  <2>3. CASE \E why \in Stream!CutOffs : Stream!CutOff(r, why)
    BY <2>3 DEF Stream!CutOff
  <2>4. ASSUME NEW outcome \in Outcomes, NEW n \in Nat, Stream!Report(r, outcome, n)
        PROVE  /\ UNCHANGED <<used, charged>> /\ events[r] = <<>> /\ Push(r, outcome, n)
               /\ n <= charged[r] \/ outcome \notin {"Completed", "BudgetBlocked"}
    <3>1. pc[r] = "streaming"
      BY <1>10 DEF StreamStep
    <3>2. events[r] = <<>>
      BY <2>4, <3>1 DEF Stream!Report, Stream!CutOffs, Tracked
    <3>3. Push(r, outcome, n)
      BY <2>4, ReportPushes DEF Push
    <3> QED
      BY <2>4, <3>2, <3>3 DEF Stream!Report
  <2> QED
    BY <1>10, <2>1, <2>2, <2>3, <2>4, StreamCases
<1>11. ASSUME NEW tools \in SUBSET Tools, BodyArrives(r, tools)
       PROVE  /\ \/ UNCHANGED <<used, charged>>
                 \/ \E n \in Nat : used' = used + n /\ charged' = [charged EXCEPT ![r] = @ + n]
              /\ \/ UNCHANGED events
                 \/ \E outcome \in Outcomes, n \in Nat :
                       /\ events[r] = <<>> /\ Push(r, outcome, n)
                       /\ n <= charged'[r] \/ outcome \notin {"Completed", "BudgetBlocked"}
  <2>1. ASSUME NEW n \in Costs, Settle(r, n, tools)
        PROVE  /\ \E k \in Nat : used' = used + k /\ charged' = [charged EXCEPT ![r] = @ + k]
               /\ \E outcome \in Outcomes, k \in Nat :
                     /\ events[r] = <<>> /\ Push(r, outcome, k)
                     /\ k <= charged'[r]
    BY <1>6, <2>1
  <2>2. CASE ForwardUncounted(r, tools)
    BY <1>1, <1>8, <2>2
  <2>3. CASE SettleUnknown(r, tools)
    BY <1>9, <2>3
  <2>4. CASE \E n \in Costs \cup {NoUsage} : WithholdTools(r, n, tools)
    BY <1>7, <2>4
  <2> QED
    BY <1>11, <2>1, <2>2, <2>3, <2>4 DEF BodyArrives
<1>12. CASE \E m \in Models \cup {NoModel} : Admit(r, m)
  BY <1>1, <1>2, <1>12
<1> QED
  BY <1>3, <1>4, <1>5, <1>10, <1>11, <1>12 DEF Handle

\* A step of a request keeps every request's report covered by its charge.
LEMMA StepCovered ==
  ASSUME TypeOK, NEW r \in Requests, Tracked(r), Handle(r) \/ Drop(r) \/ Disconnect(r),
         NEW q \in Requests, Covered(q)
  PROVE  Covered(q)'
<1>1. charged[q] \in Nat /\ charged'[q] \in Nat /\ charged[q] <= charged'[q]
  <2>1. CASE UNCHANGED charged
    BY <2>1 DEF TypeOK
  <2>2. ASSUME NEW n \in Nat, charged' = [charged EXCEPT ![r] = @ + n]
        PROVE  charged[q] \in Nat /\ charged'[q] \in Nat /\ charged[q] <= charged'[q]
    BY <2>2 DEF TypeOK
  <2> QED
    BY <2>1, <2>2, Accounted
<1>2. CASE events'[q] = events[q]
  <2>1. Spent(q)' = Spent(q)
    BY <1>2 DEF Spent
  <2>2. Spent(q) \in Nat
    BY SpentTyped
  <2> QED
    BY <1>1, <2>1, <2>2 DEF Covered
<1>3. ASSUME NEW outcome \in Outcomes, NEW n \in Nat,
             events[r] = <<>>, Push(r, outcome, n),
             n <= charged'[r] \/ outcome \notin {"Completed", "BudgetBlocked"}
      PROVE  Covered(q)'
  <2>1. CASE q = r
    <3>1. events'[r] = <<UsageEvent(outcome, n)>>
      BY <1>3 DEF Push, TypeOK
    <3>2. events'[r][1].outcome = outcome /\ events'[r][1].tokens = n
      BY <3>1 DEF UsageEvent
    <3> QED
      BY <1>1, <1>3, <2>1, <3>2 DEF Covered, Spent
  <2>2. CASE q # r
    BY <1>2, <1>3, <2>2 DEF Push, TypeOK
  <2> QED
    BY <2>1, <2>2
<1> QED
  BY <1>2, <1>3, Accounted

-----------------------------------------------------------------------------
(* The invariant.                                                            *)

LEMMA InitInv == Init => Inv
<1> SUFFICES ASSUME Init PROVE Inv
  OBVIOUS
<1>1. TypeOK
  BY InitTypes
<1>2. \A r \in Requests : Tracked(r) /\ Judged(r) /\ Covered(r)
  BY DEF Init, Stream!Init, Tracked, Judged, NoAnswer, Covered, Spent
<1>3. GrantsCharged /\ GrantedWithinLimits
  BY DEF Init, Stream!Init, GrantsCharged, GrantedWithinLimits
<1>4. UsedIsCharged
  <2>1. \A r \in Requests : charged[r] = 0
    BY DEF Init, Stream!Init
  <2>2. SumFunctionOnSet(charged, Requests) = 0
    BY <2>1, SumOfZeros, GatewayOK
  <2> QED
    BY <2>2 DEF UsedIsCharged, Init, Stream!Init
<1> QED
  BY <1>1, <1>2, <1>3, <1>4 DEF Inv

LEMMA NextInv == Inv /\ [Next]_vars => Inv'
<1> SUFFICES ASSUME Inv, [Next]_vars PROVE Inv'
  OBVIOUS
<1> USE DEF Inv
<1>1. TypeOK' /\ GrantsCharged' /\ GrantedWithinLimits'
  BY NextTypes, NextGrants
<1>2. ASSUME NEW q \in Requests PROVE Tracked(q)' /\ Judged(q)'
  <2>1. ASSUME NEW r \in Requests \ {q}, Handle(r) \/ Drop(r) \/ Disconnect(r)
        PROVE  Tracked(q)' /\ Judged(q)'
    BY <2>1, OthersUntouched DEF Tracked, Judged
  <2>2. CASE Handle(q)
    BY <2>2, HandlerTracked, HandlerJudged
  <2>3. CASE Drop(q)
    <3>1. pc'[q] = "dropped" /\ events[q] = <<>> /\ UNCHANGED events
      BY <2>3 DEF Drop, Goto, TypeOK, Tracked, accounts
    <3> QED
      BY <2>3, <3>1, HandlerJudged DEF Tracked
  <2>4. CASE Disconnect(q)
    BY <2>4, HandlerJudged DEF Disconnect, Tracked, handler, accounts
  <2>5. ASSUME NEW c \in Configs \cup {NoTenant}, Reload(c)
        PROVE  Tracked(q)' /\ Judged(q)'
    BY <2>5, ReloadJudged DEF Reload, Tracked, handler, accounts
  <2>6. CASE UNCHANGED vars
    BY <2>6 DEF vars, handler, accounts, Tracked, Judged
  <2> QED
    BY <2>1, <2>2, <2>3, <2>4, <2>5, <2>6 DEF Next, AllDone
<1>3. ASSUME NEW q \in Requests PROVE Covered(q)'
  <2>1. ASSUME NEW r \in Requests, Handle(r) \/ Drop(r) \/ Disconnect(r)
        PROVE  Covered(q)'
    BY <2>1, StepCovered
  <2>2. CASE UNCHANGED <<charged, events>>
    BY <2>2 DEF Covered, Spent
  <2>3. ASSUME NEW c \in Configs \cup {NoTenant}, Reload(c)
        PROVE  UNCHANGED <<charged, events>>
    BY <2>3 DEF Reload, accounts
  <2> QED
    BY <2>1, <2>2, <2>3 DEF Next, AllDone, vars, accounts
<1>4. UsedIsCharged'
  <2>1. ASSUME NEW r \in Requests, Handle(r) \/ Drop(r) \/ Disconnect(r)
        PROVE  UsedIsCharged'
    <3>1. CASE UNCHANGED <<used, charged>>
      BY <3>1 DEF UsedIsCharged
    <3>2. ASSUME NEW n \in Nat, used' = used + n, charged' = [charged EXCEPT ![r] = @ + n]
          PROVE  UsedIsCharged'
      BY <3>2, ChargeCounted
    <3> QED
      BY <2>1, <3>1, <3>2, Accounted
  <2>2. CASE UNCHANGED <<used, charged>>
    BY <2>2 DEF UsedIsCharged
  <2>3. ASSUME NEW c \in Configs \cup {NoTenant}, Reload(c)
        PROVE  UNCHANGED <<used, charged>>
    BY <2>3 DEF Reload, accounts
  <2> QED
    BY <2>1, <2>2, <2>3 DEF Next, AllDone, vars, accounts
<1> QED
  BY <1>1, <1>2, <1>3, <1>4

LEMMA AlwaysInv == Spec => []Inv
  BY InitInv, NextInv, PTL DEF Spec

-----------------------------------------------------------------------------
(* Theorems.                                                                 *)

\* The handler's state is what the code declares it to be, and a body exists
\* only once its headers were returned.
THEOREM HandlerTypesOK == Spec => []TypeOK
<1>1. Inv => TypeOK
  BY DEF Inv
<1> QED
  BY <1>1, AlwaysInv, PTL

\* README, "Telemetry": every request that is over has left one usage event
\* that says what its client was told, but for the three exceptions.
THEOREM OverIsReported == Spec => []ReportedUnlessExcused
<1>1. Inv => ReportedUnlessExcused
  <2> SUFFICES ASSUME Inv, NEW r \in Requests
               PROVE  /\ Len(events[r]) = IF Over(r) /\ ~Excused(r) THEN 1 ELSE 0
                      /\ pc[r] = "answered" /\ events[r] # <<>> =>
                            Status(answer[r]) = StatusFor(events[r][1].outcome)
    BY DEF ReportedUnlessExcused
  <2>1. Len(<<>>) = 0
    OBVIOUS
  <2>2. Tracked(r) /\ TypeOK
    BY DEF Inv
  <2>3. CASE pc[r] \in {"new", "admitted", "parsing", "sending", "buffering", "dropped"}
    BY <2>1, <2>2, <2>3 DEF Tracked, Over, Excused
  <2>4. CASE pc[r] = "streaming"
    <3>1. CASE phase[r] = "over"
      <4>1. Len(events[r]) = 1 /\ Over(r) /\ ~Excused(r)
        BY <2>2, <2>4, <3>1 DEF Tracked, Over, Excused
      <4> QED
        BY <2>4, <4>1
    <3>2. CASE phase[r] # "over"
      <4>1. events[r] = <<>> /\ (Over(r) => Excused(r))
        BY <2>2, <2>4, <3>2 DEF Tracked, Over, Excused
      <4> QED
        BY <2>1, <2>4, <4>1
    <3> QED
      BY <3>1, <3>2
  <2>5. CASE pc[r] = "answered"
    <3>1. Over(r) /\ (Excused(r) <=> answer[r] = "UnknownTenant")
      BY <2>2, <2>5 DEF TypeOK, Over, Excused
    <3>2. CASE answer[r] = "UnknownTenant"
      BY <2>1, <2>2, <2>5, <3>1, <3>2 DEF Tracked
    <3>3. CASE answer[r] # "UnknownTenant"
      BY <2>2, <2>5, <3>1, <3>3 DEF Tracked
    <3> QED
      BY <3>2, <3>3
  <2> QED
    BY <2>2, <2>3, <2>4, <2>5 DEF TypeOK
<1> QED
  BY <1>1, AlwaysInv, PTL

\* README, "Policy": whatever reloads do between the steps of a handler, a
\* model that every configuration has blocked since the request arrived is
\* never sent to a provider.
THEOREM BlockedNotSent == Spec => []ForwardedUnderPolicy
<1>1. Inv => ForwardedUnderPolicy
  BY DEF Inv, Judged, ForwardedUnderPolicy
<1> QED
  BY <1>1, AlwaysInv, PTL

\* README, "The budget": whole and streamed responses of any number of
\* concurrent requests together stay within a limit there has been.
THEOREM WithinSomeLimit == Spec => []GrantedWithinLimits
<1>1. Inv => GrantedWithinLimits
  BY DEF Inv
<1> QED
  BY <1>1, AlwaysInv, PTL

\* README, "Telemetry": the tokens the usage events report as spent, of whole
\* and of streamed responses between them, were all charged to the tenant,
\* however requests, disconnects and reloads interleave.
THEOREM ReportsAreCharged == Spec => []SpentIsCharged
<1>1. Inv => SpentIsCharged
  <2> SUFFICES ASSUME Inv PROVE SpentIsCharged
    OBVIOUS
  <2> DEFINE spent == [r \in Requests |-> Spent(r)]
  <2>1. ASSUME NEW r \in Requests
        PROVE  spent[r] \in Nat /\ charged[r] \in Nat /\ spent[r] <= charged[r]
    BY SpentTyped DEF Inv, TypeOK, Covered
  <2> HIDE DEF spent
  <2>2. SumFunctionOnSet(spent, Requests) <= SumFunctionOnSet(charged, Requests)
    BY <2>1, SumMonotone, GatewayOK
  <2> QED
    BY <2>2 DEF spent, Inv, UsedIsCharged, SpentIsCharged
<1> QED
  BY <1>1, AlwaysInv, PTL
==============================================================================
