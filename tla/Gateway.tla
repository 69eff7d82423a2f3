-------------------------------- MODULE Gateway --------------------------------
(***************************************************************************)
(* proxy (src/gateway.rs): the handler every request of a tenant runs         *)
(* through, from admission to the response.  It gives up control while it    *)
(* parses a large body, while it awaits the upstream and while it buffers a   *)
(* response that is not a stream, and the server drops it there when the     *)
(* client is gone.  A streaming response is handed to the server under        *)
(* StreamContract.                                                           *)
(*                                                                           *)
(* Each step of the handler reads the configuration for itself, and a reload *)
(* may come between any two of them.  The requests' usage falls into one     *)
(* window.                                                                   *)
(***************************************************************************)
EXTENDS Naturals, Sequences, FiniteSets, Functions

CONSTANTS Requests,    \* requests that name the tenant
          Models,      \* models a request body may name
          NoModel,     \* a body without a model
          Tools,       \* tools a whole response may call
          Configs,     \* configurations of the tenant: [max, models, tools]
          NoTenant,    \* the configuration does not have the tenant
          Costs,       \* tokens of a whole response or an event of a stream
          NoUsage,     \* a whole response without usage
          MaxReloads   \* bound: the number of reloads

ASSUME GatewayOK == /\ IsFiniteSet(Requests)
                    /\ Costs \subseteq Nat
                    /\ NoUsage \notin Nat
                    /\ NoTenant \notin Configs
                    /\ \A c \in Configs : /\ c.max \in Nat
                                          /\ c.models \subseteq Models
                                          /\ c.tools \subseteq Tools

VARIABLES pc,         \* where the handler of a request stands
          model,      \* the model its body names
          policy,     \* the configuration its policy was read from
          answer,     \* the response it returned
          gone,       \* its client has disconnected
          phase,      \* its stream, if the response is one ...
          charged,    \* ... or the request itself: what it has charged
          events,     \* the usage events pushed for it
          used,       \* the tenant's usage
          granted,    \* what was forwarded to the tenant's clients
          configs,    \* the configurations that were in force, the last one is
          arrived     \* arrived[r]: how many there were when r arrived

handler == <<pc, model, policy, answer, arrived>>
accounts == <<phase, charged, events, used, granted>>
vars == <<handler, gone, accounts, configs>>

config == configs[Len(configs)]
Known == config # NoTenant

Stream == INSTANCE StreamContract
            WITH Streams <- Requests, known <- Known, limit <- config.max

NoAnswer == "none"

Init == /\ pc = [r \in Requests |-> "new"]
        /\ model = [r \in Requests |-> NoModel]
        /\ policy = [r \in Requests |-> NoTenant]
        /\ answer = [r \in Requests |-> NoAnswer]
        /\ gone = [r \in Requests |-> FALSE]
        /\ Stream!Init
        /\ \E c \in Configs \cup {NoTenant} : configs = <<c>>
        /\ arrived = [r \in Requests |-> 1]

-----------------------------------------------------------------------------
(* What a step of the handler ends with.                                     *)

Goto(r, next) == pc' = [pc EXCEPT ![r] = next]

\* A response is returned: the handler is done with r.
Answer(r, a) == /\ Goto(r, "answered")
                /\ answer' = [answer EXCEPT ![r] = a]

UsageEvent(outcome, n) == [outcome |-> outcome, tokens |-> n]

Push(r, outcome, n) == events' = [events EXCEPT ![r] = Append(@, UsageEvent(outcome, n))]

\* The status of an error (into_response in src/error.rs) and of a response.
Status(a) == CASE a = "UnknownTenant" -> 401
               [] a = "PolicyViolation" -> 403
               [] a = "BudgetExceeded" -> 429
               [] a = "Upstream" -> 502
               [] a = "ok" -> 200

-----------------------------------------------------------------------------
(* Admission.                                                                *)

\* is_within_budget: admit below the limit, refuse and report at it or over
\* it, and refuse an unknown tenant.
Admit(r, m) ==
    /\ pc[r] = "new"
    /\ model' = [model EXCEPT ![r] = m]
    /\ arrived' = [arrived EXCEPT ![r] = Len(configs)]
    /\ \/ /\ ~Known
          /\ Answer(r, "UnknownTenant")
          /\ UNCHANGED events
       \/ /\ Known
          /\ used < config.max
          /\ Goto(r, "admitted")
          /\ UNCHANGED <<answer, events>>
       \/ /\ Known
          /\ used >= config.max
          /\ Push(r, "BudgetBlocked", 0)
          /\ Answer(r, "BudgetExceeded")
    /\ UNCHANGED <<policy, gone, phase, charged, used, granted, configs>>

\* Mutant: the policy is that of the configuration the process started with.
ReadPolicyOfStart(r) ==
    /\ pc[r] = "admitted"
    /\ \/ /\ Known
          /\ policy' = [policy EXCEPT ![r] = IF configs[1] = NoTenant THEN config ELSE configs[1]]
          /\ Goto(r, "parsing")
          /\ UNCHANGED answer
       \/ /\ ~Known
          /\ Answer(r, "UnknownTenant")
          /\ UNCHANGED policy
    /\ UNCHANGED <<model, arrived, gone, accounts, configs>>

\* policy_for: the policy the rest of the request is judged by.
ReadPolicy(r) ==
    /\ pc[r] = "admitted"
    /\ \/ /\ Known
          /\ policy' = [policy EXCEPT ![r] = config]
          /\ Goto(r, "parsing")
          /\ UNCHANGED answer
       \/ /\ ~Known
          /\ Answer(r, "UnknownTenant")
          /\ UNCHANGED policy
    /\ UNCHANGED <<model, arrived, gone, accounts, configs>>

\* The body is parsed; a blocked model is refused, any other is sent upstream.
CheckModel(r) ==
    /\ pc[r] = "parsing"
    /\ \/ /\ model[r] \in policy[r].models
          /\ Push(r, "PolicyBlocked", 0)
          /\ Answer(r, "PolicyViolation")
       \/ /\ model[r] \notin policy[r].models
          /\ Goto(r, "sending")
          /\ UNCHANGED <<answer, events>>
    /\ UNCHANGED <<model, policy, arrived, gone, phase, charged, used, granted, configs>>

-----------------------------------------------------------------------------
(* The upstream.                                                             *)

\* The request fails before there is a response.
UpstreamFails(r) ==
    /\ pc[r] = "sending"
    /\ Push(r, "UpstreamError", 0)
    /\ Answer(r, "Upstream")
    /\ UNCHANGED <<model, policy, arrived, gone, phase, charged, used, granted, configs>>

\* The response is a stream: its headers are returned at once, and its body
\* is left to the server.
UpstreamStreams(r) ==
    /\ pc[r] = "sending"
    /\ Goto(r, "streaming")
    /\ answer' = [answer EXCEPT ![r] = "ok"]
    /\ UNCHANGED <<model, policy, arrived, gone, accounts, configs>>

\* The response is not a stream, and its body is awaited.
UpstreamWhole(r) ==
    /\ pc[r] = "sending"
    /\ Goto(r, "buffering")
    /\ UNCHANGED <<model, policy, answer, arrived, gone, accounts, configs>>

\* Mutant: the failure of a body is not reported.
BodyFailsUnreported(r) ==
    /\ pc[r] = "buffering"
    /\ Answer(r, "Upstream")
    /\ UNCHANGED <<model, policy, arrived, gone, accounts, configs>>

\* The body fails.
BodyFails(r) ==
    /\ pc[r] = "buffering"
    /\ Push(r, "UpstreamError", 0)
    /\ Answer(r, "Upstream")
    /\ UNCHANGED <<model, policy, arrived, gone, phase, charged, used, granted, configs>>

\* A whole response that costs n calls a blocked tool: it is withheld and
\* reported, and nothing is charged.
WithholdTools(r, n, tools) ==
    /\ pc[r] = "buffering"
    /\ tools \cap policy[r].tools # {}
    /\ Push(r, "PolicyBlocked", IF n = NoUsage THEN 0 ELSE n)
    /\ Answer(r, "PolicyViolation")
    /\ UNCHANGED <<model, policy, arrived, gone, phase, charged, used, granted, configs>>

\* A whole response without usage is forwarded as it is.
ForwardUncounted(r, tools) ==
    /\ pc[r] = "buffering"
    /\ tools \cap policy[r].tools = {}
    /\ Push(r, "Completed", 0)
    /\ Answer(r, "ok")
    /\ UNCHANGED <<model, policy, arrived, gone, phase, charged, used, granted, configs>>

\* Mutant: a response over the limit is withheld without being charged.
SettleUncharged(r, n, tools) ==
    /\ pc[r] = "buffering"
    /\ tools \cap policy[r].tools = {}
    /\ Known
    /\ \/ /\ used + n <= config.max
          /\ used' = used + n
          /\ charged' = [charged EXCEPT ![r] = @ + n]
          /\ granted' = granted + n
          /\ Push(r, "Completed", n)
          /\ Answer(r, "ok")
       \/ /\ used + n > config.max
          /\ Push(r, "BudgetBlocked", n)
          /\ Answer(r, "BudgetExceeded")
          /\ UNCHANGED <<used, charged, granted>>
    /\ UNCHANGED <<model, policy, arrived, gone, phase, configs>>

\* Mutant: the usage is judged before the response is charged.
SettleBeforeAdd(r, n, tools) ==
    /\ pc[r] = "buffering"
    /\ tools \cap policy[r].tools = {}
    /\ Known
    /\ used' = used + n
    /\ charged' = [charged EXCEPT ![r] = @ + n]
    /\ \/ /\ used < config.max
          /\ granted' = granted + n
          /\ Push(r, "Completed", n)
          /\ Answer(r, "ok")
       \/ /\ used >= config.max
          /\ Push(r, "BudgetBlocked", n)
          /\ Answer(r, "BudgetExceeded")
          /\ UNCHANGED granted
    /\ UNCHANGED <<model, policy, arrived, gone, phase, configs>>

\* record: a whole response is charged, and forwarded if the tenant stays
\* within its limit.
Settle(r, n, tools) ==
    /\ pc[r] = "buffering"
    /\ tools \cap policy[r].tools = {}
    /\ Known
    /\ used' = used + n
    /\ charged' = [charged EXCEPT ![r] = @ + n]
    /\ \/ /\ used + n <= config.max
          /\ granted' = granted + n
          /\ Push(r, "Completed", n)
          /\ Answer(r, "ok")
       \/ /\ used + n > config.max
          /\ Push(r, "BudgetBlocked", n)
          /\ Answer(r, "BudgetExceeded")
          /\ UNCHANGED granted
    /\ UNCHANGED <<model, policy, arrived, gone, phase, configs>>

\* record fails when the tenant is not configured any more: no event is pushed.
SettleUnknown(r, tools) ==
    /\ pc[r] = "buffering"
    /\ tools \cap policy[r].tools = {}
    /\ ~Known
    /\ Answer(r, "UnknownTenant")
    /\ UNCHANGED <<model, policy, arrived, gone, accounts, configs>>

BodyArrives(r, tools) ==
    \/ ForwardUncounted(r, tools)
    \/ \E n \in Costs : Settle(r, n, tools)
    \/ SettleUnknown(r, tools)
    \/ \E n \in Costs \cup {NoUsage} : WithholdTools(r, n, tools)

\* The body of a streaming response, polled or dropped by the server.
StreamStep(r) ==
    /\ pc[r] = "streaming"
    /\ \/ Stream!Open(r)
       \/ \E d \in Costs : Stream!Charge(r, d)
       \/ \E why \in Stream!CutOffs : Stream!CutOff(r, why)
       \/ \E o \in Stream!CutOffs \cup {"Completed"}, n \in 0 .. charged[r] + 1 :
             Stream!Report(r, o, n)
       \/ gone[r] /\ \E n \in 0 .. charged[r] + 1 : Stream!Report(r, "Incomplete", n)
       \/ gone[r] /\ Stream!Abandon(r)
    /\ UNCHANGED <<handler, gone, configs>>

-----------------------------------------------------------------------------
(* Clients and reloads.                                                      *)

Over(r) == \/ pc[r] \in {"answered", "dropped"}
           \/ pc[r] = "streaming" /\ phase[r] \in {"over", "abandoned"}

Disconnect(r) == /\ ~gone[r] /\ ~Over(r)
                 /\ gone' = [gone EXCEPT ![r] = TRUE]
                 /\ UNCHANGED <<handler, accounts, configs>>

\* Mutant: the body of a stream is dropped without its telemetry.
DropAnywhere(r) == /\ gone[r]
                   /\ pc[r] \in {"parsing", "sending", "buffering", "streaming"}
                   /\ Goto(r, "dropped")
                   /\ UNCHANGED <<model, policy, answer, arrived, gone, accounts, configs>>

\* The server drops the handler of a client that is gone, at an await.
Drop(r) == /\ gone[r]
           /\ pc[r] \in {"parsing", "sending", "buffering"}
           /\ Goto(r, "dropped")
           /\ UNCHANGED <<model, policy, answer, arrived, gone, accounts, configs>>

\* watch stores what the file says now.
Reload(c) == /\ Len(configs) <= MaxReloads
             /\ c # config
             /\ configs' = Append(configs, c)
             /\ UNCHANGED <<handler, gone, accounts>>

AllDone == (\A r \in Requests : Over(r)) /\ UNCHANGED vars

Handle(r) == \/ \E m \in Models \cup {NoModel} : Admit(r, m)
             \/ ReadPolicy(r) \/ CheckModel(r)
             \/ UpstreamFails(r) \/ UpstreamStreams(r) \/ UpstreamWhole(r)
             \/ BodyFails(r)
             \/ \E tools \in SUBSET Tools : BodyArrives(r, tools)
             \/ StreamStep(r)

Next == \/ \E r \in Requests : Handle(r) \/ Disconnect(r) \/ Drop(r)
        \/ \E c \in Configs \cup {NoTenant} : Reload(c)
        \/ AllDone

Spec == Init /\ [][Next]_vars
-----------------------------------------------------------------------------
(* Properties.                                                               *)

Outcomes == Stream!CutOffs \cup {"Completed", "Incomplete"}

\* The handler's state is what the code declares it to be, and a body exists
\* only once its headers were returned.
TypeOK == /\ pc \in [Requests -> {"new", "admitted", "parsing", "sending", "buffering",
                                  "streaming", "answered", "dropped"}]
          /\ model \in [Requests -> Models \cup {NoModel}]
          /\ policy \in [Requests -> Configs \cup {NoTenant}]
          /\ answer \in [Requests -> {NoAnswer, "ok", "UnknownTenant", "PolicyViolation",
                                      "BudgetExceeded", "Upstream"}]
          /\ gone \in [Requests -> BOOLEAN]
          /\ phase \in [Requests -> Stream!CutOffs \cup {"unpolled", "open", "over", "abandoned"}]
          /\ charged \in [Requests -> Nat]
          /\ events \in [Requests -> Seq([outcome : Outcomes, tokens : Nat])]
          /\ used \in Nat /\ granted \in Nat
          /\ configs \in Seq(Configs \cup {NoTenant}) /\ configs # <<>>
          /\ arrived \in [Requests -> 1 .. Len(configs)]
          /\ \A r \in Requests : pc[r] # "streaming" => phase[r] = "unpolled"

\* What a request without a usage event must be: refused for a tenant that is
\* not configured, dropped at an await, or never polled.
Excused(r) == \/ answer[r] = "UnknownTenant"
              \/ pc[r] = "dropped"
              \/ phase[r] = "abandoned"

StatusFor(outcome) == CASE outcome = "PolicyBlocked" -> 403
                        [] outcome = "BudgetBlocked" -> 429
                        [] outcome = "UpstreamError" -> 502
                        [] outcome = "Completed" -> 200

\* README, "Telemetry": one event per request on every terminal path, but for
\* the three exceptions above; it is pushed when the request is over, and its
\* outcome is what the client of a whole response was told.
ReportedUnlessExcused ==
    \A r \in Requests :
       /\ Len(events[r]) = IF Over(r) /\ ~Excused(r) THEN 1 ELSE 0
       /\ pc[r] = "answered" /\ events[r] # <<>> =>
             Status(answer[r]) = StatusFor(events[r][1].outcome)

\* README, "Policy": a request for a blocked model never reaches the provider.
\* With reloads at any time: a model that every configuration has blocked
\* since the request arrived is not sent.
ForwardedUnderPolicy ==
    \A r \in Requests : pc[r] \in {"sending", "buffering", "streaming"} =>
       \E i \in arrived[r] .. Len(configs) :
          configs[i] # NoTenant /\ model[r] \notin configs[i].models

\* What a usage event reports as spent.
Spent(r) == IF events[r] # <<>> /\ events[r][1].outcome \in {"Completed", "BudgetBlocked"}
            THEN events[r][1].tokens ELSE 0

\* The tokens that completed and over-budget requests report between them have
\* been charged, whether they were streamed or not.
SpentIsCharged == SumFunctionOnSet([r \in Requests |-> Spent(r)], Requests) <= used

\* README, "The budget": nothing that would exceed the budget is forwarded.
\* What all requests forward stays within the largest limit there has been.
GrantedWithinLimits ==
    \/ granted = 0
    \/ \E i \in DOMAIN configs : configs[i] # NoTenant /\ granted <= configs[i].max

\* README, "Telemetry", taken at its word: a request that was admitted leaves
\* an event, however it ends.
NoRequestInvisible ==
    \A r \in Requests : Over(r) /\ policy[r] # NoTenant => events[r] # <<>>
=============================================================================
