--------------------------- MODULE StreamContract ---------------------------
(***************************************************************************)
(* What a streaming response promises the gateway that hands it to the       *)
(* server: once polled it charges the tenant event by event, forwards only   *)
(* what the budget grants, is cut off for one reason at most, and leaves one  *)
(* usage event when it is over.  Enforcer implements this; Gateway is built  *)
(* on it.                                                                    *)
(***************************************************************************)
EXTENDS Naturals, Sequences

CONSTANT Streams

VARIABLES phase,    \* "unpolled", "open", why it was cut off, "over" or "abandoned"
          charged,  \* what the stream has charged to the tenant
          events,   \* the usage events pushed for the stream
          used,     \* the tenant's usage in the window
          granted,  \* what was forwarded to the tenant's clients
          known,    \* the tenant is in the configuration
          limit     \* the tenant's max_tokens

vars == <<phase, charged, events, used, granted, known, limit>>

CutOffs == {"BudgetBlocked", "PolicyBlocked", "UpstreamError"}

Init == /\ phase = [s \in Streams |-> "unpolled"]
        /\ charged = [s \in Streams |-> 0]
        /\ events = [s \in Streams |-> <<>>]
        /\ used = 0
        /\ granted = 0

Enter(s, next) == phase' = [phase EXCEPT ![s] = next]

Open(s) == /\ phase[s] = "unpolled"
           /\ Enter(s, "open")
           /\ UNCHANGED <<charged, events, used, granted>>

\* An event of cost d is charged, and forwarded if the tenant stays within
\* its limit; the stream is cut off otherwise.
Charge(s, d) ==
    /\ phase[s] = "open"
    /\ known
    /\ used' = used + d
    /\ charged' = [charged EXCEPT ![s] = @ + d]
    /\ \/ /\ used + d <= limit
          /\ granted' = granted + d
          /\ UNCHANGED phase
       \/ /\ used + d > limit
          /\ Enter(s, "BudgetBlocked")
          /\ UNCHANGED granted
    /\ UNCHANGED events

\* A blocked tool, an upstream that fails, or a tenant that is not known any more.
CutOff(s, why) == /\ phase[s] = "open"
                  /\ why \in {"PolicyBlocked", "UpstreamError"}
                  /\ Enter(s, why)
                  /\ UNCHANGED <<charged, events, used, granted>>

\* The stream is over and reports n tokens: why it was cut off, that it was
\* not, or that its client left first.  Only a failed stream may report more
\* than it has charged.
Report(s, outcome, n) ==
    /\ \/ phase[s] = "open" /\ outcome = "Completed"
       \/ phase[s] \in CutOffs /\ outcome = phase[s]
       \/ phase[s] \in CutOffs \cup {"open"} /\ outcome = "Incomplete"
    /\ n <= charged[s] \/ phase[s] = "UpstreamError"
    /\ events' = [events EXCEPT ![s] = Append(@, [outcome |-> outcome, tokens |-> n])]
    /\ Enter(s, "over")
    /\ UNCHANGED <<charged, used, granted>>

\* Dropped before its first poll, it leaves nothing.
Abandon(s) == /\ phase[s] = "unpolled"
              /\ Enter(s, "abandoned")
              /\ UNCHANGED <<charged, events, used, granted>>

\* A step of s: what it charges and reports can be read off the step.
Step(s) == \/ Open(s)
           \/ used' >= used /\ Charge(s, used' - used)
           \/ \E why \in CutOffs : CutOff(s, why)
           \/ /\ events'[s] # <<>>
              /\ LET e == events'[s][1] IN Report(s, e.outcome, e.tokens)
           \/ Abandon(s)

\* A stream does not touch the configuration.
Next == \/ \E s \in Streams : Step(s) /\ UNCHANGED <<known, limit>>
        \/ UNCHANGED <<phase, charged, events, used, granted>>

Spec == Init /\ [][Next]_vars
=============================================================================
