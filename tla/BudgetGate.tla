------------------------------ MODULE BudgetGate ------------------------------
(***************************************************************************)
(* One tenant's budget: BudgetRegistry::is_within_budget and record          *)
(* (src/budget/mod.rs) over the tenant's SlidingWindowCounter, called by     *)
(* concurrent requests that read the clock and then run the counter's        *)
(* lock-free code.  The configured limit does not change here.               *)
(*                                                                           *)
(* A call is stamped with the clock when it starts; how long it then takes   *)
(* is left to the scheduler.  now_ms is the wall clock, which an operator or *)
(* NTP may set back.                                                         *)
(***************************************************************************)
EXTENDS SlidingWindow, FiniteSets

CONSTANTS MaxTokens,  \* the tenant's limit
          MaxAmount,  \* the cost of the most expensive chunk
          StartTime,  \* the clock when the counter is created
          MaxTime,    \* bound: the clock stops here
          MaxBack,    \* bound: how often the clock is set back
          MaxCalls    \* bound: the number of calls, and of times the clock is set back

ASSUME GateOK == /\ IsFiniteSet(Threads) /\ Threads # {}
                 /\ {MaxTokens, MaxAmount, MaxBack, MaxCalls} \subseteq Nat
                 /\ Amounts \subseteq 0 .. MaxAmount
                 /\ {StartTime, MaxTime} \subseteq Nat /\ StartTime <= MaxTime
                 /\ StartTime .. MaxTime \subseteq Times

\* A count saturates at u32::MAX: a limit from there on cannot be reached.
ASSUME LimitCounts == MaxTokens < CountMax

VARIABLES clock,      \* now_ms()
          back,       \* how often the clock was set back
          op,         \* op[t]: the registry operation t runs
          calls,      \* number of calls so far
          stamped,    \* the buckets a record was stamped in
          offered,    \* offered[b]: amounts of the records stamped in bucket b
          onTime,     \* onTime[b]: amounts granted while current was bucket b
          late,       \* late[b]: amounts granted after current had left b
          reached     \* reached[t]: the limit was reached when t's check started

registry == <<op, calls, stamped, offered, onTime, late, reached>>
gateVars == <<vars, clock, back, registry>>

\* The bucket a caller means, before the index wraps around.
TrueBucket(n) == n \div Window
TrueBuckets == TrueBucket(StartTime) .. TrueBucket(MaxTime)

\* The bucket index, as the counter's words hold it.
Index(b) == b % IndexMod

Nothing == [b \in TrueBuckets |-> 0]

GateInit == /\ Init
            /\ clock = StartTime
            /\ back = 0
            /\ op = [t \in Threads |-> "none"]
            /\ calls = 0
            /\ stamped = {}
            /\ offered = Nothing
            /\ onTime = Nothing
            /\ late = Nothing
            /\ reached = [t \in Threads |-> FALSE]

Tick == /\ clock < MaxTime
        /\ clock' = clock + 1
        /\ UNCHANGED <<vars, back, registry>>

SetBack == /\ back < MaxBack
           /\ calls + back < MaxCalls
           /\ clock' \in StartTime .. clock - 1
           /\ back' = back + 1
           /\ UNCHANGED <<vars, registry>>

\* process_event records every event, and most cost nothing: a is often 0.
StartRecord(t, a) == /\ calls + back < MaxCalls
                     /\ CallAdd(t, clock, a)
                     /\ op' = [op EXCEPT ![t] = "record"]
                     /\ calls' = calls + 1
                     /\ stamped' = stamped \cup {TrueBucket(clock)}
                     /\ offered' = [offered EXCEPT ![TrueBucket(clock)] = @ + a]
                     /\ UNCHANGED <<clock, back, onTime, late, reached>>

\* What was granted in a bucket has reached the limit.
LimitReached(b) == onTime[b] + late[b] >= MaxTokens

StartCheck(t) == /\ calls + back < MaxCalls
                 /\ CallEstimate(t, clock)
                 /\ op' = [op EXCEPT ![t] = "is_within_budget"]
                 /\ calls' = calls + 1
                 /\ reached' = [reached EXCEPT ![t] = LimitReached(TrueBucket(clock))]
                 /\ UNCHANGED <<clock, back, stamped, offered, onTime, late>>

\* The counter's own steps.
Run(t) == /\ Step(t)
          /\ pc[t] # "readPrevious"
          /\ UNCHANGED <<clock, back, registry>>

\* Mutant: record judges the usage before the add.
VerdictBeforeAdd(t) == IF op[t] = "record" THEN Returned(t) - arg[t].amount <= MaxTokens
                       ELSE Returned(t) < MaxTokens

\* Mutant: is_within_budget still admits a tenant that is at its limit.
VerdictAdmitsAtLimit(t) == Returned(t) <= MaxTokens

\* record returns Ok(total <= max_tokens), is_within_budget Ok(total < max_tokens).
Verdict(t) == IF op[t] = "record" THEN Returned(t) <= MaxTokens
              ELSE Returned(t) < MaxTokens

Granted(t) == op[t] = "record" /\ Verdict(t)

\* The newest bucket was still the caller's own when it read it.
OnTime(t) == word[t].index = MyBucket(t)

Add(f, b, a) == [f EXCEPT ![b] = @ + a]

Finish(t) ==
    /\ ReadPrevious(t)
    /\ op' = [op EXCEPT ![t] = "none"]
    /\ LET b == TrueBucket(arg[t].now)
           a == arg[t].amount
       IN  /\ onTime' = IF Granted(t) /\ OnTime(t) THEN Add(onTime, b, a) ELSE onTime
           /\ late' = IF Granted(t) /\ ~OnTime(t) THEN Add(late, b, a) ELSE late
    /\ reached' = [reached EXCEPT ![t] = FALSE]
    /\ UNCHANGED <<clock, back, calls, stamped, offered>>

GateNext == \/ Tick
            \/ SetBack
            \/ \E t \in Threads : \/ \E a \in Amounts : StartRecord(t, a)
                                  \/ StartCheck(t)
                                  \/ Run(t)
                                  \/ Finish(t)

GateSpec == GateInit /\ [][GateNext]_gateVars

-----------------------------------------------------------------------------
\* README, "The budget": a request is cut off the moment it would exceed its
\* budget.  What record grants in a bucket, to callers that still find
\* current there, never exceeds the limit, however many race and however the
\* clock was set.
OnTimeGrantsWithinLimit == \A b \in TrueBuckets : onTime[b] <= MaxTokens

\* A caller delayed until current has left its bucket is granted whatever it
\* asks (its estimate is 0), but each of the other callers can be caught
\* this way once per bucket: the overshoot is one chunk for each of them.  A
\* clock that was set back makes every caller late, and voids the bound.
OvershootBounded ==
    back = 0 => \A b \in TrueBuckets :
       onTime[b] + late[b] <= MaxTokens + (Cardinality(Threads) - 1) * MaxAmount

\* tests/budget_concurrency_test.rs:45-50 and the design spec: concurrent
\* callers push the total at most one chunk past the ceiling.
OvershootAtMostOneChunk ==
    \A b \in TrueBuckets : onTime[b] + late[b] <= MaxTokens + MaxAmount

\* What a slot holds of bucket b.
CountOf(s, b) == IF s.index = Index(b) THEN s.count ELSE 0

\* Once no call is running, the counter is at the newest bucket any record was
\* stamped in, even one that cost nothing, and holds exactly what was offered
\* there and in the bucket before: no racing add, rollover, idle gap, late
\* caller or clock that was set back has lost or doubled anything.
SettledCountsExact ==
    (stamped # {} /\ \A t \in Threads : pc[t] = "idle")
       => \E newest \in stamped :
             /\ \A b \in stamped : b <= newest
             /\ current = Slots(Index(newest), Clamp(offered[newest]))
             /\ newest - 1 \in TrueBuckets =>
                   CountOf(previous, newest - 1) = Clamp(offered[newest - 1])

\* The comment at sliding_window.rs:112-117: an add that moves current forward
\* must never be dropped, which would freeze the limiter fail-open.  So what a
\* finished record granted in the newest bucket is in current.
NeverFrozen ==
    \A b \in TrueBuckets :
       (onTime[b] + late[b] > 0 /\ \A c \in stamped : c <= b)
          => current.index = Index(b) /\ current.count > 0

\* A verdict against the tenant is never the product of a torn read of the two
\* slots or of a carry counted twice: the amounts offered in the caller's
\* bucket and the one before it really reach the limit.
Refused(t) == pc[t] = "readPrevious" /\ pc'[t] = "idle" /\ ~Verdict(t)

OfferedAround(b) == offered[b] + (IF b - 1 \in TrueBuckets THEN offered[b - 1] ELSE 0)

RefusalsJustified ==
    [][\A t \in Threads : Refused(t) =>
          LET sum == OfferedAround(TrueBucket(arg[t].now))
          IN  IF op[t] = "record" THEN sum > MaxTokens ELSE sum >= MaxTokens]_gateVars

\* budget/mod.rs:78-82, a tenant is blocked by the next admission check: once what
\* was granted in the current bucket has reached the limit, a check that
\* starts there does not admit the tenant, whatever records, rollovers and
\* late merges race with its two loads - unless current has moved past its
\* bucket before it looked, and its estimate is 0.
Admitted(t) == /\ op[t] = "is_within_budget"
               /\ pc[t] = "readPrevious" /\ pc'[t] = "idle"
               /\ Verdict(t)

Overtaken(t) == IsAhead(word[t].index, MyBucket(t))

NoAdmissionAtLimit ==
    [][\A t \in Threads : Admitted(t) /\ reached[t] => Overtaken(t)]_gateVars
=============================================================================
