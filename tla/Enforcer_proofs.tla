--------------------------- MODULE Enforcer_proofs ---------------------------
(***************************************************************************)
(* Proofs that the enforcer, for any number of streams of a tenant, any      *)
(* events and any limit, pushes one usage event per finished stream, never   *)
(* forwards more than the limit, charges at least what it reports, and       *)
(* forwards a stream's events in order and without a gap, but none that      *)
(* calls a blocked tool.                                                     *)
(***************************************************************************)
EXTENDS Enforcer, SequenceTheorems, InductionTheorems, TLAPS

-----------------------------------------------------------------------------
(* The telemetry.                                                            *)

\* emit leaves one event, well formed, whether or not it was called before.
LEMMA EmitOnce ==
  ASSUME TypeOK, NEW s \in Streams, NEW outcome \in Outcomes,
         NEW pushed \in Seq(UsageEvents), Len(pushed) \in {0, 1}
  PROVE  /\ Emit(pushed, s, outcome) \in Seq(UsageEvents)
         /\ Len(Emit(pushed, s, outcome)) = 1
<1> DEFINE u == [outcome |-> outcome, tokens |-> recorded[s], tools |-> toolsSeen[s]]
<1>1. u \in UsageEvents
  BY DEF TypeOK, UsageEvents
<1>2. CASE pushed = <<>>
  <2>1. Emit(pushed, s, outcome) = Append(pushed, u)
    BY <1>2 DEF Emit
  <2>2. Emit(pushed, s, outcome) = <<u>>
    BY <1>2, <2>1
  <2> HIDE DEF u
  <2> QED
    BY <1>1, <2>2
<1>3. CASE pushed # <<>>
  <2>1. Len(pushed) = 1
    BY <1>3
  <2> QED
    BY <1>3, <2>1 DEF Emit
<1> QED
  BY <1>2, <1>3

\* A sequence of usage events of length zero is the empty one.
LEMMA NoneReported == \A q \in Seq(UsageEvents) : Len(q) = 0 => q = <<>>
  OBVIOUS

\* A sequence of length one is not empty.
LEMMA FilledSeq == \A q \in Seq(UsageEvents) : Len(q) = 1 => q # <<>>
  OBVIOUS

\* Dropping the telemetry leaves one event too.
LEMMA DropEmits ==
  ASSUME TypeOK, NEW s \in Streams,
         NEW pushed \in Seq(UsageEvents), Len(pushed) \in {0, 1}
  PROVE  /\ DropTelemetry(pushed, s) \in Seq(UsageEvents)
         /\ Len(DropTelemetry(pushed, s)) = 1
  BY EmitOnce DEF DropTelemetry, Outcomes

\* A terminal path leaves one event of a stream that had none, and those of
\* the other streams as they were.
LEMMA FinishEmits ==
  ASSUME TypeOK, NEW s \in Streams, NEW outcome \in Outcomes,
         Len(events[s]) \in {0, 1}, Finish(s, outcome)
  PROVE  /\ pc' = [pc EXCEPT ![s] = "done"]
         /\ events' \in [Streams -> Seq(UsageEvents)]
         /\ Len(events'[s]) = 1
         /\ \A t \in Streams \ {s} : events'[t] = events[t]
<1>1. events[s] \in Seq(UsageEvents)
  BY DEF TypeOK
<1> DEFINE once == Emit(events[s], s, outcome)
           twice == DropTelemetry(once, s)
<1>2. once \in Seq(UsageEvents) /\ Len(once) = 1
  BY <1>1, EmitOnce
<1>3. twice \in Seq(UsageEvents) /\ Len(twice) = 1
  BY <1>2, DropEmits
<1>4. events' = [events EXCEPT ![s] = twice]
  BY DEF Finish
<1> HIDE DEF twice, once
<1> QED
  BY <1>3, <1>4 DEF TypeOK, Finish

-----------------------------------------------------------------------------
(* The arithmetic of process_event.                                          *)

\* A cost is a number, and charging it keeps what is charged at or above what
\* is reported.
LEMMA DeltaCovers ==
  ASSUME NEW e \in Events, NEW r \in Nat, NEW c \in Nat
  PROVE  /\ Delta(e, r) \in Nat
         /\ NewRecorded(e, r) \in Nat
         /\ c >= r => c + Delta(e, r) >= NewRecorded(e, r)
<1>1. e.est \in Nat /\ (e.total = NoTotal \/ e.total \in Nat)
  BY EnforcerOK DEF IsCost
<1>2. CASE e.total = NoTotal
  BY <1>1, <1>2 DEF Delta, NewRecorded
<1>3. CASE e.total # NoTotal
  <2>1. PICK total \in Nat : total = e.total
    BY <1>1, <1>3
  <2>2. NewRecorded(e, r) = total /\ Delta(e, r) = IF total > r THEN total - r ELSE 0
    BY <1>3, <2>1 DEF Delta, NewRecorded
  <2> QED
    BY <2>2
<1> QED
  BY <1>2, <1>3

\* What a read, a flush or the loop over the events of a read does to a queue.
LEMMA QueueOps ==
  /\ \A q \in Seq(Events) : q # <<>> => Head(q) \in Events /\ Tail(q) \in Seq(Events)
  /\ \A es \in UpTo(Events, 2) : es \in Seq(Events)
  /\ \A q, es \in Seq(Events) : q \o es \in Seq(Events)
  /\ \A e \in Events : <<e>> \in Seq(Events) /\ <<e>> # <<>>
  /\ \A q \in Seq(Events), e \in Events : Append(q, e) \in Seq(Events)
<1>1. \A q \in Seq(Events) : q # <<>> => Head(q) \in Events /\ Tail(q) \in Seq(Events)
  OBVIOUS
<1>2. \A es \in UpTo(Events, 2) : es \in Seq(Events)
  <2>1. \A m \in Nat : \A es \in [1 .. m -> Events] : es \in Seq(Events)
    OBVIOUS
  <2> SUFFICES ASSUME NEW es \in UpTo(Events, 2)
               PROVE  es \in Seq(Events)
    OBVIOUS
  <2>2. PICK m \in 0 .. 2 : es \in [1 .. m -> Events]
    BY DEF UpTo
  <2> QED
    BY <2>1, <2>2
<1>3. \A q, es \in Seq(Events) : q \o es \in Seq(Events)
  OBVIOUS
<1>4. \A e \in Events : <<e>> \in Seq(Events) /\ <<e>> # <<>>
  OBVIOUS
<1>5. \A q \in Seq(Events), e \in Events : Append(q, e) \in Seq(Events)
  OBVIOUS
<1> QED
  BY <1>1, <1>2, <1>3, <1>4, <1>5

\* Every item the generator yields is an item of the protocol.
LEMMA YieldKeeps ==
  ASSUME TypeOK, NEW s \in Streams, NEW item \in Items, NEW next, Yield(s, item, next)
  PROVE  sent' \in [Streams -> Seq(Items)]
<1>1. Append(sent[s], item) \in Seq(Items)
  BY DEF TypeOK
<1> QED
  BY <1>1 DEF TypeOK, Yield

\* The tools noted for an event are tools.
LEMMA ToolsAreTools == \A e \in Events : ToolsScanned(e) \subseteq Tools
<1> SUFFICES ASSUME NEW e \in Events
             PROVE  ToolsScanned(e) \subseteq Tools
  OBVIOUS
<1>1. e.tools \in Seq(Tools)
  BY EnforcerOK DEF IsCost
<1>2. \A i \in DOMAIN e.tools : e.tools[i] \in Tools
  BY <1>1
<1> QED
  BY <1>2 DEF ToolsScanned

\* Events and notices are items.
LEMMA ItemsMade == /\ \A e \in Events : EventItem(e) \in Items
                   /\ \A k \in {"error", "policy_violation", "budget_exceeded"} :
                         CutOff(k) \in Items
  BY DEF EventItem, CutOff, Items

-----------------------------------------------------------------------------
(* Types and events.                                                         *)

\* What follows a cut-off is only the end, and what follows the end of the
\* upstream only the rest of the events.
NoWayBack ==
    \A s \in Streams : /\ pending[s] # "next" => pc[s] \in {"yielded", "done"}
                       /\ ended[s] => pc[s] \in {"processing", "yielded", "done"}

\* The budget: the streams forward no more than was charged for them.
GrantsCharged == granted <= used /\ granted <= MaxTokens

\* The inductive invariant.
Inv == /\ TypeOK
       /\ ExactlyOneEvent
       /\ NoWayBack
       /\ GrantsCharged
       /\ ChargedCoversRecorded

\* Initially nothing has happened.
LEMMA InitInv == Init => Inv
<1> SUFFICES ASSUME Init
             PROVE  Inv
  OBVIOUS
<1>1. <<>> \in Seq(UsageEvents) /\ <<>> \in Seq(Events) /\ <<>> \in Seq(Items)
  OBVIOUS
<1>2. TypeOK
  BY <1>1 DEF Init, TypeOK
<1>3. ExactlyOneEvent
  BY DEF Init, ExactlyOneEvent
<1>4. NoWayBack
  BY DEF Init, NoWayBack
<1>5. GrantsCharged
  BY EnforcerOK DEF Init, GrantsCharged
<1>6. ChargedCoversRecorded
  <2>1. \A s \in Streams : charged[s] \in Nat /\ recorded[s] = charged[s]
    BY DEF Init
  <2>2. \A n \in Nat : n >= n
    OBVIOUS
  <2> QED
    BY <2>1, <2>2 DEF ChargedCoversRecorded
<1> QED
  BY <1>2, <1>3, <1>4, <1>5, <1>6 DEF Inv

\* Every step keeps the types: process_event and the yields in particular.
LEMMA TypeStep == Inv /\ [Next]_vars => TypeOK'
<1> SUFFICES ASSUME TypeOK, ExactlyOneEvent, NoWayBack, [Next]_vars
             PROVE  TypeOK'
  BY DEF Inv
<1>0. \A s \in Streams : Len(events[s]) \in {0, 1} /\ events[s] \in Seq(UsageEvents)
  BY DEF ExactlyOneEvent, TypeOK
<1>1. ASSUME NEW s \in Streams, FirstPoll(s)
      PROVE  TypeOK'
  BY <1>1 DEF FirstPoll, TypeOK, history
<1>2. ASSUME NEW s \in Streams, PolicyTrip(s)
      PROVE  TypeOK'
  <2>1. Head(queue[s]) \in Events /\ Tail(queue[s]) \in Seq(Events)
    BY <1>2, QueueOps DEF PolicyTrip, TakeHead, TypeOK
  <2>2. sent' \in [Streams -> Seq(Items)]
    BY <1>2, YieldKeeps, ItemsMade DEF PolicyTrip
  <2>3. ToolsScanned(Head(queue[s])) \subseteq Tools
    BY <2>1, ToolsAreTools
  <2> QED
    BY <1>2, <2>1, <2>2, <2>3 DEF PolicyTrip, TakeHead, Yield, TypeOK
<1>3. ASSUME NEW s \in Streams, Charge(s)
      PROVE  TypeOK'
  <2> DEFINE e == Head(queue[s])
             delta == Delta(e, recorded[s])
  <2>1. e \in Events /\ Tail(queue[s]) \in Seq(Events)
    BY <1>3, QueueOps DEF Charge, TakeHead, TypeOK
  <2>2. sent' \in [Streams -> Seq(Items)]
    BY <1>3, <2>1, YieldKeeps, ItemsMade DEF Charge
  <2>3. ToolsScanned(e) \subseteq Tools
    BY <2>1, ToolsAreTools
  <2>4. delta \in Nat /\ NewRecorded(e, recorded[s]) \in Nat
    BY <2>1, DeltaCovers DEF TypeOK
  <2>5. /\ recorded' = [recorded EXCEPT ![s] = NewRecorded(e, recorded[s])]
        /\ used' = used + delta
        /\ charged' = [charged EXCEPT ![s] = charged[s] + delta]
        /\ granted' \in {granted, granted + delta}
        /\ pending' \in {[pending EXCEPT ![s] = "next"],
                          [pending EXCEPT ![s] = "BudgetBlocked"]}
        /\ pc' = [pc EXCEPT ![s] = "yielded"]
        /\ TakeHead(s)
    BY <1>3 DEF Charge, Yield
  <2> HIDE DEF delta, e
  <2>6. /\ recorded' \in [Streams -> Nat] /\ used' \in Nat
        /\ charged' \in [Streams -> Nat] /\ granted' \in Nat
    BY <2>4, <2>5 DEF TypeOK
  <2>7. toolsSeen' \in [Streams -> SUBSET Tools] /\ queue' \in [Streams -> Seq(Events)]
    BY <2>1, <2>3, <2>5 DEF TakeHead, TypeOK, e
  <2> QED
    BY <2>2, <2>5, <2>6, <2>7 DEF TakeHead, TypeOK
<1>4. ASSUME NEW s \in Streams, ChargeFails(s)
      PROVE  TypeOK'
  <2> DEFINE e == Head(queue[s])
  <2>1. e \in Events /\ Tail(queue[s]) \in Seq(Events)
    BY <1>4, QueueOps DEF ChargeFails, TakeHead, TypeOK
  <2>2. sent' \in [Streams -> Seq(Items)]
    BY <1>4, YieldKeeps, ItemsMade DEF ChargeFails
  <2>3. ToolsScanned(e) \subseteq Tools
    BY <2>1, ToolsAreTools
  <2>4. NewRecorded(e, recorded[s]) \in Nat
    BY <2>1, DeltaCovers DEF TypeOK
  <2> QED
    BY <1>4, <2>1, <2>2, <2>3, <2>4 DEF ChargeFails, TakeHead, Yield, TypeOK
<1>5. ASSUME NEW s \in Streams, Continue(s)
      PROVE  TypeOK'
  <2>1. events' \in [Streams -> Seq(UsageEvents)]
    BY <1>0, <1>5, FinishEmits DEF Continue, Outcomes, TypeOK
  <2> QED
    BY <1>5, <2>1 DEF Continue, Finish, TypeOK, history
<1>6. ASSUME NEW s \in Streams, Conclude(s)
      PROVE  TypeOK'
  <2>1. pending[s] \in Outcomes
    BY <1>6 DEF Conclude, Outcomes, TypeOK
  <2>2. events' \in [Streams -> Seq(UsageEvents)]
    BY <1>0, <1>6, <2>1, FinishEmits DEF Conclude
  <2> QED
    BY <1>6, <2>2 DEF Conclude, Finish, TypeOK, history
<1>7. ASSUME NEW s \in Streams, NEW es \in UpTo(Events, 2), Read(s, es)
      PROVE  TypeOK'
  <2>1. es \in Seq(Events) /\ received[s] \o es \in Seq(Events)
    BY QueueOps DEF TypeOK
  <2>2. ~ended[s]
    BY <1>7 DEF Read, NoWayBack
  <2> QED
    BY <1>7, <2>1, <2>2 DEF Read, TypeOK
<1>8. ASSUME NEW s \in Streams, ReadError(s)
      PROVE  TypeOK'
  <2>1. sent' \in [Streams -> Seq(Items)]
    BY <1>8, YieldKeeps, ItemsMade DEF ReadError
  <2> QED
    BY <1>8, <2>1 DEF ReadError, Yield, TypeOK
<1>9. ASSUME NEW s \in Streams, EndEmpty(s)
      PROVE  TypeOK'
  <2>1. events' \in [Streams -> Seq(UsageEvents)]
    BY <1>0, <1>9, FinishEmits DEF EndEmpty, Outcomes
  <2> QED
    BY <1>9, <2>1 DEF EndEmpty, Finish, TypeOK, history
<1>10. ASSUME NEW s \in Streams, NEW e \in Events, EndFlush(s, e)
       PROVE  TypeOK'
  <2>1. <<e>> \in Seq(Events) /\ <<e>> # <<>> /\ Append(received[s], e) \in Seq(Events)
    BY QueueOps DEF TypeOK
  <2> QED
    BY <1>10, <2>1 DEF EndFlush, TypeOK
<1>11. ASSUME NEW s \in Streams, Drop(s)
       PROVE  TypeOK'
  <2>1. DropTelemetry(events[s], s) \in Seq(UsageEvents)
    BY <1>0, DropEmits
  <2> QED
    BY <1>11, <2>1 DEF Drop, TypeOK, history
<1>12. ASSUME NEW s \in Streams, DropUnpolled(s) \/ Disconnect(s)
       PROVE  TypeOK'
  BY <1>12 DEF DropUnpolled, Disconnect, TypeOK, history, generator
<1>13. ASSUME Reload \/ UNCHANGED vars
       PROVE  TypeOK'
  BY <1>13 DEF Reload, TypeOK, vars, history, generator
<1> QED
  BY <1>1, <1>2, <1>3, <1>4, <1>5, <1>6, <1>7, <1>8, <1>9, <1>10, <1>11, <1>12, <1>13
     DEF Next, Poll, Process, Upstream, AllDone
\* One usage event when a stream is over, and none before.
LEMMA EventStep == Inv /\ [Next]_vars => ExactlyOneEvent'
<1> SUFFICES ASSUME TypeOK, ExactlyOneEvent, [Next]_vars
             PROVE  ExactlyOneEvent'
  BY DEF Inv
<1>0. \A s \in Streams : Len(events[s]) \in {0, 1} /\ events[s] \in Seq(UsageEvents)
  BY DEF ExactlyOneEvent, TypeOK
<1>1. ASSUME NEW s \in Streams, NEW outcome \in Outcomes, Finish(s, outcome)
      PROVE  ExactlyOneEvent'
  <2>1. /\ pc' = [pc EXCEPT ![s] = "done"]
        /\ Len(events'[s]) = 1
        /\ \A t \in Streams \ {s} : events'[t] = events[t]
    BY <1>0, <1>1, FinishEmits
  <2> QED
    BY <2>1 DEF ExactlyOneEvent, TypeOK
<1>2. ASSUME NEW s \in Streams, UNCHANGED events, pc[s] # "done",
             NEW next \in {"reading", "processing", "yielded", "abandoned"},
             pc' = [pc EXCEPT ![s] = next]
      PROVE  ExactlyOneEvent'
  BY <1>2 DEF ExactlyOneEvent, TypeOK
<1>3. ASSUME UNCHANGED <<pc, events>>
      PROVE  ExactlyOneEvent'
  BY <1>3 DEF ExactlyOneEvent
<1>4. ASSUME NEW s \in Streams, FirstPoll(s) \/ DropUnpolled(s)
      PROVE  ExactlyOneEvent'
  BY <1>2, <1>4 DEF FirstPoll, DropUnpolled
<1>5. ASSUME NEW s \in Streams, Process(s)
      PROVE  ExactlyOneEvent'
  BY <1>2, <1>5 DEF Process, PolicyTrip, Charge, ChargeFails, TakeHead, Yield
<1>6. ASSUME NEW s \in Streams, Continue(s)
      PROVE  ExactlyOneEvent'
  BY <1>1, <1>2, <1>6 DEF Continue, Outcomes
<1>7. ASSUME NEW s \in Streams, Conclude(s)
      PROVE  ExactlyOneEvent'
  <2>1. pending[s] \in Outcomes
    BY <1>7 DEF Conclude, Outcomes, TypeOK
  <2> QED
    BY <1>1, <1>7, <2>1 DEF Conclude
<1>8. ASSUME NEW s \in Streams, Upstream(s)
      PROVE  ExactlyOneEvent'
  <2>1. ASSUME NEW es \in UpTo(Events, 2), Read(s, es)
        PROVE  ExactlyOneEvent'
    BY <1>2, <2>1 DEF Read
  <2>2. ASSUME ReadError(s)
        PROVE  ExactlyOneEvent'
    BY <1>2, <2>2 DEF ReadError, Yield
  <2>3. ASSUME EndEmpty(s)
        PROVE  ExactlyOneEvent'
    BY <1>1, <2>3 DEF EndEmpty, Outcomes
  <2>4. ASSUME NEW e \in Events, EndFlush(s, e)
        PROVE  ExactlyOneEvent'
    BY <1>2, <2>4 DEF EndFlush
  <2> QED
    BY <1>8, <2>1, <2>2, <2>3, <2>4 DEF Upstream
<1>9. ASSUME NEW s \in Streams, Drop(s)
      PROVE  ExactlyOneEvent'
  <2>1. Len(DropTelemetry(events[s], s)) = 1
    BY <1>0, DropEmits
  <2> QED
    BY <1>9, <2>1 DEF Drop, ExactlyOneEvent, TypeOK
<1>10. ASSUME \/ \E s \in Streams : Disconnect(s)
              \/ Reload
              \/ UNCHANGED vars
       PROVE  ExactlyOneEvent'
  BY <1>3, <1>10 DEF Disconnect, Reload, vars, generator
<1> QED
  BY <1>4, <1>5, <1>6, <1>7, <1>8, <1>9, <1>10 DEF Next, Poll, AllDone

\* A cut-off and the end of the upstream are final.
LEMMA NoWayBackStep == Inv /\ [Next]_vars => NoWayBack'
<1> SUFFICES ASSUME TypeOK, NoWayBack, [Next]_vars
             PROVE  NoWayBack'
  BY DEF Inv
<1>0. DOMAIN pc = Streams /\ DOMAIN pending = Streams /\ DOMAIN ended = Streams
  BY DEF TypeOK
<1>1. ASSUME NEW s \in Streams, NEW next \in {"yielded", "done"},
             pc' = [pc EXCEPT ![s] = next],
             \A t \in Streams \ {s} : pending'[t] = pending[t] /\ ended'[t] = ended[t]
      PROVE  NoWayBack'
  BY <1>0, <1>1 DEF NoWayBack
<1>2. ASSUME NEW s \in Streams, NEW next,
             pc' = [pc EXCEPT ![s] = next], UNCHANGED <<pending, ended>>,
             pending[s] = "next", ended[s] => next \in {"processing", "done"}
      PROVE  NoWayBack'
  BY <1>0, <1>2 DEF NoWayBack
<1>3. ASSUME UNCHANGED <<pc, pending, ended>>
      PROVE  NoWayBack'
  BY <1>3 DEF NoWayBack
<1>4. ASSUME NEW s \in Streams, FirstPoll(s) \/ DropUnpolled(s)
      PROVE  NoWayBack'
  <2>1. pending[s] = "next" /\ ~ended[s]
    BY <1>4 DEF FirstPoll, DropUnpolled, NoWayBack
  <2> QED
    BY <1>2, <1>4, <2>1 DEF FirstPoll, DropUnpolled
<1>5. ASSUME NEW s \in Streams, Process(s)
      PROVE  NoWayBack'
  <2>1. pc' = [pc EXCEPT ![s] = "yielded"] /\ UNCHANGED ended
    BY <1>5 DEF Process, PolicyTrip, Charge, ChargeFails, TakeHead, Yield
  <2>2. \E next : pending' = [pending EXCEPT ![s] = next]
    BY <1>5 DEF Process, PolicyTrip, Charge, ChargeFails, Yield
  <2> QED
    BY <1>0, <1>1, <2>1, <2>2
<1>6. ASSUME NEW s \in Streams, Continue(s)
      PROVE  NoWayBack'
  <2>1. /\ pending[s] = "next" /\ UNCHANGED <<pending, ended>>
        /\ \E next \in {"processing", "reading", "done"} :
              pc' = [pc EXCEPT ![s] = next] /\ (ended[s] => next # "reading")
    BY <1>6 DEF Continue, Finish
  <2> QED
    BY <1>2, <2>1
<1>7. ASSUME NEW s \in Streams, Conclude(s) \/ Drop(s)
      PROVE  NoWayBack'
  <2>1. pc' = [pc EXCEPT ![s] = "done"] /\ UNCHANGED <<pending, ended>>
    BY <1>7 DEF Conclude, Drop, Finish
  <2> QED
    BY <1>1, <2>1
<1>8. ASSUME NEW s \in Streams, NEW es \in UpTo(Events, 2), Read(s, es)
      PROVE  NoWayBack'
  <2>1. pending[s] = "next" /\ ~ended[s]
    BY <1>8 DEF Read, NoWayBack
  <2>2. UNCHANGED <<pending, ended>> /\ \E next : pc' = [pc EXCEPT ![s] = next]
    BY <1>8 DEF Read
  <2> QED
    BY <1>2, <2>1, <2>2
<1>9. ASSUME NEW s \in Streams, ReadError(s)
      PROVE  NoWayBack'
  <2>1. /\ pc' = [pc EXCEPT ![s] = "yielded"] /\ UNCHANGED ended
        /\ pending' = [pending EXCEPT ![s] = "UpstreamError"]
    BY <1>9 DEF ReadError, Yield
  <2> QED
    BY <1>0, <1>1, <2>1
<1>10. ASSUME NEW s \in Streams, EndEmpty(s)
       PROVE  NoWayBack'
  <2>1. /\ pc' = [pc EXCEPT ![s] = "done"] /\ UNCHANGED pending
        /\ ended' = [ended EXCEPT ![s] = TRUE]
    BY <1>10 DEF EndEmpty, Finish
  <2> QED
    BY <1>0, <1>1, <2>1
<1>11. ASSUME NEW s \in Streams, NEW e \in Events, EndFlush(s, e)
       PROVE  NoWayBack'
  <2>1. pending[s] = "next"
    BY <1>11 DEF EndFlush, NoWayBack
  <2>2. /\ pc' = [pc EXCEPT ![s] = "processing"] /\ UNCHANGED pending
        /\ ended' = [ended EXCEPT ![s] = TRUE]
    BY <1>11 DEF EndFlush
  <2> QED
    BY <1>0, <2>1, <2>2 DEF NoWayBack
<1>12. ASSUME \/ \E s \in Streams : Disconnect(s)
              \/ Reload
              \/ UNCHANGED vars
       PROVE  NoWayBack'
  BY <1>3, <1>12 DEF Disconnect, Reload, vars, generator
<1> QED
  BY <1>4, <1>5, <1>6, <1>7, <1>8, <1>9, <1>10, <1>11, <1>12
     DEF Next, Poll, Upstream, AllDone

\* Only Charge touches the budget, the charges and what is forwarded.
LEMMA OnlyCharge ==
  ASSUME [Next]_vars, \A s \in Streams : ~Charge(s)
  PROVE  UNCHANGED <<used, granted, charged>>
  BY DEF Next, Poll, Upstream, Process, FirstPoll, PolicyTrip, ChargeFails, Continue,
         Conclude, Read, ReadError, EndEmpty, EndFlush, Drop, DropUnpolled, Disconnect,
         Reload, AllDone, vars, history

\* The registry judges the usage with the event's cost added to it.
LEMMA GrantStep == Inv /\ [Next]_vars => GrantsCharged'
<1> SUFFICES ASSUME TypeOK, GrantsCharged, [Next]_vars
             PROVE  GrantsCharged'
  BY DEF Inv
<1>1. CASE \A s \in Streams : ~Charge(s)
  BY <1>1, OnlyCharge DEF GrantsCharged
<1>2. ASSUME NEW s \in Streams, Charge(s)
      PROVE  GrantsCharged'
  <2> DEFINE delta == Delta(Head(queue[s]), recorded[s])
  <2>1. delta \in Nat
    BY <1>2, QueueOps, DeltaCovers DEF Charge, TakeHead, TypeOK
  <2>2. /\ used' = used + delta
        /\ \/ used + delta <= MaxTokens /\ granted' = granted + delta
           \/ granted' = granted
    BY <1>2 DEF Charge, WithinLimit
  <2> HIDE DEF delta
  <2> QED
    BY <2>1, <2>2, EnforcerOK DEF GrantsCharged, TypeOK
<1> QED
  BY <1>1, <1>2

\* What a stream reports it has charged: a total below the estimates lowers
\* the report and charges nothing, one above them charges the rest.
LEMMA ChargeStep == Inv /\ [Next]_vars => ChargedCoversRecorded'
<1> SUFFICES ASSUME TypeOK, NoWayBack, ChargedCoversRecorded, [Next]_vars
             PROVE  ChargedCoversRecorded'
  BY DEF Inv
<1>1. ASSUME NEW s \in Streams, Charge(s)
      PROVE  ChargedCoversRecorded'
  <2> DEFINE e == Head(queue[s])
             delta == Delta(e, recorded[s])
             report == NewRecorded(e, recorded[s])
  <2>1. e \in Events
    BY <1>1, QueueOps DEF Charge, TakeHead, TypeOK
  <2>2. pending[s] # "UpstreamError"
    BY <1>1 DEF Charge, TakeHead, NoWayBack
  <2>3. charged[s] >= recorded[s]
    BY <2>2 DEF ChargedCoversRecorded
  <2>4. charged[s] + delta >= report
    BY <2>1, <2>3, DeltaCovers DEF TypeOK
  <2>5. /\ recorded' = [recorded EXCEPT ![s] = report]
        /\ charged' = [charged EXCEPT ![s] = charged[s] + delta]
        /\ \A t \in Streams \ {s} : pending'[t] = pending[t]
    BY <1>1 DEF Charge, Yield, TypeOK
  <2> HIDE DEF delta, report, e
  <2> QED
    BY <2>4, <2>5 DEF ChargedCoversRecorded, TypeOK
<1>2. ASSUME NEW s \in Streams, ChargeFails(s)
      PROVE  ChargedCoversRecorded'
  BY <1>2 DEF ChargeFails, Yield, ChargedCoversRecorded, TypeOK
<1>3. ASSUME NEW s \in Streams, PolicyTrip(s)
      PROVE  ChargedCoversRecorded'
  <2>1. pending[s] # "UpstreamError"
    BY <1>3 DEF PolicyTrip, TakeHead, NoWayBack
  <2> QED
    BY <1>3, <2>1 DEF PolicyTrip, Yield, ChargedCoversRecorded, TypeOK
<1>4. ASSUME NEW s \in Streams, ReadError(s)
      PROVE  ChargedCoversRecorded'
  BY <1>4 DEF ReadError, Yield, ChargedCoversRecorded, TypeOK
<1>5. ASSUME UNCHANGED <<recorded, charged, pending>>
      PROVE  ChargedCoversRecorded'
  BY <1>5 DEF ChargedCoversRecorded
<1>6. ASSUME NEW s \in Streams,
             \/ FirstPoll(s) \/ Continue(s) \/ Conclude(s)
             \/ \E es \in UpTo(Events, 2) : Read(s, es)
             \/ EndEmpty(s)
             \/ \E e \in Events : EndFlush(s, e)
             \/ Drop(s) \/ DropUnpolled(s) \/ Disconnect(s)
      PROVE  ChargedCoversRecorded'
  BY <1>5, <1>6 DEF FirstPoll, Continue, Conclude, Read, EndEmpty, EndFlush, Drop,
                    DropUnpolled, Disconnect, history, generator
<1>7. CASE Reload \/ UNCHANGED vars
  BY <1>5, <1>7 DEF Reload, vars, history, generator
<1> QED
  BY <1>1, <1>2, <1>3, <1>4, <1>6, <1>7 DEF Next, Poll, Process, Upstream, AllDone

-----------------------------------------------------------------------------
(* The contract.                                                             *)

\* One event, seen through the refinement, is its outcome and its tokens.
LEMMA ReportOfOne ==
  ASSUME NEW u \in UsageEvents
  PROVE  [i \in DOMAIN <<u>> |-> Report(<<u>>[i])]
            = <<[outcome |-> u.outcome, tokens |-> u.tokens]>>
  BY DEF Report

\* Ending a stream that has reported nothing is a step of the contract.
LEMMA EndingReports ==
  ASSUME Inv, NEW s \in Streams, NEW outcome \in Outcomes,
         pc[s] \notin {"done", "abandoned", "unpolled"},
         \/ outcome = "Completed" /\ pending[s] = "next"
         \/ outcome = pending[s] /\ pending[s] # "next"
         \/ outcome = "Incomplete",
         pc' = [pc EXCEPT ![s] = "done"],
         events' = [events EXCEPT ![s] = Emit(@, s, outcome)],
         UNCHANGED <<pending, charged, used, granted>>
  PROVE  Contract!Report(s, outcome, recorded[s]) /\ Reports'[s][1].outcome = outcome
         /\ Reports'[s][1].tokens = recorded[s] /\ Reports'[s] # <<>>
<1> DEFINE u == [outcome |-> outcome, tokens |-> recorded[s], tools |-> toolsSeen[s]]
           report == [outcome |-> outcome, tokens |-> recorded[s]]
<1>1. events[s] = <<>>
  BY NoneReported DEF Inv, ExactlyOneEvent, TypeOK
<1>2. u \in UsageEvents
  BY DEF Inv, TypeOK, UsageEvents
<1>3. events' = [events EXCEPT ![s] = <<u>>]
  BY <1>1 DEF Emit
<1>4. Reports[s] = <<>>
  BY <1>1 DEF Reports
<1>5. Reports'[s] = <<report>>
  <2>1. events'[s] = <<u>>
    BY <1>3 DEF Inv, TypeOK
  <2>2. Reports'[s] = [i \in DOMAIN <<u>> |-> Report(<<u>>[i])]
    BY <2>1 DEF Reports
  <2> QED
    BY <1>2, <2>2, ReportOfOne
<1>6. Reports' = [Reports EXCEPT ![s] = Append(@, report)]
  <2>1. \A t \in Streams \ {s} : Reports'[t] = Reports[t]
    BY <1>3 DEF Reports, Inv, TypeOK
  <2>2. Append(Reports[s], report) = <<report>>
    BY <1>4
  <2> QED
    BY <1>5, <2>1, <2>2 DEF Reports
<1>7. Phases[s] = IF pending[s] = "next" THEN "open" ELSE pending[s]
  BY DEF Phases, Phase, Inv, TypeOK
<1>8. Phases' = [Phases EXCEPT ![s] = "over"]
  BY DEF Phases, Phase, Inv, TypeOK
<1>9. recorded[s] <= charged[s] \/ Phases[s] = "UpstreamError"
  BY <1>7 DEF Inv, ChargedCoversRecorded, TypeOK
<1>10. \/ Phases[s] = "open" /\ outcome = "Completed"
       \/ Phases[s] \in Contract!CutOffs /\ outcome = Phases[s]
       \/ Phases[s] \in Contract!CutOffs \cup {"open"} /\ outcome = "Incomplete"
  BY <1>7 DEF Contract!CutOffs, Inv, TypeOK
<1> HIDE DEF u
<1> QED
  BY <1>5, <1>6, <1>8, <1>9, <1>10 DEF Contract!Report, Contract!Enter

\* A terminal path is its emit: the drop that follows adds nothing.
LEMMA FinishIsEmit ==
  ASSUME Inv, NEW s \in Streams, NEW outcome \in Outcomes, Finish(s, outcome),
         pc[s] # "done"
  PROVE  /\ pc' = [pc EXCEPT ![s] = "done"]
         /\ events' = [events EXCEPT ![s] = Emit(@, s, outcome)]
<1>1. events[s] \in Seq(UsageEvents) /\ Len(events[s]) \in {0, 1}
  BY DEF Inv, TypeOK, ExactlyOneEvent
<1>2. Emit(events[s], s, outcome) \in Seq(UsageEvents) /\ Len(Emit(events[s], s, outcome)) = 1
  BY <1>1, EmitOnce DEF Inv
<1>3. Emit(events[s], s, outcome) # <<>>
  BY <1>2, FilledSeq
<1>4. \A e : e # <<>> => DropTelemetry(e, s) = e
  BY DEF DropTelemetry, Emit
<1>5. DropTelemetry(Emit(events[s], s, outcome), s) = Emit(events[s], s, outcome)
  BY <1>3, <1>4
<1>6. events' = [events EXCEPT ![s] = DropTelemetry(Emit(events[s], s, outcome), s)]
  BY DEF Finish
<1> QED
  BY <1>5, <1>6 DEF Finish

\* The initial states are the contract's.
LEMMA ContractInit == Init => Contract!Init
<1> SUFFICES ASSUME Init
             PROVE  Contract!Init
  OBVIOUS
<1>1. Phases = [s \in Streams |-> "unpolled"]
  BY DEF Init, Phases, Phase
<1>2. ASSUME NEW s \in Streams
      PROVE  Reports[s] = <<>>
  <2>1. events[s] = <<>>
    BY DEF Init
  <2> QED
    BY <2>1 DEF Reports
<1>3. Reports = [s \in Streams |-> <<>>]
  BY <1>2 DEF Reports
<1> QED
  BY <1>1, <1>3 DEF Contract!Init, Init

\* Every step of a stream is a step the contract allows, or none it sees.
LEMMA ContractStep == Inv /\ [Next]_vars => [Contract!Next]_(Contract!vars)
<1> SUFFICES ASSUME Inv, [Next]_vars
             PROVE  Contract!Next
  OBVIOUS
<1>0. TypeOK /\ NoWayBack
  BY DEF Inv
<1>a. ASSUME NEW s \in Streams, Contract!Step(s), UNCHANGED known
      PROVE  Contract!Next
  BY <1>a DEF Contract!Next
<1>b. ASSUME UNCHANGED <<Phases, charged, Reports, used, granted>>
      PROVE  Contract!Next
  BY <1>b DEF Contract!Next
<1>c. ASSUME NEW s \in Streams, NEW outcome \in Outcomes,
             pc[s] \in {"reading", "processing", "yielded"},
             \/ outcome = "Completed" /\ pending[s] = "next"
             \/ outcome = pending[s] /\ pending[s] # "next"
             \/ outcome = "Incomplete",
             pc' = [pc EXCEPT ![s] = "done"],
             events' = [events EXCEPT ![s] = Emit(@, s, outcome)],
             UNCHANGED <<pending, charged, used, granted, known>>
      PROVE  Contract!Next
  <2>1. /\ Contract!Report(s, outcome, recorded[s])
        /\ Reports'[s][1].outcome = outcome
        /\ Reports'[s][1].tokens = recorded[s]
        /\ Reports'[s] # <<>>
    BY <1>c, EndingReports
  <2>2. Contract!Step(s)
    BY <2>1 DEF Contract!Step
  <2> QED
    BY <1>a, <1>c, <2>2
<1>d. UNCHANGED events => UNCHANGED Reports
  BY DEF Reports
<1>1. ASSUME NEW s \in Streams, FirstPoll(s) \/ DropUnpolled(s)
      PROVE  Contract!Next
  <2>1. UNCHANGED <<charged, Reports, used, granted, known, pending>>
    BY <1>1, <1>d DEF FirstPoll, DropUnpolled, history
  <2>2. CASE FirstPoll(s)
    <3>1. Phases[s] = "unpolled" /\ Phases' = [Phases EXCEPT ![s] = "open"]
      BY <1>0, <2>1, <2>2 DEF FirstPoll, Phases, Phase, TypeOK, NoWayBack
    <3>2. Contract!Open(s)
      BY <2>1, <3>1 DEF Contract!Open, Contract!Enter
    <3> QED
      BY <1>a, <2>1, <3>2 DEF Contract!Step
  <2>3. CASE DropUnpolled(s)
    <3>1. Phases[s] = "unpolled" /\ Phases' = [Phases EXCEPT ![s] = "abandoned"]
      BY <1>0, <2>1, <2>3 DEF DropUnpolled, Phases, Phase, TypeOK
    <3>2. Contract!Abandon(s)
      BY <2>1, <3>1 DEF Contract!Abandon, Contract!Enter
    <3> QED
      BY <1>a, <2>1, <3>2 DEF Contract!Step
  <2> QED
    BY <1>1, <2>2, <2>3
<1>2. ASSUME NEW s \in Streams, NEW why \in {"PolicyBlocked", "UpstreamError"},
             pc[s] \in {"reading", "processing"},
             pc' = [pc EXCEPT ![s] = "yielded"],
             pending' = [pending EXCEPT ![s] = why],
             UNCHANGED <<events, charged, used, granted, known>>
      PROVE  Contract!Next
  <2>1. Phases[s] = "open" /\ Phases' = [Phases EXCEPT ![s] = why]
    BY <1>0, <1>2 DEF Phases, Phase, TypeOK, NoWayBack
  <2>2. Contract!CutOff(s, why)
    BY <1>2, <1>d, <2>1 DEF Contract!CutOff, Contract!Enter
  <2>3. Contract!Step(s)
    BY <2>2 DEF Contract!Step, Contract!CutOffs
  <2> QED
    BY <1>2, <1>a, <2>3
<1>3. ASSUME NEW s \in Streams, PolicyTrip(s) \/ ChargeFails(s) \/ ReadError(s)
      PROVE  Contract!Next
  <2>1. \E why \in {"PolicyBlocked", "UpstreamError"} :
           /\ pc[s] \in {"reading", "processing"}
           /\ pc' = [pc EXCEPT ![s] = "yielded"]
           /\ pending' = [pending EXCEPT ![s] = why]
           /\ UNCHANGED <<events, charged, used, granted, known>>
    BY <1>3 DEF PolicyTrip, ChargeFails, ReadError, TakeHead, Yield
  <2> QED
    BY <1>2, <2>1
<1>4. ASSUME NEW s \in Streams, Charge(s)
      PROVE  Contract!Next
  <2> DEFINE delta == Delta(Head(queue[s]), recorded[s])
  <2>1. delta \in Nat
    BY <1>0, <1>4, QueueOps, DeltaCovers DEF Charge, TakeHead, TypeOK
  <2>2. /\ pc[s] = "processing" /\ known /\ UNCHANGED <<events, known>>
        /\ used' = used + delta
        /\ charged' = [charged EXCEPT ![s] = @ + delta]
        /\ pc' = [pc EXCEPT ![s] = "yielded"]
        /\ \/ /\ used + delta <= MaxTokens
              /\ pending' = [pending EXCEPT ![s] = "next"]
              /\ granted' = granted + delta
           \/ /\ ~(used + delta <= MaxTokens)
              /\ pending' = [pending EXCEPT ![s] = "BudgetBlocked"]
              /\ UNCHANGED granted
    BY <1>4 DEF Charge, TakeHead, Yield, WithinLimit
  <2> HIDE DEF delta
  <2>3. used' >= used /\ used' - used = delta
    BY <1>0, <2>1, <2>2 DEF TypeOK
  <2>4. pending[s] = "next" /\ Phases[s] = "open"
    BY <1>0, <2>2 DEF Phases, Phase, TypeOK, NoWayBack
  <2>5. ASSUME pending' = [pending EXCEPT ![s] = "next"]
        PROVE  Contract!Charge(s, delta)
    <3>1. UNCHANGED Phases
      BY <1>0, <2>2, <2>4, <2>5 DEF Phases, Phase, TypeOK
    <3>2. used + delta <= MaxTokens /\ granted' = granted + delta
      <4>1. pending'[s] = "next"
        BY <1>0, <2>5 DEF TypeOK
      <4>2. pending' # [pending EXCEPT ![s] = "BudgetBlocked"]
        BY <1>0, <4>1 DEF TypeOK
      <4> QED
        BY <2>2, <4>2
    <3> QED
      BY <1>d, <2>2, <2>4, <3>1, <3>2 DEF Contract!Charge
  <2>6. ASSUME pending' = [pending EXCEPT ![s] = "BudgetBlocked"]
        PROVE  Contract!Charge(s, delta)
    <3>1. Phases' = [Phases EXCEPT ![s] = "BudgetBlocked"]
      BY <1>0, <2>2, <2>4, <2>6 DEF Phases, Phase, TypeOK
    <3>2. ~(used + delta <= MaxTokens) /\ UNCHANGED granted
      <4>1. pending'[s] = "BudgetBlocked"
        BY <1>0, <2>6 DEF TypeOK
      <4>2. pending' # [pending EXCEPT ![s] = "next"]
        BY <1>0, <4>1 DEF TypeOK
      <4> QED
        BY <2>2, <4>2
    <3>3. used + delta > MaxTokens
      BY <1>0, <2>1, <3>2, EnforcerOK DEF TypeOK
    <3> QED
      BY <1>d, <2>2, <2>4, <3>1, <3>2, <3>3 DEF Contract!Charge, Contract!Enter
  <2>7. Contract!Charge(s, delta)
    BY <2>2, <2>5, <2>6
  <2>8. Contract!Step(s)
    BY <2>3, <2>7 DEF Contract!Step
  <2> QED
    BY <1>a, <2>2, <2>8
<1>5. ASSUME NEW s \in Streams, Continue(s)
      PROVE  Contract!Next
  <2>1. CASE Finish(s, "Completed")
    BY <1>0, <1>5, <1>c, <2>1, FinishIsEmit DEF Continue, Outcomes, history
  <2>2. CASE /\ UNCHANGED events
             /\ \E next \in {"processing", "reading"} : pc' = [pc EXCEPT ![s] = next]
    <3>1. UNCHANGED Phases
      BY <1>0, <1>5, <2>2 DEF Continue, Phases, Phase, TypeOK
    <3> QED
      BY <1>5, <1>b, <1>d, <2>2, <3>1 DEF Continue, history
  <2> QED
    BY <1>5, <2>1, <2>2 DEF Continue
<1>6. ASSUME NEW s \in Streams, Conclude(s)
      PROVE  Contract!Next
  <2>1. pending[s] \in Outcomes
    BY <1>0, <1>6 DEF Conclude, Outcomes, TypeOK
  <2> QED
    BY <1>6, <1>c, <2>1, FinishIsEmit DEF Conclude, history
<1>7. ASSUME NEW s \in Streams, EndEmpty(s)
      PROVE  Contract!Next
  <2>1. pending[s] = "next"
    BY <1>0, <1>7 DEF EndEmpty, NoWayBack
  <2> QED
    BY <1>7, <1>c, <2>1, FinishIsEmit DEF EndEmpty, Outcomes, history
<1>8. ASSUME NEW s \in Streams, Drop(s)
      PROVE  Contract!Next
  BY <1>8, <1>c DEF Drop, DropTelemetry, Outcomes, history
<1>9. ASSUME NEW s \in Streams,
             \/ \E es \in UpTo(Events, 2) : Read(s, es)
             \/ \E e \in Events : EndFlush(s, e)
      PROVE  Contract!Next
  <2>1. /\ pc[s] = "reading"
        /\ \E next \in {"reading", "processing"} : pc' = [pc EXCEPT ![s] = next]
        /\ UNCHANGED <<pending, events, charged, used, granted>>
    BY <1>9 DEF Read, EndFlush
  <2>2. UNCHANGED Phases
    BY <1>0, <2>1 DEF Phases, Phase, TypeOK
  <2> QED
    BY <1>b, <1>d, <2>1, <2>2
<1>10. ASSUME \/ \E s \in Streams : Disconnect(s)
              \/ Reload
              \/ UNCHANGED vars
       PROVE  Contract!Next
  <2>1. UNCHANGED <<pc, pending, events, charged, used, granted>>
    BY <1>10 DEF Disconnect, Reload, vars, generator, history
  <2>2. UNCHANGED Phases
    BY <2>1 DEF Phases, Phase
  <2> QED
    BY <1>b, <1>d, <2>1, <2>2
<1> QED
  BY <1>1, <1>3, <1>4, <1>5, <1>6, <1>7, <1>8, <1>9, <1>10
     DEF Next, Poll, Process, Upstream, AllDone

-----------------------------------------------------------------------------
(* The theorems.                                                             *)

\* The invariant holds throughout.
LEMMA Invariance == Spec => []Inv
<1>1. Inv /\ [Next]_vars => Inv'
  BY TypeStep, EventStep, NoWayBackStep, GrantStep, ChargeStep DEF Inv
<1> QED
  BY InitInv, <1>1, PTL DEF Spec

\* The generator's state is well formed in every run.
THEOREM StreamTypes == Spec => []TypeOK
<1>1. Inv => TypeOK
  BY DEF Inv
<1> QED
  BY Invariance, <1>1, PTL

\* However a stream ends and whenever its client leaves, its telemetry pushes
\* one usage event, and none before the stream is over.
THEOREM OneUsageEvent == Spec => []ExactlyOneEvent
<1>1. Inv => ExactlyOneEvent
  BY DEF Inv
<1> QED
  BY Invariance, <1>1, PTL

\* All streams of a tenant together never forward events that cost more than
\* the tenant's limit.
THEOREM NeverOverLimit == Spec => []GrantedWithinLimit
<1>1. Inv => GrantedWithinLimit
  BY DEF Inv, GrantsCharged, GrantedWithinLimit
<1> QED
  BY Invariance, <1>1, PTL

\* A tenant has been charged for all that its usage events report.
THEOREM ReportsAreCharged == Spec => []ChargedCoversRecorded
<1>1. Inv => ChargedCoversRecorded
  BY DEF Inv
<1> QED
  BY Invariance, <1>1, PTL

\* Every stream keeps the contract under which the gateway hands it to the
\* server.
THEOREM ContractKept == Spec => KeepsContract
<1>1. Inv /\ [Next]_vars => [Contract!Next]_(Contract!vars)
  BY ContractStep
<1> QED
  BY Invariance, ContractInit, <1>1, PTL DEF Spec, KeepsContract, Contract!Spec

-----------------------------------------------------------------------------
(* The order of the events, and the blocked tools.                           *)

\* What was sent and what the queue still holds make up what was received,
\* until the stream is cut off.
Ordered(s) ==
    /\ \A i \in DOMAIN sent[s] : IsEvent(sent[s][i]) =>
          i <= Len(received[s]) /\ sent[s][i].event = received[s][i]
    /\ pending[s] = "next" =>
          /\ \A i \in DOMAIN sent[s] : IsEvent(sent[s][i])
          /\ Len(received[s]) = Len(sent[s]) + Len(queue[s])
          /\ \A k \in DOMAIN queue[s] : queue[s][k] = received[s][Len(sent[s]) + k]
    /\ pending[s] # "next" => \A i \in DOMAIN sent[s] : i < Len(sent[s]) => IsEvent(sent[s][i])
    /\ pc[s] \in {"unpolled", "reading"} => queue[s] = <<>>
    /\ \A i \in DOMAIN events[s] :
          events[s][i].outcome = "Completed" => pending[s] = "next" /\ queue[s] = <<>>

\* A stream that was cut off for a blocked tool has noted it.
Stopped(s) ==
    /\ \A i \in DOMAIN sent[s] : IsEvent(sent[s][i]) => ToolsOf(sent[s][i].event) \cap Blocked = {}
    /\ pending[s] = "PolicyBlocked" => toolsSeen[s] \cap Blocked # {}
    /\ \A i \in DOMAIN events[s] :
          events[s][i].outcome = "PolicyBlocked" => events[s][i].tools \cap Blocked # {}

OrderInv == \A s \in Streams : Ordered(s) /\ Stopped(s)

-----------------------------------------------------------------------------
(* The tools of an event.                                                    *)

\* An event that calls a blocked tool has one noted: the loop gets as far as
\* the first of them.
LEMMA BlockedIsScanned ==
  ASSUME NEW e \in Events, ToolsOf(e) \cap Blocked # {}
  PROVE  ToolsScanned(e) \cap Blocked # {}
<1> DEFINE T == { i \in DOMAIN e.tools : e.tools[i] \in Blocked }
<1>1. e.tools \in Seq(Tools)
  BY EnforcerOK DEF IsCost
<1>2. T \in SUBSET Nat /\ T # {}
  BY <1>1 DEF ToolsOf
<1>3. PICK m \in T : \A k \in T : m <= k
  BY <1>2, LeastOf
<1>4. \A k \in DOMAIN e.tools : k < m => e.tools[k] \notin Blocked
  BY <1>1, <1>2, <1>3
<1>5. e.tools[m] \in ToolsScanned(e)
  BY <1>3, <1>4 DEF ToolsScanned
<1> QED
  BY <1>3, <1>5

-----------------------------------------------------------------------------
(* One step of a stream.                                                     *)

\* A stream's step leaves the others as they are.
LEMMA OtherStreams ==
  ASSUME TypeOK, NEW s \in Streams,
         Poll(s) \/ Upstream(s) \/ Drop(s) \/ DropUnpolled(s) \/ Disconnect(s),
         NEW t \in Streams \ {s}
  PROVE  /\ pc'[t] = pc[t] /\ queue'[t] = queue[t] /\ pending'[t] = pending[t]
         /\ toolsSeen'[t] = toolsSeen[t] /\ events'[t] = events[t]
         /\ received'[t] = received[t] /\ sent'[t] = sent[t]
<1> USE DEF TypeOK
<1>1. CASE FirstPoll(s) \/ Drop(s) \/ DropUnpolled(s) \/ Disconnect(s)
  BY <1>1 DEF FirstPoll, Drop, DropUnpolled, Disconnect, generator, history
<1>2. CASE Process(s)
  BY <1>2 DEF Process, PolicyTrip, Charge, ChargeFails, TakeHead, Yield
<1>3. CASE Continue(s) \/ Conclude(s)
  BY <1>3 DEF Continue, Conclude, Finish, history
<1>4. ASSUME NEW es \in UpTo(Events, 2), Read(s, es)
      PROVE  /\ pc'[t] = pc[t] /\ queue'[t] = queue[t] /\ pending'[t] = pending[t]
             /\ toolsSeen'[t] = toolsSeen[t] /\ events'[t] = events[t]
             /\ received'[t] = received[t] /\ sent'[t] = sent[t]
  BY <1>4 DEF Read
<1>5. CASE ReadError(s) \/ EndEmpty(s)
  BY <1>5 DEF ReadError, EndEmpty, Yield, Finish, history
<1>6. ASSUME NEW e \in Events, EndFlush(s, e)
      PROVE  /\ pc'[t] = pc[t] /\ queue'[t] = queue[t] /\ pending'[t] = pending[t]
             /\ toolsSeen'[t] = toolsSeen[t] /\ events'[t] = events[t]
             /\ received'[t] = received[t] /\ sent'[t] = sent[t]
  BY <1>6 DEF EndFlush
<1> QED
  BY <1>1, <1>2, <1>3, <1>4, <1>5, <1>6 DEF Poll, Upstream

\* A stream that is not over has reported nothing, and when it ends its event
\* says why and what was noted.
LEMMA EndsWithEvent ==
  ASSUME Inv, NEW s \in Streams, NEW outcome \in Outcomes,
         pc[s] \notin {"done", "abandoned"},
         Finish(s, outcome) \/ (outcome = "Incomplete" /\ Drop(s))
  PROVE  /\ pc'[s] = "done" /\ events[s] = <<>>
         /\ events'[s] = <<[outcome |-> outcome, tokens |-> recorded[s], tools |-> toolsSeen[s]]>>
<1>1. events[s] = <<>>
  BY NoneReported DEF Inv, ExactlyOneEvent, TypeOK
<1>2. /\ pc' = [pc EXCEPT ![s] = "done"]
      /\ events' = [events EXCEPT ![s] = Emit(@, s, outcome)]
  BY FinishIsEmit DEF Drop, DropTelemetry
<1>3. Emit(<<>>, s, outcome)
         = <<[outcome |-> outcome, tokens |-> recorded[s], tools |-> toolsSeen[s]]>>
  BY DEF Emit
<1> QED
  BY <1>1, <1>2, <1>3 DEF Inv, TypeOK

\* What a sequence is after an append.
LEMMA Appended ==
  ASSUME NEW S, NEW q \in Seq(S), NEW x \in S
  PROVE  /\ Append(q, x) \in Seq(S)
         /\ Len(Append(q, x)) = Len(q) + 1
         /\ DOMAIN Append(q, x) = 1 .. Len(q) + 1
         /\ Append(q, x)[Len(q) + 1] = x
         /\ \A i \in 1 .. Len(q) : Append(q, x)[i] = q[i]
  BY AppendProperties, LenProperties

\* A sequence of one item.
LEMMA OneItem == \A e : \A i \in DOMAIN <<e>> : <<e>>[i] = e
  OBVIOUS

\* A queue without its head.
LEMMA Advanced ==
  ASSUME NEW q \in Seq(Events), q # <<>>
  PROVE  /\ Tail(q) \in Seq(Events) /\ Len(q) > 0
         /\ Head(q) = q[1] /\ Head(q) \in Events
         /\ Len(Tail(q)) = Len(q) - 1
         /\ \A k \in 1 .. Len(q) - 1 : Tail(q)[k] = q[k + 1]
  BY HeadTailProperties, EmptySeq

-----------------------------------------------------------------------------
(* The order of what is sent.                                                *)

\* What the lemmas below say of the state of one stream.
LEMMA StreamTyped ==
  ASSUME TypeOK, NEW s \in Streams
  PROVE  /\ queue[s] \in Seq(Events) /\ received[s] \in Seq(Events) /\ sent[s] \in Seq(Items)
         /\ Len(queue[s]) \in Nat /\ Len(received[s]) \in Nat /\ Len(sent[s]) \in Nat
         /\ DOMAIN queue[s] = 1 .. Len(queue[s])
         /\ DOMAIN received[s] = 1 .. Len(received[s])
         /\ DOMAIN sent[s] = 1 .. Len(sent[s])
  BY LenProperties DEF TypeOK

\* The event at the head of the queue is yielded: it is the next one received.
LEMMA ForwardOrdered ==
  ASSUME Inv, NEW s \in Streams, Ordered(s), pc[s] = "processing",
         TakeHead(s), Yield(s, EventItem(Head(queue[s])), "next")
  PROVE  Ordered(s)'
<1> DEFINE q == queue[s]
           e == Head(q)
           n == Len(sent[s])
<1>1. /\ q \in Seq(Events) /\ q # <<>> /\ received[s] \in Seq(Events) /\ sent[s] \in Seq(Items)
      /\ pending[s] = "next" /\ events[s] = <<>>
  BY NoneReported DEF Inv, TypeOK, NoWayBack, ExactlyOneEvent
<1>2. e \in Events /\ EventItem(e) \in Items
  BY <1>1, Advanced, ItemsMade
<1>3. /\ queue'[s] = Tail(q) /\ pending'[s] = "next" /\ pc'[s] = "yielded"
      /\ sent'[s] = Append(sent[s], EventItem(e))
      /\ UNCHANGED <<received, events>>
  BY DEF TakeHead, Yield, Inv, TypeOK
<1>4. n \in Nat /\ Len(q) \in Nat \ {0} /\ Len(received[s]) = n + Len(q)
  <2>1. n \in Nat /\ Len(q) \in Nat
    BY StreamTyped DEF Inv
  <2>2. Len(q) > 0
    BY <1>1, Advanced
  <2>3. Len(received[s]) = n + Len(q)
    BY <1>1 DEF Ordered
  <2> QED
    BY <2>1, <2>2, <2>3
<1>5. received[s][n + 1] = e
  <2>1. 1 \in DOMAIN q
    BY <1>1, <1>4, LenProperties
  <2> QED
    BY <1>1, <2>1, Advanced DEF Ordered
<1>6. /\ Len(sent'[s]) = n + 1 /\ DOMAIN sent'[s] = 1 .. n + 1
      /\ sent'[s][n + 1] = EventItem(e)
      /\ \A i \in 1 .. n : sent'[s][i] = sent[s][i]
  BY <1>1, <1>2, <1>3, Appended
<1>7. IsEvent(EventItem(e)) /\ EventItem(e).event = e
  BY DEF IsEvent, EventItem
<1>8. \A i \in 1 .. n : IsEvent(sent[s][i]) /\ i <= Len(received[s])
                           /\ sent[s][i].event = received[s][i]
  BY <1>1, StreamTyped DEF Ordered, Inv
<1>9. \A i \in DOMAIN sent'[s] : IsEvent(sent'[s][i]) /\ i <= Len(received[s])
                                     /\ sent'[s][i].event = received[s][i]
  <2> SUFFICES ASSUME NEW i \in 1 .. n + 1
               PROVE  IsEvent(sent'[s][i]) /\ i <= Len(received[s])
                        /\ sent'[s][i].event = received[s][i]
    BY <1>6
  <2>1. CASE i = n + 1
    BY <1>4, <1>5, <1>6, <1>7, <2>1
  <2>2. CASE i \in 1 .. n
    BY <1>6, <1>8, <2>2
  <2>3. i = n + 1 \/ i \in 1 .. n
    <3>1. n \in Nat
      BY <1>4
    <3> HIDE DEF n
    <3> QED
      BY <3>1
  <2> QED
    BY <2>1, <2>2, <2>3
<1>10. /\ Len(received[s]) = Len(sent'[s]) + Len(queue'[s])
       /\ \A k \in DOMAIN queue'[s] : queue'[s][k] = received[s][Len(sent'[s]) + k]
  <2>1. /\ Tail(q) \in Seq(Events) /\ Len(Tail(q)) = Len(q) - 1
        /\ \A k \in 1 .. Len(q) - 1 : Tail(q)[k] = q[k + 1]
    BY <1>1, Advanced
  <2>2. DOMAIN Tail(q) = 1 .. Len(q) - 1
    BY <2>1, LenProperties
  <2>3. \A k \in 1 .. Len(q) : q[k] = received[s][n + k]
    BY <1>1, StreamTyped DEF Ordered, Inv
  <2>4. ASSUME NEW k \in 1 .. Len(q) - 1
        PROVE  Tail(q)[k] = received[s][n + 1 + k]
    <3>0. n \in Nat /\ Len(q) \in Nat /\ k \in Nat
      BY <1>4
    <3>1. PICK j \in 1 .. Len(q) : j = k + 1
      BY <3>0
    <3>2. n + j = n + 1 + k
      <4> HIDE DEF n
      <4> QED
        BY <3>0, <3>1
    <3> QED
      BY <2>1, <2>3, <3>1, <3>2
  <2>5. n + Len(q) = n + 1 + (Len(q) - 1)
    <3> HIDE DEF q, n
    <3> QED
      BY <1>4
  <2> HIDE DEF q, n
  <2> QED
    BY <1>3, <1>4, <1>6, <2>1, <2>2, <2>4, <2>5
<1>11. \A i \in DOMAIN events'[s] : FALSE
  BY <1>1, <1>3
<1> QED
  BY <1>3, <1>9, <1>10, <1>11 DEF Ordered

\* A stream is cut off: what was sent before are events, in order.
LEMMA CutOffOrdered ==
  ASSUME Inv, NEW s \in Streams, Ordered(s), pc[s] \in {"processing", "reading"},
         NEW kind \in {"error", "policy_violation", "budget_exceeded"},
         NEW next \in {"BudgetBlocked", "PolicyBlocked", "UpstreamError"},
         Yield(s, CutOff(kind), next), UNCHANGED <<received, events>>
  PROVE  Ordered(s)'
<1> DEFINE n == Len(sent[s])
<1>1. sent[s] \in Seq(Items) /\ pending[s] = "next" /\ events[s] = <<>> /\ n \in Nat
  BY NoneReported, StreamTyped DEF Inv, TypeOK, NoWayBack, ExactlyOneEvent
<1>2. /\ pending'[s] = next /\ pc'[s] = "yielded"
      /\ sent'[s] = Append(sent[s], CutOff(kind))
  BY DEF Yield, Inv, TypeOK
<1>3. /\ Len(sent'[s]) = n + 1 /\ DOMAIN sent'[s] = 1 .. n + 1
      /\ sent'[s][n + 1] = CutOff(kind)
      /\ \A i \in 1 .. n : sent'[s][i] = sent[s][i]
  BY <1>1, <1>2, ItemsMade, Appended
<1>4. ~IsEvent(CutOff(kind))
  BY DEF IsEvent, CutOff
<1>5. \A i \in 1 .. n : IsEvent(sent[s][i]) /\ i <= Len(received[s])
                           /\ sent[s][i].event = received[s][i]
  BY <1>1, StreamTyped DEF Ordered, Inv
<1>6. \A i \in 1 .. n + 1 : i # n + 1 => i \in 1 .. n
  BY <1>1
<1>7. \A i \in DOMAIN sent'[s] : IsEvent(sent'[s][i]) =>
          i <= Len(received[s]) /\ sent'[s][i].event = received[s][i]
  BY <1>3, <1>4, <1>5, <1>6
<1>8. \A i \in DOMAIN sent'[s] : i < Len(sent'[s]) => IsEvent(sent'[s][i])
  <2>1. \A i \in 1 .. n + 1 : i < n + 1 => i \in 1 .. n
    BY <1>1
  <2> QED
    BY <1>3, <1>5, <2>1
<1>9. \A i \in DOMAIN events'[s] : FALSE
  BY <1>1
<1> QED
  BY <1>2, <1>7, <1>8, <1>9 DEF Ordered

\* A read, or the flushed tail, is behind what was received before.
LEMMA ReceiveOrdered ==
  ASSUME Inv, NEW s \in Streams, Ordered(s), pc[s] = "reading",
         NEW es \in Seq(Events),
         received'[s] = received[s] \o es, queue'[s] = es,
         es = <<>> \/ pc'[s] = "processing",
         sent'[s] = sent[s], pending'[s] = pending[s], events'[s] = events[s]
  PROVE  Ordered(s)'
<1> DEFINE n == Len(sent[s])
           m == Len(received[s])
<1>1. /\ received[s] \in Seq(Events) /\ pending[s] = "next" /\ events[s] = <<>>
      /\ queue[s] = <<>>
  BY NoneReported DEF Inv, TypeOK, NoWayBack, ExactlyOneEvent, Ordered
<1>2. n \in Nat /\ m \in Nat /\ Len(es) \in Nat /\ m = n
  <2>1. m = n + Len(<<>>) /\ Len(<<>>) = 0
    BY <1>1 DEF Ordered
  <2>2. n \in Nat /\ m \in Nat /\ Len(es) \in Nat
    BY StreamTyped, LenProperties DEF Inv
  <2> HIDE DEF n, m
  <2> QED
    BY <2>1, <2>2
<1>3. /\ Len(received'[s]) = m + Len(es)
      /\ \A i \in 1 .. m : received'[s][i] = received[s][i]
      /\ \A k \in 1 .. Len(es) : received'[s][m + k] = es[k]
  <2>1. /\ Len(received[s] \o es) = m + Len(es)
        /\ \A i \in 1 .. m + Len(es) :
              (received[s] \o es)[i] = IF i <= m THEN received[s][i] ELSE es[i - m]
    BY <1>1, ConcatProperties
  <2>2. \A i \in 1 .. m : i \in 1 .. m + Len(es) /\ i <= m
    <3> HIDE DEF m
    <3> QED
      BY <1>2
  <2>3. \A k \in 1 .. Len(es) : /\ m + k \in 1 .. m + Len(es)
                                /\ ~(m + k <= m) /\ (m + k) - m = k
    <3> HIDE DEF m
    <3> QED
      BY <1>2
  <2> QED
    BY <2>1, <2>2, <2>3
<1>4. \A i \in 1 .. n : /\ IsEvent(sent[s][i])
                        /\ sent[s][i].event = received[s][i]
  BY <1>1, StreamTyped DEF Ordered, Inv
<1>5. \A i \in 1 .. n : i \in 1 .. m /\ i <= m + Len(es)
  <2> HIDE DEF n, m
  <2> QED
    BY <1>2
<1>6. DOMAIN sent'[s] = 1 .. n /\ DOMAIN queue'[s] = 1 .. Len(es)
  BY StreamTyped, LenProperties DEF Inv
<1>7. \A i \in DOMAIN sent'[s] :
         IsEvent(sent'[s][i]) /\ i <= Len(received'[s]) /\ sent'[s][i].event = received'[s][i]
  BY <1>3, <1>4, <1>5, <1>6
<1>8. Len(received'[s]) = Len(sent'[s]) + Len(queue'[s])
  BY <1>2, <1>3
<1>9. \A k \in DOMAIN queue'[s] : queue'[s][k] = received'[s][Len(sent'[s]) + k]
  BY <1>2, <1>3, <1>6
<1>10. \A i \in DOMAIN events'[s] : FALSE
  BY <1>1
<1>11. pending'[s] = "next" /\ (pc'[s] \in {"unpolled", "reading"} => queue'[s] = <<>>)
  BY <1>1
<1> QED
  BY <1>7, <1>8, <1>9, <1>10, <1>11 DEF Ordered

\* A step that sends and receives nothing, and may end the stream.
LEMMA KeptOrdered ==
  ASSUME NEW s \in Streams, Ordered(s),
         queue'[s] = queue[s], pending'[s] = pending[s], sent'[s] = sent[s],
         received'[s] = received[s],
         pc'[s] \in {"unpolled", "reading"} => queue[s] = <<>>,
         \/ events'[s] = events[s]
         \/ \E e : /\ events'[s] = <<e>>
                   /\ e.outcome = "Completed" => pending[s] = "next" /\ queue[s] = <<>>
  PROVE  Ordered(s)'
<1>1. \A i \in DOMAIN events'[s] :
         events'[s][i].outcome = "Completed" => pending[s] = "next" /\ queue[s] = <<>>
  <2>1. CASE events'[s] = events[s]
    BY <2>1 DEF Ordered
  <2>2. ASSUME NEW e, events'[s] = <<e>>,
               e.outcome = "Completed" => pending[s] = "next" /\ queue[s] = <<>>
        PROVE  \A i \in DOMAIN events'[s] :
                  events'[s][i].outcome = "Completed" => pending[s] = "next" /\ queue[s] = <<>>
    BY <2>2, OneItem
  <2> QED
    BY <2>1, <2>2
<1> QED
  BY <1>1 DEF Ordered

\* How a stream ends.
LEMMA EndOrdered ==
  ASSUME Inv, NEW s \in Streams, Ordered(s), NEW outcome \in Outcomes,
         pc[s] \notin {"done", "abandoned"},
         Finish(s, outcome) \/ (outcome = "Incomplete" /\ Drop(s)),
         outcome = "Completed" => pending[s] = "next" /\ queue[s] = <<>>,
         UNCHANGED <<queue, pending, sent, received>>
  PROVE  Ordered(s)'
<1> DEFINE u == [outcome |-> outcome, tokens |-> recorded[s], tools |-> toolsSeen[s]]
<1>1. pc'[s] = "done" /\ events'[s] = <<u>>
  BY EndsWithEvent
<1>2. u.outcome = outcome
  OBVIOUS
<1> HIDE DEF u
<1> QED
  BY <1>1, <1>2, KeptOrdered

\* The cases of a stream's own step.
LEMMA StepOrdered ==
  ASSUME Inv, NEW s \in Streams, Ordered(s),
         Poll(s) \/ Upstream(s) \/ Drop(s) \/ DropUnpolled(s) \/ Disconnect(s)
  PROVE  Ordered(s)'
<1>1. CASE FirstPoll(s)
  <2>1. pc[s] = "unpolled" /\ UNCHANGED <<queue, pending, sent, received, events>>
    BY <1>1 DEF FirstPoll, history
  <2> QED
    BY <2>1, KeptOrdered DEF Ordered
<1>2. CASE Process(s)
  <2>1. pc[s] = "processing" /\ TakeHead(s) /\ UNCHANGED <<received, events>>
    BY <1>2 DEF Process, PolicyTrip, Charge, ChargeFails, TakeHead
  <2>2. CASE Yield(s, EventItem(Head(queue[s])), "next")
    BY <2>1, <2>2, ForwardOrdered
  <2>3. CASE \E kind \in {"error", "policy_violation", "budget_exceeded"},
                next \in {"BudgetBlocked", "PolicyBlocked", "UpstreamError"} :
                Yield(s, CutOff(kind), next)
    BY <2>1, <2>3, CutOffOrdered
  <2> QED
    BY <1>2, <2>2, <2>3 DEF Process, PolicyTrip, Charge, ChargeFails
<1>3. CASE Continue(s)
  <2>1. /\ pc[s] = "yielded" /\ pending[s] = "next"
        /\ UNCHANGED <<queue, pending, sent, received>>
    BY <1>3 DEF Continue, history
  <2>2. CASE UNCHANGED events /\ (queue[s] = <<>> \/ pc'[s] = "processing")
    BY <2>1, <2>2, KeptOrdered
  <2>3. CASE queue[s] = <<>> /\ Finish(s, "Completed")
    BY <2>1, <2>3, EndOrdered DEF Outcomes
  <2> QED
    BY <1>3, <2>2, <2>3 DEF Continue, Inv, TypeOK
<1>4. CASE Conclude(s)
  <2>1. /\ pc[s] = "yielded" /\ pending[s] \in Outcomes \ {"Completed"}
        /\ Finish(s, pending[s]) /\ UNCHANGED <<queue, pending, sent, received>>
    BY <1>4 DEF Conclude, history, Inv, TypeOK, Outcomes
  <2> QED
    BY <2>1, EndOrdered
<1>5. ASSUME NEW es \in UpTo(Events, 2), Read(s, es) PROVE Ordered(s)'
  <2>1. /\ received'[s] = received[s] \o es /\ queue'[s] = es
        /\ es = <<>> \/ pc'[s] = "processing"
        /\ UNCHANGED <<sent, pending, events>> /\ pc[s] = "reading"
    BY <1>5 DEF Read, Inv, TypeOK
  <2> QED
    BY <2>1, QueueOps, ReceiveOrdered
<1>6. CASE ReadError(s)
  BY <1>6, CutOffOrdered DEF ReadError
<1>7. CASE EndEmpty(s)
  <2>1. /\ pc[s] = "reading" /\ pending[s] = "next" /\ queue[s] = <<>>
        /\ Finish(s, "Completed") /\ UNCHANGED <<queue, pending, sent, received>>
    BY <1>7 DEF EndEmpty, history, Inv, NoWayBack, Ordered
  <2> QED
    BY <2>1, EndOrdered DEF Outcomes
<1>8. ASSUME NEW e \in Events, EndFlush(s, e) PROVE Ordered(s)'
  <2>1. <<e>> \in Seq(Events) /\ Append(received[s], e) = received[s] \o <<e>>
    BY AppendIsConcat DEF Inv, TypeOK
  <2>2. /\ received'[s] = Append(received[s], e) /\ queue'[s] = <<e>>
        /\ pc'[s] = "processing" /\ pc[s] = "reading"
        /\ UNCHANGED <<sent, pending, events>>
    BY <1>8 DEF EndFlush, Inv, TypeOK
  <2> QED
    BY <2>1, <2>2, ReceiveOrdered
<1>9. CASE Drop(s)
  <2>1. pc[s] \in {"reading", "yielded"} /\ UNCHANGED <<queue, pending, sent, received>>
    BY <1>9 DEF Drop, history
  <2> QED
    BY <1>9, <2>1, EndOrdered DEF Outcomes
<1>10. CASE DropUnpolled(s) \/ Disconnect(s)
  <2>1. /\ UNCHANGED <<queue, pending, sent, received, events>>
        /\ pc'[s] \in {"unpolled", "reading"} => pc[s] \in {"unpolled", "reading"}
    BY <1>10 DEF DropUnpolled, Disconnect, generator, history, Inv, TypeOK
  <2> QED
    BY <2>1, KeptOrdered DEF Ordered
<1> QED
  BY <1>1, <1>2, <1>3, <1>4, <1>5, <1>6, <1>7, <1>8, <1>9, <1>10 DEF Poll, Upstream

-----------------------------------------------------------------------------
(* Blocked tools.                                                            *)

\* An item is yielded: an event without blocked tools or a cut-off, for a
\* blocked tool only if one was noted.
LEMMA YieldStopped ==
  ASSUME Inv, NEW s \in Streams, Stopped(s), pc[s] \in {"processing", "reading"},
         NEW item \in Items, NEW next, Yield(s, item, next), UNCHANGED events,
         IsEvent(item) => ToolsOf(item.event) \cap Blocked = {},
         next = "PolicyBlocked" => toolsSeen'[s] \cap Blocked # {}
  PROVE  Stopped(s)'
<1> DEFINE n == Len(sent[s])
<1>1. sent[s] \in Seq(Items) /\ events[s] = <<>> /\ n \in Nat /\ DOMAIN sent[s] = 1 .. n
  BY NoneReported, StreamTyped DEF Inv, TypeOK, ExactlyOneEvent
<1>2. pending'[s] = next /\ sent'[s] = Append(sent[s], item)
  BY DEF Yield, Inv, TypeOK
<1>3. /\ DOMAIN sent'[s] = 1 .. n + 1
      /\ sent'[s][n + 1] = item
      /\ \A i \in 1 .. n : sent'[s][i] = sent[s][i]
  BY <1>1, <1>2, Appended
<1>4. \A i \in 1 .. n + 1 : i # n + 1 => i \in 1 .. n
  BY <1>1
<1> HIDE DEF n
<1>5. \A i \in DOMAIN sent'[s] :
         IsEvent(sent'[s][i]) => ToolsOf(sent'[s][i].event) \cap Blocked = {}
  BY <1>1, <1>3, <1>4 DEF Stopped
<1>6. \A i \in DOMAIN events'[s] : FALSE
  BY <1>1
<1> QED
  BY <1>2, <1>5, <1>6 DEF Stopped

\* A step that sends nothing, and may end the stream.
LEMMA KeptStopped ==
  ASSUME NEW s \in Streams, Stopped(s),
         pending'[s] = pending[s], sent'[s] = sent[s], toolsSeen'[s] = toolsSeen[s],
         \/ events'[s] = events[s]
         \/ \E e : /\ events'[s] = <<e>>
                   /\ e.outcome = "PolicyBlocked" => e.tools \cap Blocked # {}
  PROVE  Stopped(s)'
<1>1. \A i \in DOMAIN events'[s] :
         events'[s][i].outcome = "PolicyBlocked" => events'[s][i].tools \cap Blocked # {}
  <2>1. CASE events'[s] = events[s]
    BY <2>1 DEF Stopped
  <2>2. ASSUME NEW e, events'[s] = <<e>>,
               e.outcome = "PolicyBlocked" => e.tools \cap Blocked # {}
        PROVE  \A i \in DOMAIN events'[s] :
                  events'[s][i].outcome = "PolicyBlocked" => events'[s][i].tools \cap Blocked # {}
    BY <2>2, OneItem
  <2> QED
    BY <2>1, <2>2
<1> QED
  BY <1>1 DEF Stopped

\* How a stream ends.
LEMMA EndStopped ==
  ASSUME Inv, NEW s \in Streams, Stopped(s), NEW outcome \in Outcomes,
         pc[s] \notin {"done", "abandoned"},
         Finish(s, outcome) \/ (outcome = "Incomplete" /\ Drop(s)),
         outcome = "PolicyBlocked" => pending[s] = "PolicyBlocked",
         UNCHANGED <<pending, sent, toolsSeen>>
  PROVE  Stopped(s)'
<1> DEFINE u == [outcome |-> outcome, tokens |-> recorded[s], tools |-> toolsSeen[s]]
<1>1. pc'[s] = "done" /\ events'[s] = <<u>>
  BY EndsWithEvent
<1>2. u.outcome = outcome /\ u.tools = toolsSeen[s]
  OBVIOUS
<1>3. u.outcome = "PolicyBlocked" => u.tools \cap Blocked # {}
  BY <1>2 DEF Stopped
<1> HIDE DEF u
<1> QED
  BY <1>1, <1>3, KeptStopped

\* The cases of a stream's own step.
LEMMA StepStopped ==
  ASSUME Inv, NEW s \in Streams, Stopped(s),
         Poll(s) \/ Upstream(s) \/ Drop(s) \/ DropUnpolled(s) \/ Disconnect(s)
  PROVE  Stopped(s)'
<1>1. CASE FirstPoll(s)
  BY <1>1, KeptStopped DEF FirstPoll, history
<1>2. CASE Process(s)
  <2> DEFINE e == Head(queue[s])
  <2>1. /\ pc[s] = "processing" /\ UNCHANGED events /\ e \in Events
        /\ toolsSeen'[s] = toolsSeen[s] \cup ToolsScanned(e)
    BY <1>2, QueueOps DEF Process, PolicyTrip, Charge, ChargeFails, TakeHead, Inv, TypeOK
  <2>2. CASE PolicyTrip(s)
    <3>1. toolsSeen'[s] \cap Blocked # {}
      BY <2>1, <2>2, BlockedIsScanned DEF PolicyTrip
    <3>2. ~IsEvent(CutOff("policy_violation"))
      BY DEF IsEvent, CutOff
    <3> QED
      BY <2>1, <2>2, <3>1, <3>2, ItemsMade, YieldStopped DEF PolicyTrip
  <2>3. CASE /\ Yield(s, EventItem(e), "next")
             /\ ToolsOf(e) \cap Blocked = {}
    <3>1. EventItem(e) \in Items /\ EventItem(e).event = e
      BY <2>1, ItemsMade DEF EventItem
    <3> QED
      BY <2>1, <2>3, <3>1, YieldStopped
  <2>4. CASE \E kind \in {"error", "budget_exceeded"}, next \in {"BudgetBlocked", "UpstreamError"} :
                Yield(s, CutOff(kind), next)
    <3>1. \A kind \in {"error", "budget_exceeded"} : ~IsEvent(CutOff(kind))
      BY DEF IsEvent, CutOff
    <3> QED
      BY <2>1, <2>4, <3>1, ItemsMade, YieldStopped
  <2> QED
    BY <1>2, <2>2, <2>3, <2>4 DEF Process, Charge, ChargeFails
<1>3. CASE Continue(s)
  <2>1. pc[s] = "yielded" /\ UNCHANGED <<pending, sent, toolsSeen>>
    BY <1>3 DEF Continue, history
  <2>2. CASE UNCHANGED events
    BY <2>1, <2>2, KeptStopped
  <2>3. CASE Finish(s, "Completed")
    BY <2>1, <2>3, EndStopped DEF Outcomes
  <2> QED
    BY <1>3, <2>2, <2>3 DEF Continue
<1>4. CASE Conclude(s)
  <2>1. /\ pc[s] = "yielded" /\ pending[s] \in Outcomes
        /\ Finish(s, pending[s]) /\ UNCHANGED <<pending, sent, toolsSeen>>
    BY <1>4 DEF Conclude, history, Inv, TypeOK, Outcomes
  <2> QED
    BY <2>1, EndStopped
<1>5. ASSUME \/ \E es \in UpTo(Events, 2) : Read(s, es)
             \/ \E e \in Events : EndFlush(s, e)
             \/ DropUnpolled(s) \/ Disconnect(s)
      PROVE  Stopped(s)'
  <2>1. UNCHANGED <<pending, sent, toolsSeen, events>>
    BY <1>5 DEF Read, EndFlush, DropUnpolled, Disconnect, generator, history
  <2> QED
    BY <2>1, KeptStopped
<1>6. CASE ReadError(s)
  <2>1. ~IsEvent(CutOff("error"))
    BY DEF IsEvent, CutOff
  <2> QED
    BY <1>6, <2>1, ItemsMade, YieldStopped DEF ReadError
<1>7. CASE EndEmpty(s)
  BY <1>7, EndStopped DEF EndEmpty, history, Outcomes
<1>8. CASE Drop(s)
  BY <1>8, EndStopped DEF Drop, history, Outcomes
<1> QED
  BY <1>1, <1>2, <1>3, <1>4, <1>5, <1>6, <1>7, <1>8 DEF Poll, Upstream

-----------------------------------------------------------------------------
(* The theorems.                                                             *)

\* Initially nothing was received, sent or noted.
LEMMA InitOrder == Init => OrderInv
<1> SUFFICES ASSUME Init, NEW s \in Streams
             PROVE  Ordered(s) /\ Stopped(s)
  BY DEF OrderInv
<1>1. /\ queue[s] = <<>> /\ pending[s] = "next" /\ received[s] = <<>> /\ sent[s] = <<>>
      /\ events[s] = <<>>
  BY DEF Init
<1>2. Len(<<>>) = 0 /\ \A i \in DOMAIN <<>> : FALSE
  OBVIOUS
<1>3. 0 = 0 + 0
  OBVIOUS
<1> QED
  BY <1>1, <1>2, <1>3 DEF Ordered, Stopped

\* Every step keeps the order of every stream.
LEMMA OrderStep == Inv /\ OrderInv /\ [Next]_vars => OrderInv'
<1> SUFFICES ASSUME Inv, OrderInv, [Next]_vars, NEW t \in Streams
             PROVE  Ordered(t)' /\ Stopped(t)'
  BY DEF OrderInv
<1>0. Ordered(t) /\ Stopped(t)
  BY DEF OrderInv
<1>1. ASSUME /\ pc'[t] = pc[t] /\ queue'[t] = queue[t] /\ pending'[t] = pending[t]
             /\ toolsSeen'[t] = toolsSeen[t] /\ events'[t] = events[t]
             /\ received'[t] = received[t] /\ sent'[t] = sent[t]
      PROVE  Ordered(t)' /\ Stopped(t)'
  BY <1>0, <1>1 DEF Ordered, Stopped
<1>2. ASSUME NEW s \in Streams,
             Poll(s) \/ Upstream(s) \/ Drop(s) \/ DropUnpolled(s) \/ Disconnect(s)
      PROVE  Ordered(t)' /\ Stopped(t)'
  <2>1. CASE s = t
    BY <1>0, <1>2, <2>1, StepOrdered, StepStopped
  <2>2. CASE s # t
    <3>1. t \in Streams \ {s}
      BY <2>2
    <3> QED
      BY <1>1, <1>2, <3>1, OtherStreams DEF Inv
  <2> QED
    BY <2>1, <2>2
<1>3. CASE Reload \/ UNCHANGED vars
  BY <1>1, <1>3 DEF Reload, vars, generator, history
<1> QED
  BY <1>2, <1>3 DEF Next, AllDone

\* Both invariants hold throughout.
LEMMA OrderInvariance == Spec => [](Inv /\ OrderInv)
<1> QED
  BY Invariance, InitOrder, OrderStep, PTL DEF Spec

\* However upstream cuts its events into reads and whenever a stream is cut
\* off, the client receives the events in order and without a gap, and all of
\* them if the stream is reported as completed.
THEOREM OrderKept == Spec => []ForwardedInOrder
<1>1. Inv /\ OrderInv => ForwardedInOrder
  <2> SUFFICES ASSUME Inv, OrderInv, NEW s \in Streams
               PROVE  /\ \A i \in DOMAIN sent[s] :
                            IF IsEvent(sent[s][i])
                            THEN i <= Len(received[s]) /\ sent[s][i].event = received[s][i]
                            ELSE i = Len(sent[s])
                      /\ \A i \in DOMAIN events[s] :
                            events[s][i].outcome = "Completed" =>
                               /\ Len(sent[s]) = Len(received[s])
                               /\ \A j \in DOMAIN sent[s] : IsEvent(sent[s][j])
    BY DEF ForwardedInOrder
  <2>1. Ordered(s)
    BY DEF OrderInv
  <2>2. Len(sent[s]) \in Nat /\ DOMAIN sent[s] = 1 .. Len(sent[s])
    BY StreamTyped DEF Inv
  <2>3. \A i \in DOMAIN sent[s] : i < Len(sent[s]) \/ i = Len(sent[s])
    BY <2>2
  <2>4. \A i \in DOMAIN sent[s] :
           IF IsEvent(sent[s][i])
           THEN i <= Len(received[s]) /\ sent[s][i].event = received[s][i]
           ELSE i = Len(sent[s])
    BY <2>1, <2>3 DEF Ordered
  <2>5. ASSUME NEW i \in DOMAIN events[s], events[s][i].outcome = "Completed"
        PROVE  /\ Len(sent[s]) = Len(received[s])
               /\ \A j \in DOMAIN sent[s] : IsEvent(sent[s][j])
    <3>1. pending[s] = "next" /\ queue[s] = <<>>
      BY <2>1, <2>5 DEF Ordered
    <3>2. Len(received[s]) = Len(sent[s]) + Len(<<>>) /\ Len(<<>>) = 0
      BY <2>1, <3>1 DEF Ordered
    <3>3. \A j \in DOMAIN sent[s] : IsEvent(sent[s][j])
      BY <2>1, <3>1 DEF Ordered
    <3> QED
      BY <2>2, <3>2, <3>3
  <2> QED
    BY <2>4, <2>5
<1> QED
  BY OrderInvariance, <1>1, PTL

\* No client is sent an event that calls a blocked tool, wherever among the
\* calls of the event it stands, and a stream cut off for one reports it.
THEOREM BlockedNeverForwarded == Spec => []BlockedToolsStopped
<1>1. OrderInv => BlockedToolsStopped
  BY DEF OrderInv, Stopped, BlockedToolsStopped
<1> QED
  BY OrderInvariance, <1>1, PTL
=============================================================================
