------------------------------- MODULE EventLog -------------------------------
(***************************************************************************)
(* EventLog (src/telemetry.rs) and GET /events (events_handler in            *)
(* src/gateway.rs), read by a consumer that follows the README: it persists  *)
(* the id of the last event it has read as a cursor, together with the       *)
(* generation it is valid in, and starts over when the generation changes.   *)
(*                                                                           *)
(* push and since each hold the log's mutex, so each is one step; pushes of  *)
(* concurrent requests interleave with polls, an answer can be delayed or    *)
(* lost, and the process can be restarted at any time, which loses the log.  *)
(* The contents of an event do not matter here: an event is its id.          *)
(***************************************************************************)
EXTENDS Naturals, Sequences

CONSTANTS Capacity,        \* SYMFYNITY_EVENT_LOG_CAPACITY
          Limit,           \* the consumer's limit parameter
          MaxLimit,        \* the server's cap on it: 1000 in the code
          MaxPushes,       \* bound: pushes per generation
          MaxGeneration    \* bound: number of restarts

ASSUME EventLogOK == /\ Capacity \in Nat
                     /\ Limit \in Nat \ {0}
                     /\ MaxLimit \in Nat \ {0}

VARIABLES log,         \* the ids in the ring buffer, oldest first
          nextId,      \* next_id
          generation,  \* the process's generation; later processes have later ones
          reply,       \* the answer on its way to the consumer
          cursor,      \* the consumer's cursor ...
          cursorGen,   \* ... and the generation it belongs to
          read         \* history: <<generation, id>> in the order read

server == <<log, nextId, generation>>
consumer == <<cursor, cursorGen, read>>
vars == <<server, reply, consumer>>

NoReply == [gen |-> 0, ids |-> <<>>]

Least(m, n) == IF m < n THEN m ELSE n

\* The last n elements of q, and the first n.
Last(q, n) == SubSeq(q, Len(q) - Least(n, Len(q)) + 1, Len(q))
First(q, n) == SubSeq(q, 1, Least(n, Len(q)))

\* The ring buffer has room for one event at least.
Room == IF Capacity = 0 THEN 1 ELSE Capacity

Init == /\ log = <<>>
        /\ nextId = 1
        /\ generation = 1
        /\ reply = NoReply
        /\ cursor = 0
        /\ cursorGen = 1
        /\ read = <<>>

\* Mutant: the id is the event's place in the buffer.
PushByPlace == /\ nextId <= MaxPushes
               /\ log' = Last(Append(log, Len(log) + 1), Room)
               /\ nextId' = nextId + 1
               /\ UNCHANGED <<generation, reply, consumer>>

\* Some request ends: its event gets the next id, and the oldest is evicted.
Push == /\ nextId <= MaxPushes
        /\ log' = Last(Append(log, nextId), Room)
        /\ nextId' = nextId + 1
        /\ UNCHANGED <<generation, reply, consumer>>

\* Mutants of Since: the event at the cursor is returned again; the page holds
\* the newest events instead of the oldest.
SinceInclusive(id, limit) == LET Newer(i) == i >= id
                             IN  First(SelectSeq(log, Newer), limit)
SinceNewest(id, limit) == LET Newer(i) == i > id
                          IN  Last(SelectSeq(log, Newer), limit)

\* since(id, limit): from the oldest event on, those behind id up to the limit.
Since(id, limit) ==
    LET page[i \in 0 .. Len(log)] ==
           IF i = 0 THEN <<>>
           ELSE IF log[i] > id /\ Len(page[i - 1]) < limit THEN Append(page[i - 1], log[i])
           ELSE page[i - 1]
    IN  page[Len(log)]

\* The consumer polls and the server answers from the log as it is now.
Poll == /\ reply = NoReply
        /\ reply' = [gen |-> generation, ids |-> Since(cursor, Least(Limit, MaxLimit))]
        /\ UNCHANGED <<server, consumer>>

\* The answer is of the cursor's generation: the consumer reads on.
ReadPage == /\ reply # NoReply
            /\ reply.gen = cursorGen
            /\ read' = read \o [i \in DOMAIN reply.ids |-> <<reply.gen, reply.ids[i]>>]
            /\ cursor' = IF reply.ids = <<>> THEN cursor ELSE reply.ids[Len(reply.ids)]
            /\ reply' = NoReply
            /\ UNCHANGED <<server, cursorGen>>

\* Mutant: the consumer takes the new generation but keeps its cursor.
StartOverKeepingCursor == /\ reply # NoReply
                          /\ reply.gen # cursorGen
                          /\ cursorGen' = reply.gen
                          /\ reply' = NoReply
                          /\ UNCHANGED <<server, cursor, read>>

\* It is not: the server was restarted, and the consumer starts over.
StartOver == /\ reply # NoReply
             /\ reply.gen # cursorGen
             /\ cursor' = 0
             /\ cursorGen' = reply.gen
             /\ reply' = NoReply
             /\ UNCHANGED <<server, read>>

\* The answer is lost; the consumer will poll again with the same cursor.
LoseReply == /\ reply # NoReply
             /\ reply' = NoReply
             /\ UNCHANGED <<server, consumer>>

\* A new process starts with an empty log; an answer already sent may arrive.
Restart == /\ generation < MaxGeneration
           /\ log' = <<>>
           /\ nextId' = 1
           /\ generation' = generation + 1
           /\ UNCHANGED <<reply, consumer>>

Next == Push \/ Poll \/ ReadPage \/ StartOver \/ LoseReply \/ Restart

Spec == Init /\ [][Next]_vars

\* The consumer keeps polling and not every answer is lost.
FairSpec == Spec /\ WF_vars(Poll) /\ SF_vars(ReadPage) /\ SF_vars(StartOver)

-----------------------------------------------------------------------------
\* Ids run without a gap up to the newest one, and the buffer keeps the newest.
LogContiguous == /\ Len(log) = Least(nextId - 1, Room)
                 /\ \A i \in DOMAIN log : log[i] = nextId - 1 - Len(log) + i

Before(x, y) == x[1] < y[1] \/ (x[1] = y[1] /\ x[2] < y[2])

\* README, "Telemetry": the consumer reads every event at most once and in the
\* order of its id, across lost answers, retries and restarts, and never goes
\* back to an earlier process's events.
ReadOnceInOrder ==
    \A i \in DOMAIN read : i > 1 => Before(read[i - 1], read[i])

WasRead(id) == \E i \in DOMAIN read : read[i] = <<generation, id>>

Evicted(id) == id + Room < nextId

\* An event the cursor has passed was read, or evicted before it could be:
\* a page limit or a retry never makes the consumer skip one.
SkippedOnlyIfEvicted ==
    cursorGen = generation => \A id \in 1 .. cursor : WasRead(id) \/ Evicted(id)

\* The generations plan: a consumer must not silently stall after a restart.
\* Once pushes and restarts end, it has read everything still in the log.
ConsumerCatchesUp == <>[](\A i \in DOMAIN log : WasRead(log[i]))
=============================================================================
