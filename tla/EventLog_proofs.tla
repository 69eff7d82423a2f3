---------------------------- MODULE EventLog_proofs ----------------------------
(***************************************************************************)
(* Proofs that the event log, for any capacity and any number of pushes and  *)
(* restarts, keeps the newest events and no gap between their ids, and that  *)
(* a consumer that polls it, whatever answers are lost, reads every event    *)
(* once and in order and skips none that it could have read.                 *)
(***************************************************************************)
EXTENDS EventLog, SequenceTheorems, InductionTheorems, TLAPS

\* The ids are numbers, and no gap is between them.
Inv == /\ log \in Seq(Nat)
       /\ nextId \in Nat \ {0}
       /\ LogContiguous

\* A capacity of zero is one of one.
LEMMA RoomForOne == Room \in Nat \ {0}
  BY EventLogOK DEF Room

\* What is left of a sequence of which the last n elements are kept.
LEMMA LastKeeps ==
  ASSUME NEW q \in Seq(Nat), NEW n \in Nat
  PROVE  /\ Last(q, n) \in Seq(Nat)
         /\ Len(Last(q, n)) = Least(n, Len(q))
         /\ \A i \in 1 .. Least(n, Len(q)) : Last(q, n)[i] = q[Len(q) - Least(n, Len(q)) + i]
<1> DEFINE k == Least(n, Len(q))
<1>1. k \in Nat /\ k <= Len(q) /\ Len(q) \in Nat
  BY LenProperties DEF Least
<1> HIDE DEF k
<1>2. /\ Len(q) - k + 1 \in 1 .. Len(q) + 1
      /\ (IF Len(q) - k + 1 <= Len(q) THEN Len(q) - (Len(q) - k + 1) + 1 ELSE 0) = k
  BY <1>1
<1>3. /\ SubSeq(q, Len(q) - k + 1, Len(q)) \in Seq(Nat)
      /\ Len(SubSeq(q, Len(q) - k + 1, Len(q))) = k
      /\ \A i \in 1 .. k : SubSeq(q, Len(q) - k + 1, Len(q))[i] = q[(Len(q) - k + 1) + i - 1]
  BY <1>1, <1>2, SubSeqProperties
<1>4. \A i \in 1 .. k : (Len(q) - k + 1) + i - 1 = Len(q) - k + i
  BY <1>1
<1> QED
  BY <1>3, <1>4 DEF Last, k

\* A push gives the next id and evicts the oldest event if there is no room.
LEMMA PushKeeps == ASSUME Inv, Push PROVE Inv'
<1> DEFINE q == Append(log, nextId)
           n == Len(log)
           k == Least(Room, n + 1)
<1>1. /\ log \in Seq(Nat) /\ nextId \in Nat \ {0} /\ n \in Nat
      /\ n = Least(nextId - 1, Room)
      /\ DOMAIN log = 1 .. n
      /\ \A i \in 1 .. n : log[i] = nextId - 1 - n + i
  BY LenProperties DEF Inv, LogContiguous
<1>2. /\ q \in Seq(Nat) /\ Len(q) = n + 1
      /\ \A i \in 1 .. n : q[i] = log[i]
      /\ q[n + 1] = nextId
  BY <1>1, AppendProperties
<1>3. log' = Last(q, Room) /\ nextId' = nextId + 1
  BY DEF Push
<1>4. /\ log' \in Seq(Nat) /\ Len(log') = k
      /\ \A i \in 1 .. k : log'[i] = q[n + 1 - k + i]
  <2> HIDE DEF q, n
  <2>1. /\ Last(q, Room) \in Seq(Nat)
        /\ Len(Last(q, Room)) = Least(Room, Len(q))
        /\ \A i \in 1 .. Least(Room, Len(q)) :
              Last(q, Room)[i] = q[Len(q) - Least(Room, Len(q)) + i]
    BY <1>2, RoomForOne, LastKeeps
  <2>2. Least(Room, Len(q)) = k
    BY <1>2
  <2> HIDE DEF k
  <2>3. ASSUME NEW i \in 1 .. k
        PROVE  Last(q, Room)[i] = q[n + 1 - k + i]
    <3>1. Len(q) - Least(Room, Len(q)) + i = n + 1 - k + i
      <4>1. k \in Nat
        BY <1>1, RoomForOne DEF k, Least
      <4> QED
        BY <1>1, <1>2, <2>2, <4>1
    <3>2. Last(q, Room)[i] = q[Len(q) - Least(Room, Len(q)) + i]
      BY <2>1, <2>2
    <3> QED
      BY <3>1, <3>2
  <2> QED
    BY <1>3, <2>1, <2>2, <2>3
<1> HIDE DEF q, n
<1>5. k \in 1 .. n + 1 /\ k = Least(nextId' - 1, Room)
  <2>1. nextId' - 1 = nextId
    BY <1>1, <1>3
  <2>2. CASE nextId - 1 < Room
    <3>1. n = nextId - 1 /\ nextId <= Room
      BY <1>1, <2>2, RoomForOne DEF Least
    <3> QED
      BY <1>1, <2>1, <3>1, RoomForOne DEF Least
  <2>3. CASE ~(nextId - 1 < Room)
    <3>1. n = Room /\ nextId > Room
      BY <1>1, <2>3, RoomForOne DEF Least
    <3> QED
      BY <1>1, <2>1, <3>1, RoomForOne DEF Least
  <2> QED
    BY <2>2, <2>3
<1>6. \A i \in 1 .. n + 1 : q[i] = nextId - 1 - n + i
  <2> SUFFICES ASSUME NEW i \in 1 .. n + 1
               PROVE  q[i] = nextId - 1 - n + i
    OBVIOUS
  <2>1. CASE i = n + 1
    BY <1>1, <1>2, <2>1
  <2>2. CASE i \in 1 .. n
    BY <1>1, <1>2, <2>2
  <2> QED
    BY <1>1, <2>1, <2>2
<1> HIDE DEF k
<1>7. \A i \in 1 .. k : log'[i] = nextId' - 1 - Len(log') + i
  <2> SUFFICES ASSUME NEW i \in 1 .. k
               PROVE  log'[i] = nextId' - 1 - k + i
    BY <1>4
  <2>1. n + 1 - k + i \in 1 .. n + 1
    BY <1>1, <1>5
  <2>2. log'[i] = nextId - 1 - n + (n + 1 - k + i)
    BY <1>4, <1>6, <2>1
  <2> QED
    BY <1>1, <1>3, <1>5, <2>2
<1>8. DOMAIN log' = 1 .. Len(log')
  BY <1>4, LenProperties
<1>9. nextId' \in Nat \ {0} /\ Len(log') = Least(nextId' - 1, Room)
  BY <1>1, <1>3, <1>4, <1>5
<1> QED
  BY <1>4, <1>7, <1>8, <1>9 DEF Inv, LogContiguous

\* A log without events has no gap.
LEMMA EmptyKeeps == log = <<>> /\ nextId = 1 => Inv
<1> SUFFICES ASSUME log = <<>>, nextId = 1
             PROVE  Inv
  OBVIOUS
<1>1. Least(1 - 1, Room) = 0
  BY RoomForOne DEF Least
<1>2. log \in Seq(Nat) /\ Len(log) = 0 /\ \A i \in DOMAIN log : FALSE
  OBVIOUS
<1> QED
  BY <1>1, <1>2 DEF Inv, LogContiguous

\* A new process starts with an empty log.
LEMMA RestartKeeps == ASSUME Restart PROVE Inv'
<1>1. log' = <<>> /\ nextId' = 1
  BY DEF Restart
<1>2. Least(1 - 1, Room) = 0
  BY RoomForOne DEF Least
<1>3. log' \in Seq(Nat) /\ Len(log') = 0 /\ \A i \in DOMAIN log' : FALSE
  BY <1>1
<1> QED
  BY <1>1, <1>2, <1>3 DEF Inv, LogContiguous

\* Every step keeps the log.
LEMMA LogStep == Inv /\ [Next]_vars => Inv'
<1> SUFFICES ASSUME Inv, [Next]_vars
             PROVE  Inv'
  OBVIOUS
<1>1. CASE Push
  BY <1>1, PushKeeps
<1>2. CASE Restart
  BY <1>2, RestartKeeps
<1>3. CASE Poll \/ ReadPage \/ StartOver \/ LoseReply \/ UNCHANGED vars
  <2>1. UNCHANGED <<log, nextId>>
    BY <1>3 DEF Poll, ReadPage, StartOver, LoseReply, vars, server
  <2> QED
    BY <2>1 DEF Inv, LogContiguous
<1> QED
  BY <1>1, <1>2, <1>3 DEF Next

\* Whatever the capacity, the log holds the newest events of the process, as
\* many as there is room for, under ids without a gap: what a consumer does not
\* find behind its cursor was evicted and is not still to come.
THEOREM NoGapInLog == Spec => []LogContiguous
<1>1. Init => Inv
  BY EmptyKeeps DEF Init
<1>2. Inv => LogContiguous
  BY DEF Inv
<1> QED
  BY <1>1, <1>2, LogStep, PTL DEF Spec

-----------------------------------------------------------------------------
(* What a poll gives.                                                        *)

\* The newest id that is not in the log any more, and the id a page begins
\* behind.
Gone == nextId - 1 - Len(log)
Start(id) == IF id > Gone THEN id ELSE Gone

\* How many events a page holds when the first i of the log have been passed.
Taken(id, limit, i) == IF Gone + i <= Start(id) THEN 0 ELSE Least(limit, Gone + i - Start(id))

\* The log as numbers: ids from Gone + 1 to nextId - 1.
LEMMA LogIds ==
  ASSUME Inv
  PROVE  /\ Len(log) \in Nat /\ Gone \in Nat /\ Gone + Len(log) = nextId - 1
         /\ \A i \in 1 .. Len(log) : log[i] = Gone + i
<1>1. /\ Len(log) \in Nat /\ DOMAIN log = 1 .. Len(log)
      /\ Len(log) = Least(nextId - 1, Room) /\ nextId \in Nat \ {0}
      /\ \A i \in DOMAIN log : log[i] = nextId - 1 - Len(log) + i
  BY LenProperties DEF Inv, LogContiguous
<1>2. Len(log) <= nextId - 1
  BY <1>1, RoomForOne DEF Least
<1> QED
  BY <1>1, <1>2 DEF Gone

\* The loop of since, event by event: the page behind the i-th event.
LEMMA SinceLoop ==
  ASSUME Inv, NEW id \in Nat, NEW limit \in Nat
  PROVE  \E page :
            /\ Since(id, limit) = page[Len(log)]
            /\ page[0] = <<>>
            /\ \A i \in 1 .. Len(log) :
                  page[i] = IF log[i] > id /\ Len(page[i - 1]) < limit
                            THEN Append(page[i - 1], log[i])
                            ELSE page[i - 1]
<1> DEFINE n == Len(log)
           Run(page) == page = [i \in 0 .. Len(log) |->
                                  IF i = 0 THEN <<>>
                                  ELSE IF log[i] > id /\ Len(page[i - 1]) < limit
                                       THEN Append(page[i - 1], log[i])
                                  ELSE page[i - 1]]
           it == CHOOSE page : Run(page)
           step == [i \in 1 .. n |-> [v \in Seq(Nat) |->
                       IF log[i] > id /\ Len(v) < limit THEN Append(v, log[i]) ELSE v]]
<1>1. n \in Nat /\ \A i \in 1 .. n : log[i] \in Nat
  BY LogIds
<1>2. step \in [1 .. n -> [Seq(Nat) -> Seq(Nat)]]
  <2>1. ASSUME NEW i \in 1 .. n, NEW v \in Seq(Nat)
        PROVE  (IF log[i] > id /\ Len(v) < limit THEN Append(v, log[i]) ELSE v) \in Seq(Nat)
    BY <1>1
  <2> QED
    BY <2>1
<1>3. \E g : Run(g)
  <2> HIDE DEF step, n
  <2>1. PICK g : LoopRuns(Seq(Nat), <<>>, n, step, g)
    <3>1. <<>> \in Seq(Nat)
      OBVIOUS
    <3> QED
      BY <1>1, <1>2, <3>1, LoopsRun
  <2>2. ASSUME NEW i \in 0 .. n
        PROVE  g[i] = IF i = 0 THEN <<>>
                      ELSE IF log[i] > id /\ Len(g[i - 1]) < limit THEN Append(g[i - 1], log[i])
                      ELSE g[i - 1]
    <3>1. CASE i = 0
      BY <2>1, <3>1 DEF LoopRuns
    <3>2. CASE i # 0
      <4>1. i \in 1 .. n /\ i - 1 \in 0 .. n
        BY <1>1, <3>2
      <4>2. g[i - 1] \in Seq(Nat) /\ g[i] = step[i][g[i - 1]]
        BY <2>1, <3>2, <4>1 DEF LoopRuns
      <4> QED
        BY <3>2, <4>1, <4>2 DEF step
    <3> QED
      BY <3>1, <3>2
  <2>3. g = [i \in 0 .. n |-> IF i = 0 THEN <<>>
                              ELSE IF log[i] > id /\ Len(g[i - 1]) < limit
                                   THEN Append(g[i - 1], log[i])
                              ELSE g[i - 1]]
    BY <2>1, <2>2 DEF LoopRuns
  <2> QED
    BY <2>3 DEF n
<1>4. Run(it)
  <2> HIDE DEF Run
  <2> QED
    BY <1>3
<1>5. Since(id, limit) = it[Len(log)]
  BY Zenon DEF Since
<1>6. it[0] = <<>>
  <2> HIDE DEF it
  <2> QED
    BY <1>1, <1>4
<1>7. ASSUME NEW i \in 1 .. Len(log)
      PROVE  it[i] = IF log[i] > id /\ Len(it[i - 1]) < limit
                     THEN Append(it[i - 1], log[i])
                     ELSE it[i - 1]
  <2> HIDE DEF it
  <2>1. i \in 0 .. Len(log) /\ i # 0
    BY <1>1
  <2> QED
    BY <1>4, <2>1
<1> HIDE DEF it
<1> QED
  BY <1>5, <1>6, <1>7

\* A page holds the ids behind its start, one after the other.
LEMMA SincePage ==
  ASSUME Inv, NEW id \in Nat, NEW limit \in Nat
  PROVE  /\ Since(id, limit) \in Seq(Nat)
         /\ \A i \in 1 .. Len(Since(id, limit)) : Since(id, limit)[i] = Start(id) + i
         /\ Start(id) \in Nat /\ Start(id) >= id /\ (Start(id) = id \/ Start(id) = Gone)
<1> DEFINE n == Len(log)
<1>1. n \in Nat /\ Gone \in Nat /\ \A i \in 1 .. n : log[i] = Gone + i
  BY LogIds
<1>2. Start(id) \in Nat /\ Start(id) >= id /\ Start(id) >= Gone
  BY <1>1 DEF Start
<1>3. PICK page :
         /\ Since(id, limit) = page[n]
         /\ page[0] = <<>>
         /\ \A i \in 1 .. n : page[i] = IF log[i] > id /\ Len(page[i - 1]) < limit
                                        THEN Append(page[i - 1], log[i])
                                        ELSE page[i - 1]
  BY SinceLoop
<1> DEFINE Good(i) == /\ page[i] \in Seq(Nat)
                      /\ Len(page[i]) = Taken(id, limit, i)
                      /\ \A k \in 1 .. Len(page[i]) : page[i][k] = Start(id) + k
           T == { i \in 0 .. n : Good(i) }
<1> HIDE DEF n
<1>4. 0 \in T
  <2>1. Taken(id, limit, 0) = 0
    BY <1>1, <1>2 DEF Taken
  <2>2. page[0] \in Seq(Nat) /\ Len(page[0]) = 0
    BY <1>3
  <2> QED
    BY <1>1, <2>1, <2>2
<1>5. ASSUME NEW i \in T, i \in 0 .. n - 1 PROVE i + 1 \in T
  <2>1. /\ i + 1 \in 1 .. n /\ (i + 1) - 1 = i /\ i \in Nat
        /\ log[i + 1] = Gone + i + 1
    BY <1>1, <1>5
  <2>2. Good(i)
    OBVIOUS
  <2>3. page[i + 1] = IF Gone + i + 1 > id /\ Len(page[i]) < limit
                      THEN Append(page[i], Gone + i + 1) ELSE page[i]
    BY <1>3, <2>1
  <2>4. Taken(id, limit, i) \in Nat
    BY <1>1, <1>2, <2>1 DEF Taken, Least
  <2>5. CASE Gone + i + 1 > id /\ Len(page[i]) < limit
    <3>1. Start(id) < Gone + i + 1
      BY <1>1, <2>1, <2>5 DEF Start
    <3>2. /\ Taken(id, limit, i) = Gone + i - Start(id)
          /\ Taken(id, limit, i + 1) = Gone + i + 1 - Start(id)
      BY <1>1, <1>2, <2>1, <2>2, <2>5, <3>1 DEF Taken, Least
    <3>3. page[i + 1] = Append(page[i], Gone + i + 1)
      BY <2>3, <2>5
    <3>4. /\ page[i + 1] \in Seq(Nat) /\ Len(page[i + 1]) = Len(page[i]) + 1
          /\ \A k \in 1 .. Len(page[i]) : page[i + 1][k] = page[i][k]
          /\ page[i + 1][Len(page[i]) + 1] = Gone + i + 1
      <4>1. Gone + i + 1 \in Nat
        BY <1>1, <2>1
      <4> QED
        BY <2>2, <3>3, <4>1, AppendProperties
    <3>5. Len(page[i + 1]) = Taken(id, limit, i + 1)
      BY <1>1, <1>2, <2>1, <2>2, <3>2, <3>4
    <3>6. ASSUME NEW k \in 1 .. Len(page[i + 1])
          PROVE  page[i + 1][k] = Start(id) + k
      <4>1. CASE k \in 1 .. Len(page[i])
        BY <2>2, <3>4, <4>1
      <4>2. CASE k = Len(page[i]) + 1
        <5>1. Start(id) + k = Gone + i + 1
          BY <1>1, <1>2, <2>1, <2>2, <3>2, <4>2
        <5> QED
          BY <3>4, <4>2, <5>1
      <4>3. Len(page[i]) \in Nat
        BY <2>2, <2>4
      <4> QED
        BY <3>4, <4>1, <4>2, <4>3
    <3> QED
      BY <1>1, <2>1, <3>4, <3>5, <3>6
  <2>6. CASE ~(Gone + i + 1 > id /\ Len(page[i]) < limit)
    <3>1. page[i + 1] = page[i]
      BY <2>3, <2>6
    <3>2. Taken(id, limit, i + 1) = Taken(id, limit, i)
      <4>1. CASE Gone + i + 1 <= id
        BY <1>1, <1>2, <2>1, <4>1 DEF Taken
      <4>2. CASE ~(Taken(id, limit, i) < limit)
        BY <1>1, <1>2, <2>1, <2>4, <4>2 DEF Taken, Least
      <4>3. ~(Gone + i + 1 > id) => Gone + i + 1 <= id
        BY <1>1, <2>1
      <4> QED
        BY <2>2, <2>6, <4>1, <4>2, <4>3
    <3> QED
      BY <1>1, <2>1, <2>2, <3>1, <3>2
  <2> QED
    BY <2>5, <2>6
<1>6. Good(n)
  <2> HIDE DEF Good
  <2>1. 0 .. n \subseteq T
    <3> HIDE DEF T
    <3> QED
      BY <1>1, <1>4, <1>5, InductiveUpTo
  <2>2. n \in 0 .. n
    BY <1>1
  <2> QED
    BY <2>1, <2>2
<1> QED
  BY <1>2, <1>3, <1>6 DEF Start

-----------------------------------------------------------------------------
(* The consumer.                                                             *)

ConsumerTyped == /\ generation \in Nat \ {0}
                 /\ cursor \in Nat
                 /\ cursorGen \in Nat /\ cursorGen <= generation
                 /\ read \in Seq(Nat \X Nat)
                 /\ reply \in [gen : Nat, ids : Seq(Nat)]

\* The consumer has read nothing behind its cursor.
CursorIsLast ==
    read # <<>> =>
       LET last == read[Len(read)]
       IN  last[1] < cursorGen \/ (last[1] = cursorGen /\ last[2] <= cursor)

\* A page is what follows id b, and what lies between the cursor and b was
\* evicted before the page was made.
PageBehind(b) == /\ cursor <= b
                 /\ \A i \in 1 .. Len(reply.ids) : reply.ids[i] = b + i
                 /\ reply.gen = generation => \A id \in cursor + 1 .. b : Evicted(id)

\* An answer on its way is no older than the cursor, and goes on from it.
ReplyGoesOn == reply # NoReply => /\ cursorGen <= reply.gen /\ reply.gen <= generation
                                  /\ \E b \in Nat : PageBehind(b)

ConsumerInv == /\ Inv
               /\ ConsumerTyped
               /\ CursorIsLast
               /\ ReplyGoesOn
               /\ ReadOnceInOrder
               /\ SkippedOnlyIfEvicted

\* What was evicted stays so.
LEMMA EvictedForGood ==
  ASSUME Inv, Push, NEW id \in Nat, Evicted(id)
  PROVE  Evicted(id)'
<1>1. nextId \in Nat /\ nextId' = nextId + 1 /\ Room \in Nat
  BY RoomForOne DEF Inv, Push
<1> QED
  BY <1>1 DEF Evicted

\* A push disturbs no consumer.
LEMMA PushServes == ASSUME ConsumerInv, Push PROVE ConsumerInv'
<1>1. Inv'
  BY PushKeeps DEF ConsumerInv
<1>2. UNCHANGED <<generation, reply, consumer>>
  BY DEF Push
<1>3. ConsumerTyped' /\ CursorIsLast' /\ ReadOnceInOrder'
  BY <1>2 DEF ConsumerInv, ConsumerTyped, CursorIsLast, ReadOnceInOrder, Before, consumer
<1>4. ReplyGoesOn'
  <2>1. ASSUME NEW b \in Nat, PageBehind(b) PROVE PageBehind(b)'
    <3>1. \A id \in cursor + 1 .. b : id \in Nat
      BY DEF ConsumerInv, ConsumerTyped
    <3>2. reply.gen = generation => \A id \in cursor + 1 .. b : Evicted(id)'
      BY <2>1, <3>1, EvictedForGood DEF ConsumerInv, PageBehind
    <3> QED
      BY <1>2, <2>1, <3>2 DEF PageBehind, consumer
  <2> QED
    BY <1>2, <2>1 DEF ConsumerInv, ReplyGoesOn, NoReply, consumer
<1>5. SkippedOnlyIfEvicted'
  <2>1. \A id \in 1 .. cursor : id \in Nat
    OBVIOUS
  <2>2. \A id \in 1 .. cursor : (WasRead(id) \/ Evicted(id)) => WasRead(id)' \/ Evicted(id)'
    BY <1>2, <2>1, EvictedForGood DEF ConsumerInv, WasRead, consumer
  <2> QED
    BY <1>2, <2>2 DEF ConsumerInv, SkippedOnlyIfEvicted, consumer
<1> QED
  BY <1>1, <1>3, <1>4, <1>5 DEF ConsumerInv

\* A poll is answered with a page that goes on from the cursor.
LEMMA PollServes == ASSUME ConsumerInv, Poll PROVE ConsumerInv'
<1> DEFINE limit == Least(Limit, MaxLimit)
           page == Since(cursor, limit)
<1>1. limit \in Nat /\ cursor \in Nat /\ Inv
  BY EventLogOK DEF Least, ConsumerInv, ConsumerTyped
<1>2. PICK b \in Nat : /\ page \in Seq(Nat)
                       /\ \A i \in 1 .. Len(page) : page[i] = b + i
                       /\ b >= cursor /\ (b = cursor \/ b = Gone)
  <2> HIDE DEF limit
  <2> QED
    BY <1>1, SincePage
<1>3. reply' = [gen |-> generation, ids |-> page] /\ UNCHANGED <<server, consumer>>
  BY DEF Poll
<1> HIDE DEF page
<1>4. Inv' /\ CursorIsLast' /\ ReadOnceInOrder'
  BY <1>3 DEF ConsumerInv, Inv, LogContiguous, CursorIsLast, ReadOnceInOrder, Before, consumer,
              server
<1>5. ConsumerTyped'
  BY <1>2, <1>3 DEF ConsumerInv, ConsumerTyped, consumer, server
<1>6. SkippedOnlyIfEvicted'
  BY <1>3 DEF ConsumerInv, SkippedOnlyIfEvicted, WasRead, Evicted, consumer, server
<1>7. \A id \in cursor + 1 .. b : Evicted(id)
  <2> SUFFICES ASSUME NEW id \in cursor + 1 .. b PROVE Evicted(id)
    OBVIOUS
  <2>1. /\ Len(log) = Least(nextId - 1, Room) /\ nextId \in Nat \ {0} /\ Room \in Nat
        /\ Gone = nextId - 1 - Len(log)
    BY <1>1, RoomForOne DEF Inv, LogContiguous, Gone
  <2>2. id \in Nat /\ id >= 1 /\ id <= Gone
    BY <1>1, <1>2
  <2>3. Len(log) = Room
    BY <2>1, <2>2 DEF Least
  <2> QED
    BY <2>1, <2>2, <2>3 DEF Evicted
<1>8. ReplyGoesOn'
  <2>1. reply'.gen = generation /\ reply'.ids = page
    BY <1>3
  <2>2. PageBehind(b)'
    BY <1>2, <1>3, <1>7, <2>1 DEF PageBehind, Evicted, consumer, server
  <2>3. cursorGen' <= reply'.gen /\ reply'.gen <= generation'
    BY <1>3, <2>1 DEF ConsumerInv, ConsumerTyped, consumer, server
  <2> QED
    BY <2>2, <2>3 DEF ReplyGoesOn
<1> QED
  BY <1>4, <1>5, <1>6, <1>8 DEF ConsumerInv

\* A page is read: what the consumer passes was read, or was evicted before.
LEMMA ReadServes == ASSUME ConsumerInv, ReadPage PROVE ConsumerInv'
<1> DEFINE ids == reply.ids
           m == Len(reply.ids)
           n == Len(read)
           page == [i \in DOMAIN reply.ids |-> <<reply.gen, reply.ids[i]>>]
<1>1. /\ generation \in Nat \ {0} /\ cursor \in Nat /\ cursorGen \in Nat
      /\ read \in Seq(Nat \X Nat)
      /\ reply.gen \in Nat /\ ids \in Seq(Nat)
      /\ reply # NoReply /\ reply.gen = cursorGen
  BY DEF ConsumerInv, ConsumerTyped, ReadPage
<1>2. n \in Nat /\ m \in Nat /\ DOMAIN ids = 1 .. m /\ DOMAIN read = 1 .. n
  BY <1>1, LenProperties
<1>3. PICK b \in Nat : PageBehind(b)
  BY <1>1 DEF ConsumerInv, ReplyGoesOn
<1>4. /\ cursor <= b /\ \A i \in 1 .. m : ids[i] = b + i
      /\ reply.gen = generation => \A id \in cursor + 1 .. b : Evicted(id)
  BY <1>3 DEF PageBehind
<1>5. page \in Seq(Nat \X Nat) /\ Len(page) = m /\ \A k \in 1 .. m : page[k] = <<cursorGen, b + k>>
  <2>1. page = [i \in 1 .. m |-> <<cursorGen, b + i>>]
    BY <1>1, <1>2, <1>4
  <2> HIDE DEF page, m
  <2>2. \A i \in 1 .. m : <<cursorGen, b + i>> \in Nat \X Nat
    BY <1>1
  <2>3. page \in [1 .. m -> Nat \X Nat]
    BY <2>1, <2>2
  <2> QED
    BY <1>2, <2>1, <2>3
<1>6. /\ read' = read \o page /\ reply' = NoReply
      /\ cursor' = IF ids = <<>> THEN cursor ELSE ids[m]
      /\ UNCHANGED <<server, cursorGen>>
  BY DEF ReadPage
<1> HIDE DEF ids, m, n, page
<1>7. /\ read' \in Seq(Nat \X Nat) /\ Len(read') = n + m /\ DOMAIN read' = 1 .. n + m
      /\ \A i \in 1 .. n : read'[i] = read[i]
      /\ \A k \in 1 .. m : read'[n + k] = <<cursorGen, b + k>>
  <2>1. /\ read \o page \in Seq(Nat \X Nat) /\ Len(read \o page) = Len(read) + Len(page)
        /\ \A i \in 1 .. Len(read) + Len(page) :
              (read \o page)[i] = IF i <= Len(read) THEN read[i] ELSE page[i - Len(read)]
    BY <1>1, <1>5, ConcatProperties
  <2>2. Len(read) = n
    BY DEF n
  <2>3. read' \in Seq(Nat \X Nat) /\ Len(read') = n + m
    BY <1>5, <1>6, <2>1, <2>2
  <2>4. \A i \in 1 .. n : read'[i] = read[i]
    BY <1>2, <1>5, <1>6, <2>1, <2>2
  <2>5. ASSUME NEW k \in 1 .. m PROVE read'[n + k] = <<cursorGen, b + k>>
    <3>1. n + k \in 1 .. n + m /\ ~(n + k <= n) /\ (n + k) - n = k
      BY <1>2
    <3> QED
      BY <1>5, <1>6, <2>1, <2>2, <3>1
  <2>6. DOMAIN read' = 1 .. n + m
    BY <2>3, LenProperties
  <2> QED
    BY <2>3, <2>4, <2>5, <2>6
<1>8. cursor' \in Nat /\ cursor' = IF m = 0 THEN cursor ELSE b + m
  <2>1. ids = <<>> <=> m = 0
    BY <1>1, EmptySeq DEF m, ids
  <2>2. m # 0 => m \in 1 .. m
    BY <1>2
  <2> QED
    BY <1>1, <1>2, <1>4, <1>6, <2>1, <2>2
<1>9. n # 0 => /\ read[n] \in Nat \X Nat
               /\ read[n][1] < cursorGen \/ (read[n][1] = cursorGen /\ read[n][2] <= cursor)
  <2>1. n # 0 => read # <<>> /\ n \in 1 .. n
    BY <1>1, <1>2, EmptySeq DEF n
  <2> QED
    BY <1>1, <1>2, <2>1 DEF ConsumerInv, CursorIsLast, n
<1>10. ConsumerTyped'
  <2>1. NoReply \in [gen : Nat, ids : Seq(Nat)]
    BY DEF NoReply
  <2> QED
    BY <1>6, <1>7, <1>8, <2>1 DEF ConsumerInv, ConsumerTyped, server
<1>11. Inv'
  BY <1>6 DEF ConsumerInv, Inv, LogContiguous, server
<1>12. ReplyGoesOn'
  BY <1>6 DEF ReplyGoesOn
<1>13. CursorIsLast'
  <2>1. CASE m = 0
    <3>1. cursor' = cursor /\ Len(read') = n /\ cursorGen' = cursorGen
      BY <1>2, <1>6, <1>7, <1>8, <2>1
    <3>2. n # 0 => n \in 1 .. n
      BY <1>2
    <3>3. n = 0 => read' = <<>>
      BY <1>7, <3>1, EmptySeq
    <3> QED
      BY <1>7, <1>9, <3>1, <3>2, <3>3 DEF CursorIsLast
  <2>2. CASE m # 0
    <3>1. m \in 1 .. m /\ read'[n + m] = <<cursorGen, b + m>> /\ cursor' = b + m
      BY <1>2, <1>7, <1>8, <2>2
    <3>2. read'[Len(read')] = <<cursorGen', cursor'>>
      BY <1>6, <1>7, <3>1
    <3> QED
      BY <1>8, <3>2 DEF CursorIsLast
  <2> QED
    BY <2>1, <2>2
<1>14. ReadOnceInOrder'
  <2> SUFFICES ASSUME NEW i \in 1 .. n + m, i > 1
               PROVE  Before(read'[i - 1], read'[i])
    BY <1>7 DEF ReadOnceInOrder, Before
  <2>1. CASE i <= n
    <3>1. i \in 1 .. n /\ i - 1 \in 1 .. n
      BY <1>2, <2>1
    <3>2. Before(read[i - 1], read[i])
      BY <1>2, <3>1 DEF ConsumerInv, ReadOnceInOrder
    <3> QED
      BY <1>7, <3>1, <3>2
  <2>2. CASE i = n + 1
    <3>1. n # 0 /\ n \in 1 .. n /\ i - 1 = n /\ 1 \in 1 .. m
      BY <1>2, <2>2
    <3>2. read'[i] = <<cursorGen, b + 1>> /\ read'[i - 1] = read[n]
      BY <1>7, <2>2, <3>1
    <3>3. read[n] \in Nat \X Nat /\ cursor < b + 1
      BY <1>1, <1>4, <1>9, <3>1
    <3>4. read[n][2] <= cursor => read[n][2] < b + 1
      BY <1>1, <3>3
    <3> QED
      BY <1>9, <3>1, <3>2, <3>4 DEF Before
  <2>3. CASE i > n + 1
    <3>1. PICK k \in 2 .. m : i = n + k
      <4>1. i - n \in 2 .. m /\ i = n + (i - n)
        BY <1>2, <2>3
      <4> QED
        BY <4>1
    <3>2. /\ k \in 1 .. m /\ k - 1 \in 1 .. m /\ i - 1 = n + (k - 1)
      BY <1>2, <3>1
    <3>3. read'[i] = <<cursorGen, b + k>> /\ read'[i - 1] = <<cursorGen, b + (k - 1)>>
      BY <1>7, <3>1, <3>2
    <3>4. b + (k - 1) < b + k
      BY <3>1
    <3> QED
      BY <3>3, <3>4 DEF Before
  <2> QED
    BY <1>2, <2>1, <2>2, <2>3
<1>15. SkippedOnlyIfEvicted'
  <2> SUFFICES ASSUME cursorGen = generation, NEW id \in 1 .. cursor'
               PROVE  WasRead(id)' \/ Evicted(id)'
    BY <1>6 DEF SkippedOnlyIfEvicted, server
  <2>1. \A j \in Nat : Evicted(j)' <=> Evicted(j)
    BY <1>6 DEF Evicted, server
  <2>2. CASE id \in 1 .. cursor
    <3>1. WasRead(id) \/ Evicted(id)
      BY <2>2 DEF ConsumerInv, SkippedOnlyIfEvicted
    <3>2. WasRead(id) => WasRead(id)'
      <4> SUFFICES ASSUME NEW i \in 1 .. n, read[i] = <<generation, id>>
                   PROVE  WasRead(id)'
        BY <1>2 DEF WasRead
      <4>1. i \in DOMAIN read' /\ read'[i] = <<generation', id>>
        BY <1>2, <1>6, <1>7 DEF server
      <4> QED
        BY <4>1 DEF WasRead
    <3> QED
      BY <2>1, <3>1, <3>2
  <2>3. CASE id \in cursor + 1 .. b
    BY <1>1, <1>4, <2>1, <2>3
  <2>4. CASE id > b
    <3>1. PICK k \in 1 .. m : id = b + k
      <4>1. id - b \in 1 .. m /\ id = b + (id - b)
        BY <1>1, <1>2, <1>4, <1>8, <2>4
      <4> QED
        BY <4>1
    <3>2. n + k \in DOMAIN read' /\ read'[n + k] = <<generation', id>>
      BY <1>2, <1>6, <1>7, <3>1 DEF server
    <3> QED
      BY <3>2 DEF WasRead
  <2> QED
    BY <1>1, <1>4, <2>2, <2>3, <2>4
<1> QED
  BY <1>10, <1>11, <1>12, <1>13, <1>14, <1>15 DEF ConsumerInv

\* The consumer starts over in a later generation than it has read from.
LEMMA StartOverServes == ASSUME ConsumerInv, StartOver PROVE ConsumerInv'
<1>1. /\ reply # NoReply /\ reply.gen # cursorGen /\ cursor' = 0
      /\ cursorGen' = reply.gen /\ reply' = NoReply /\ UNCHANGED <<server, read>>
  BY DEF StartOver
<1>2. /\ reply.gen \in Nat /\ cursorGen \in Nat /\ cursorGen < reply.gen
      /\ reply.gen <= generation
  BY <1>1 DEF ConsumerInv, ConsumerTyped, ReplyGoesOn
<1>3. Inv' /\ ReadOnceInOrder'
  BY <1>1 DEF ConsumerInv, Inv, LogContiguous, ReadOnceInOrder, Before, server
<1>4. ConsumerTyped' /\ ReplyGoesOn'
  BY <1>1, <1>2 DEF ConsumerInv, ConsumerTyped, ReplyGoesOn, NoReply, server
<1>5. CursorIsLast'
  <2>1. ASSUME read # <<>> PROVE read[Len(read)][1] < cursorGen'
    <3>1. read[Len(read)] \in Nat \X Nat
      BY <2>1 DEF ConsumerInv, ConsumerTyped
    <3>2. read[Len(read)][1] <= cursorGen
      BY <2>1, <3>1 DEF ConsumerInv, ConsumerTyped, CursorIsLast
    <3>3. read[Len(read)][1] \in Nat
      BY <3>1
    <3> QED
      BY <1>1, <1>2, <3>2, <3>3
  <2> QED
    BY <1>1, <2>1 DEF CursorIsLast
<1>6. SkippedOnlyIfEvicted'
  BY <1>1 DEF SkippedOnlyIfEvicted
<1> QED
  BY <1>3, <1>4, <1>5, <1>6 DEF ConsumerInv

\* A lost answer leaves the consumer where it was.
LEMMA LossServes == ASSUME ConsumerInv, LoseReply PROVE ConsumerInv'
<1>1. reply' = NoReply /\ UNCHANGED <<server, consumer>>
  BY DEF LoseReply
<1> QED
  BY <1>1 DEF ConsumerInv, Inv, LogContiguous, ConsumerTyped, CursorIsLast, ReplyGoesOn,
              ReadOnceInOrder, Before, SkippedOnlyIfEvicted, WasRead, Evicted, NoReply,
              server, consumer

\* A new process is one of which the consumer knows nothing yet.
LEMMA RestartServes == ASSUME ConsumerInv, Restart PROVE ConsumerInv'
<1>1. generation' = generation + 1 /\ UNCHANGED <<reply, consumer>>
  BY DEF Restart
<1>2. Inv'
  BY RestartKeeps
<1>3. /\ generation \in Nat \ {0} /\ cursorGen \in Nat /\ cursorGen <= generation
      /\ reply.gen \in Nat
  BY DEF ConsumerInv, ConsumerTyped
<1>4. ConsumerTyped' /\ CursorIsLast' /\ ReadOnceInOrder'
  BY <1>1, <1>3 DEF ConsumerInv, ConsumerTyped, CursorIsLast, ReadOnceInOrder, Before, consumer
<1>5. SkippedOnlyIfEvicted'
  BY <1>1, <1>3 DEF SkippedOnlyIfEvicted, consumer
<1>6. ReplyGoesOn'
  <2> SUFFICES ASSUME reply # NoReply
               PROVE  /\ cursorGen <= reply.gen /\ reply.gen <= generation + 1
                      /\ \E b \in Nat : PageBehind(b)'
    BY <1>1 DEF ReplyGoesOn, consumer
  <2>1. PICK b \in Nat : PageBehind(b)
    BY DEF ConsumerInv, ReplyGoesOn
  <2>2. cursorGen <= reply.gen /\ reply.gen <= generation
    BY DEF ConsumerInv, ReplyGoesOn
  <2>3. PageBehind(b)'
    BY <1>1, <1>3, <2>1, <2>2 DEF PageBehind, consumer
  <2> QED
    BY <1>3, <2>2, <2>3
<1> QED
  BY <1>2, <1>4, <1>5, <1>6 DEF ConsumerInv

LEMMA InitConsumer == Init => ConsumerInv
<1> SUFFICES ASSUME Init PROVE ConsumerInv
  OBVIOUS
<1>1. Inv
  BY EmptyKeeps DEF Init
<1>2. ConsumerTyped
  BY DEF Init, ConsumerTyped, NoReply
<1> QED
  BY <1>1, <1>2 DEF Init, ConsumerInv, CursorIsLast, ReplyGoesOn, ReadOnceInOrder,
                    SkippedOnlyIfEvicted

LEMMA ConsumerStep == ConsumerInv /\ [Next]_vars => ConsumerInv'
<1> SUFFICES ASSUME ConsumerInv, [Next]_vars PROVE ConsumerInv'
  OBVIOUS
<1>1. CASE UNCHANGED vars
  BY <1>1 DEF ConsumerInv, Inv, LogContiguous, ConsumerTyped, CursorIsLast, ReplyGoesOn,
              PageBehind, ReadOnceInOrder, Before, SkippedOnlyIfEvicted, WasRead, Evicted,
              vars, server, consumer
<1> QED
  BY <1>1, PushServes, PollServes, ReadServes, StartOverServes, LossServes, RestartServes
  DEF Next

LEMMA AlwaysConsumer == Spec => []ConsumerInv
  BY InitConsumer, ConsumerStep, PTL DEF Spec

\* README, "Telemetry": a consumer that persists its cursor reads every event
\* at most once and in order, for any capacity and page limit, whatever pushes,
\* lost answers, late answers and restarts come between its polls.
THEOREM ConsumerReadsInOrder == Spec => []ReadOnceInOrder
<1>1. ConsumerInv => ReadOnceInOrder
  BY DEF ConsumerInv
<1> QED
  BY <1>1, AlwaysConsumer, PTL

\* ... and it skips no event but those evicted before it could read them.
THEOREM ConsumerSkipsOnlyEvicted == Spec => []SkippedOnlyIfEvicted
<1>1. ConsumerInv => SkippedOnlyIfEvicted
  BY DEF ConsumerInv
<1> QED
  BY <1>1, AlwaysConsumer, PTL
=============================================================================
