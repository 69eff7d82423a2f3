--------------------------- MODULE Accounting_proofs ---------------------------
(***************************************************************************)
(* Proofs about the accounting of one stream, for any upstreams and reads.   *)
(*                                                                           *)
(* Framing: however a byte sequence is split into reads, the frame buffer    *)
(* cuts the same events, and it runs in Accounting as SseFrames specifies    *)
(* it.  FramesDetermined speaks of the moments at which push has returned;   *)
(* the invariant that carries it through push's loop, FramesInv, says in     *)
(* addition that the cuts made so far are all the ends up to the last one.   *)
(*                                                                           *)
(* Costs: chunk_cost's loop is followed line by line, to what the data lines *)
(* of an event tell (EventCosts), and an event is a piece of the wire that   *)
(* has the wire's data lines (EventLines).                                   *)
(*                                                                           *)
(* Accounts: every event that raises recorded_so_far charges the rise, and   *)
(* none charges anything else (ChargeTyped, TokensChargedOnce); and what a   *)
(* stream has seen is what the wire's lines tell, up to the last event: its  *)
(* tools, and its tokens as soon as nothing behind a total tells any         *)
(* (SeenInv).                                                                *)
(***************************************************************************)
EXTENDS Accounting, SequenceTheorems, InductionTheorems, TLAPS

\* Where the last event ended.
LastEnd == ends[Len(ends)]

CutEnds == { ends[k] : k \in DOMAIN ends }

FramesTyped == /\ buf \in Seq(Bytes)
               /\ bytes \in Seq(Bytes)
               /\ frames \in Seq(Seq(Bytes))
               /\ ends \in Seq(Nat)
               /\ phase \in {"idle", "framing", "flushed"}
               /\ Len(ends) = Len(frames) + 1

\* The events cut lie one behind the other, and the buffer behind the last.
Contiguous == /\ \A k \in DOMAIN ends : ends[k] <= LastEnd
              /\ LastEnd <= Len(bytes)
              /\ \A k \in DOMAIN frames :
                    /\ ends[k] < ends[k + 1]
                    /\ frames[k] = SubSeq(bytes, ends[k] + 1, ends[k + 1])
              /\ buf = SubSeq(bytes, LastEnd + 1, Len(bytes))

\* The cuts are the ends of bytes up to the last cut, and once push has
\* returned there are no others.
CutsAreEnds ==
    /\ phase # "flushed" => CutEnds = {0} \cup { e \in FrameEnds(bytes) : e <= LastEnd }
    /\ phase = "idle" => \A i \in 2 .. Len(buf) : ~IsBoundary(buf, i)
    /\ phase = "flushed" => CutEnds = {0} \cup FrameEnds(bytes) \cup {Len(bytes)}

FramesInv == FramesTyped /\ Contiguous /\ CutsAreEnds

-----------------------------------------------------------------------------
(* Ends of a byte sequence.                                                  *)

\* Whether a byte ends an event does not depend on the bytes behind it.
LEMMA EndsStable ==
  ASSUME NEW b \in Seq(Bytes), NEW c \in Seq(Bytes), NEW i \in 1 .. Len(b)
  PROVE  ClosesBlankLine(b \o c, i) <=> ClosesBlankLine(b, i)
<1>1. \A j \in 1 .. Len(b) : (b \o c)[j] = b[j]
  BY ConcatProperties
<1>2. \A k \in 1 .. i : (2 * k <= i) => \A j \in (i - 2 * k + 1) .. i : j \in 1 .. Len(b)
  OBVIOUS
<1>3. \A k \in 1 .. i : (2 * k <= i /\ i # 2 * k) => i - 2 * k \in 1 .. Len(b)
  OBVIOUS
<1> QED
  BY <1>1, <1>2, <1>3 DEF ClosesBlankLine

\* An end is a blank line's second line feed ...
LEMMA EndIsBlankLine ==
  ASSUME NEW b, NEW i \in Nat, ClosesBlankLine(b, i)
  PROVE  i >= 2 /\ b[i - 1] = LF /\ b[i] = LF
<1>1. PICK k \in 1 .. i : 2 * k <= i /\ \A j \in (i - 2 * k + 1) .. i : b[j] = LF
  BY DEF ClosesBlankLine
<1>2. i >= 2 /\ i - 1 \in (i - 2 * k + 1) .. i /\ i \in (i - 2 * k + 1) .. i
  BY <1>1
<1> QED
  BY <1>1, <1>2

\* ... and the byte behind an end is none, whatever it is.
LEMMA EndsApart ==
  ASSUME NEW b, NEW i \in Nat, ClosesBlankLine(b, i)
  PROVE  ~ClosesBlankLine(b, i + 1)
<1> SUFFICES ASSUME ClosesBlankLine(b, i + 1)
             PROVE  FALSE
  OBVIOUS
<1>1. PICK k \in 1 .. i : /\ 2 * k <= i
                          /\ \A j \in (i - 2 * k + 1) .. i : b[j] = LF
                          /\ i = 2 * k \/ b[i - 2 * k] # LF
  BY DEF ClosesBlankLine
<1>2. PICK l \in 1 .. i + 1 : /\ 2 * l <= i + 1
                              /\ \A j \in (i + 1 - 2 * l + 1) .. i + 1 : b[j] = LF
                              /\ i + 1 = 2 * l \/ b[i + 1 - 2 * l] # LF
  BY DEF ClosesBlankLine
<1>3. CASE k < l
  <2>1. i - 2 * k \in (i + 1 - 2 * l + 1) .. i + 1 /\ i # 2 * k
    BY <1>2, <1>3
  <2> QED
    BY <1>1, <1>2, <2>1
<1>4. CASE l <= k
  <2>1. i + 1 - 2 * l \in (i - 2 * k + 1) .. i /\ i + 1 # 2 * l
    BY <1>1, <1>4
  <2> QED
    BY <1>1, <1>2, <2>1
<1> QED
  BY <1>3, <1>4

\* Between the last cut and the first blank line behind it there is no end.
LEMMA NoEndBetween ==
  ASSUME NEW b \in Seq(Bytes), NEW c \in 0 .. Len(b), c = 0 \/ ClosesBlankLine(b, c),
         NEW m \in Nat, \A i \in c + 2 .. m : ~(b[i - 1] = LF /\ b[i] = LF)
  PROVE  \A e \in c + 1 .. m : ~ClosesBlankLine(b, e)
<1> SUFFICES ASSUME NEW e \in c + 1 .. m, ClosesBlankLine(b, e)
             PROVE  FALSE
  OBVIOUS
<1>1. e >= 2 /\ b[e - 1] = LF /\ b[e] = LF
  BY EndIsBlankLine
<1>2. e = c + 1
  BY <1>1
<1>3. c # 0
  BY <1>1, <1>2
<1> QED
  BY <1>2, <1>3, EndsApart

\* The first blank line behind the last cut is an end.
LEMMA FirstBlankLineIsEnd ==
  ASSUME NEW b \in Seq(Bytes), NEW c \in 0 .. Len(b), c = 0 \/ ClosesBlankLine(b, c),
         NEW j \in c + 2 .. Len(b), b[j - 1] = LF, b[j] = LF,
         \A i \in c + 2 .. j - 1 : ~(b[i - 1] = LF /\ b[i] = LF)
  PROVE  ClosesBlankLine(b, j)
<1>1. CASE j > c + 2
  <2>1. j - 1 \in c + 2 .. j - 1 /\ j - 2 # 0
    BY <1>1
  <2>2. b[j - 2] # LF
    BY <2>1
  <2>3. \A i \in j - 2 * 1 + 1 .. j : b[i] = LF
    OBVIOUS
  <2> QED
    BY <2>1, <2>2, <2>3 DEF ClosesBlankLine
<1>2. CASE j = c + 2 /\ c = 0
  <2>1. \A i \in j - 2 * 1 + 1 .. j : b[i] = LF
    BY <1>2
  <2> QED
    BY <1>2, <2>1 DEF ClosesBlankLine
<1>3. CASE j = c + 2 /\ c # 0
  <2>1. PICK k \in 1 .. c : /\ 2 * k <= c
                            /\ \A i \in (c - 2 * k + 1) .. c : b[i] = LF
                            /\ c = 2 * k \/ b[c - 2 * k] # LF
    BY <1>3 DEF ClosesBlankLine
  <2>2. \A i \in (j - 2 * (k + 1) + 1) .. j : b[i] = LF
    BY <1>3, <2>1
  <2>3. k + 1 \in 1 .. j /\ 2 * (k + 1) <= j
    BY <1>3, <2>1
  <2>4. j = 2 * (k + 1) \/ b[j - 2 * (k + 1)] # LF
    BY <1>3, <2>1
  <2> QED
    BY <2>2, <2>3, <2>4 DEF ClosesBlankLine
<1> QED
  BY <1>1, <1>2, <1>3

-----------------------------------------------------------------------------
(* The buffer and its cuts.                                                  *)

\* A part of the rest of a sequence is a part of the sequence.
LEMMA SubSeqOfRest ==
  ASSUME NEW s \in Seq(Bytes), NEW c \in 0 .. Len(s),
         NEW m \in Nat \ {0}, NEW n \in 0 .. Len(s) - c
  PROVE  SubSeq(SubSeq(s, c + 1, Len(s)), m, n) = SubSeq(s, c + m, c + n)
<1> DEFINE rest == SubSeq(s, c + 1, Len(s))
           left == SubSeq(rest, m, n)
           right == SubSeq(s, c + m, c + n)
<1>1. Len(s) \in Nat /\ \A i \in 1 .. Len(s) : s[i] \in Bytes
  BY LenProperties
<1>2. /\ rest \in Seq(Bytes) /\ Len(rest) = Len(s) - c
      /\ \A i \in 1 .. Len(s) - c : rest[i] = s[c + i]
  <2>1. /\ rest \in Seq(Bytes)
        /\ Len(rest) = IF c + 1 <= Len(s) THEN Len(s) - (c + 1) + 1 ELSE 0
        /\ \A i \in 1 .. Len(s) - (c + 1) + 1 : rest[i] = s[c + 1 + i - 1]
    BY <1>1, SubSeqProperties
  <2> QED
    BY <1>1, <2>1
<1>3. /\ left \in Seq(Bytes) /\ Len(left) = IF m <= n THEN n - m + 1 ELSE 0
      /\ \A i \in 1 .. n - m + 1 : left[i] = rest[m + i - 1]
  <2>1. \A i \in m .. n : rest[i] \in Bytes
    BY <1>1, <1>2
  <2> HIDE DEF rest
  <2> QED
    BY <1>1, <2>1, SubSeqProperties
<1>4. /\ right \in Seq(Bytes) /\ Len(right) = IF c + m <= c + n THEN c + n - (c + m) + 1 ELSE 0
      /\ \A i \in 1 .. c + n - (c + m) + 1 : right[i] = s[c + m + i - 1]
  <2>1. \A i \in c + m .. c + n : s[i] \in Bytes
    BY <1>1
  <2> QED
    BY <1>1, <2>1, SubSeqProperties
<1>5. Len(left) = Len(right)
  BY <1>1, <1>3, <1>4
<1>6. \A i \in 1 .. Len(left) : left[i] = right[i]
  <2> SUFFICES ASSUME NEW i \in 1 .. Len(left)
               PROVE  left[i] = right[i]
    OBVIOUS
  <2>1. m <= n /\ i \in 1 .. n - m + 1
    BY <1>1, <1>3
  <2>2. left[i] = rest[m + i - 1] /\ right[i] = s[c + m + i - 1]
    BY <1>1, <1>3, <1>4, <2>1
  <2>3. m + i - 1 \in 1 .. Len(s) - c /\ c + (m + i - 1) = c + m + i - 1
    BY <1>1, <2>1
  <2>4. rest[m + i - 1] = s[c + (m + i - 1)]
    BY <1>2, <2>3
  <2> QED
    BY <2>2, <2>3, <2>4
<1> HIDE DEF left, right
<1>7. left = right
  BY <1>3, <1>4, <1>5, <1>6, SeqEqual
<1> QED
  BY <1>7 DEF left, right, rest

\* The buffer is what lies behind the last cut.
LEMMA BufferBehindLastEnd ==
  ASSUME FramesTyped, Contiguous
  PROVE  /\ Len(ends) \in Nat \ {0} /\ DOMAIN ends = 1 .. Len(ends)
         /\ LastEnd \in 0 .. Len(bytes)
         /\ LastEnd \in CutEnds
         /\ Len(buf) = Len(bytes) - LastEnd
         /\ \A i \in 1 .. Len(buf) : buf[i] = bytes[LastEnd + i]
<1>1. Len(ends) \in Nat \ {0} /\ DOMAIN ends = 1 .. Len(ends) /\ Len(bytes) \in Nat
  BY LenProperties DEF FramesTyped
<1>2. LastEnd \in 0 .. Len(bytes) /\ LastEnd \in CutEnds
  <2>1. Len(ends) \in DOMAIN ends
    BY <1>1
  <2>2. LastEnd \in CutEnds
    BY <2>1 DEF LastEnd, CutEnds
  <2>3. LastEnd \in Nat
    BY <1>1 DEF LastEnd, FramesTyped
  <2> QED
    BY <1>1, <2>2, <2>3 DEF Contiguous
<1>3. \A i \in LastEnd + 1 .. Len(bytes) : bytes[i] \in Bytes
  BY <1>2 DEF FramesTyped
<1>4. buf = SubSeq(bytes, LastEnd + 1, Len(bytes))
  BY DEF Contiguous
<1>5. /\ Len(buf) = Len(bytes) - LastEnd
      /\ \A i \in 1 .. Len(bytes) - LastEnd : buf[i] = bytes[LastEnd + 1 + i - 1]
  BY <1>1, <1>2, <1>3, <1>4, SubSeqProperties
<1>6. \A i \in 1 .. Len(buf) : LastEnd + 1 + i - 1 = LastEnd + i
  BY <1>2
<1> QED
  BY <1>1, <1>2, <1>5, <1>6

\* Cutting off a part of the buffer keeps the events contiguous.
LEMMA CutKeeps ==
  ASSUME FramesTyped, Contiguous, phase' \in {"idle", "framing", "flushed"},
         NEW i \in 1 .. Len(buf), Cut(i)
  PROVE  /\ FramesTyped' /\ Contiguous'
         /\ LastEnd' = LastEnd + i
         /\ CutEnds' = CutEnds \cup {LastEnd + i}
<1> DEFINE n == Len(ends)
           j == LastEnd + i
<1>1. /\ n \in Nat \ {0} /\ DOMAIN ends = 1 .. n /\ LastEnd \in 0 .. Len(bytes)
      /\ Len(buf) = Len(bytes) - LastEnd
  BY BufferBehindLastEnd
<1>2. j \in LastEnd + 1 .. Len(bytes) /\ j \in Nat /\ Len(bytes) \in Nat
  BY <1>1, LenProperties DEF FramesTyped
<1>3. ends' = Append(ends, j) /\ bytes' = bytes
  BY DEF Cut, LastEnd
<1>4. /\ ends' \in Seq(Nat) /\ Len(ends') = n + 1 /\ DOMAIN ends' = 1 .. n + 1
      /\ \A k \in 1 .. n : ends'[k] = ends[k]
      /\ ends'[n + 1] = j
  BY <1>2, <1>3, AppendProperties, LenProperties DEF FramesTyped
<1>5. LastEnd' = j
  BY <1>4 DEF LastEnd
<1>6. CutEnds' = CutEnds \cup {j}
  BY <1>1, <1>4 DEF CutEnds
<1>7. \A m \in 1 .. Len(buf) : buf[m] \in Bytes
  BY DEF FramesTyped
<1>8. SubSeq(buf, 1, i) \in Seq(Bytes) /\ buf' \in Seq(Bytes)
  <2>1. SubSeq(buf, 1, i) \in Seq(Bytes)
    BY <1>1, <1>7, SubSeqProperties
  <2>2. SubSeq(buf, i + 1, Len(buf)) \in Seq(Bytes)
    BY <1>1, <1>7, SubSeqProperties
  <2> QED
    BY <2>1, <2>2 DEF Cut
<1>9. /\ frames' \in Seq(Seq(Bytes)) /\ Len(frames') = n /\ DOMAIN frames' = 1 .. n
      /\ \A k \in 1 .. n - 1 : frames'[k] = frames[k]
      /\ frames'[n] = SubSeq(buf, 1, i)
  <2>1. frames' = Append(frames, SubSeq(buf, 1, i)) /\ Len(frames) = n - 1
    BY <1>1, LenProperties DEF Cut, FramesTyped
  <2>2. /\ frames' \in Seq(Seq(Bytes)) /\ Len(frames') = Len(frames) + 1
        /\ \A k \in 1 .. Len(frames) : frames'[k] = frames[k]
        /\ frames'[Len(frames) + 1] = SubSeq(buf, 1, i)
    BY <1>8, <2>1, AppendProperties DEF FramesTyped
  <2>3. DOMAIN frames' = 1 .. Len(frames')
    BY <2>2, LenProperties
  <2>4. Len(frames) + 1 = n
    BY <1>1, <2>1
  <2> QED
    BY <2>1, <2>2, <2>3, <2>4
<1>10. FramesTyped'
  BY <1>3, <1>4, <1>8, <1>9 DEF FramesTyped
<1>11. /\ SubSeq(buf, 1, i) = SubSeq(bytes, LastEnd + 1, j)
       /\ SubSeq(buf, i + 1, Len(buf)) = SubSeq(bytes, j + 1, Len(bytes))
  <2>1. buf = SubSeq(bytes, LastEnd + 1, Len(bytes))
    BY DEF Contiguous
  <2>2. SubSeq(buf, 1, i) = SubSeq(bytes, LastEnd + 1, LastEnd + i)
    BY <1>1, <2>1, SubSeqOfRest DEF FramesTyped
  <2>3. SubSeq(buf, i + 1, Len(buf)) = SubSeq(bytes, LastEnd + (i + 1), LastEnd + Len(buf))
    BY <1>1, <2>1, SubSeqOfRest DEF FramesTyped
  <2>4. LastEnd + (i + 1) = j + 1 /\ LastEnd + Len(buf) = Len(bytes)
    BY <1>1, <1>2
  <2> QED
    BY <2>2, <2>3, <2>4
<1>13. Contiguous'
  <2>1. \A k \in DOMAIN ends' : ends'[k] <= LastEnd'
    <3>1. \A k \in 1 .. n : ends[k] <= LastEnd
      BY <1>1 DEF Contiguous
    <3>2. \A k \in 1 .. n : ends[k] \in Nat
      BY DEF FramesTyped
    <3>3. LastEnd <= j
      BY <1>1
    <3>4. \A k \in 1 .. n : ends[k] <= j
      BY <1>1, <1>2, <3>1, <3>2, <3>3
    <3>5. \A k \in 1 .. n + 1 : k \in 1 .. n \/ k = n + 1
      BY <1>1
    <3> QED
      BY <1>2, <1>4, <1>5, <3>4, <3>5
  <2>2. LastEnd' <= Len(bytes')
    BY <1>2, <1>3, <1>5
  <2>3. ASSUME NEW k \in DOMAIN frames'
        PROVE  ends'[k] < ends'[k + 1] /\ frames'[k] = SubSeq(bytes', ends'[k] + 1, ends'[k + 1])
    <3>1. CASE k < n
      <4>1. k \in DOMAIN frames /\ k \in 1 .. n - 1
        <5>1. k \in 1 .. n
          BY <1>9
        <5>2. k \in 1 .. n - 1
          BY <1>1, <3>1, <5>1
        <5>3. DOMAIN frames = 1 .. n - 1
          BY <1>1, LenProperties DEF FramesTyped
        <5> QED
          BY <5>2, <5>3
      <4>2. k \in 1 .. n /\ k + 1 \in 1 .. n
        BY <1>1, <4>1
      <4>3. ends'[k] = ends[k] /\ ends'[k + 1] = ends[k + 1] /\ frames'[k] = frames[k]
        BY <1>4, <1>9, <4>1, <4>2
      <4> QED
        BY <1>3, <4>1, <4>3 DEF Contiguous
    <3>2. CASE k = n
      <4>1. ends'[k] = LastEnd /\ ends'[k + 1] = j
        BY <1>1, <1>4, <3>2 DEF LastEnd
      <4>2. LastEnd < j
        BY <1>1
      <4>3. frames'[k] = SubSeq(bytes', LastEnd + 1, j)
        BY <1>3, <1>9, <1>11, <3>2
      <4> QED
        BY <4>1, <4>2, <4>3
    <3> QED
      BY <1>1, <1>9, <3>1, <3>2
  <2>4. buf' = SubSeq(bytes', LastEnd' + 1, Len(bytes'))
    BY <1>3, <1>5, <1>11 DEF Cut
  <2> QED
    BY <2>1, <2>2, <2>3, <2>4 DEF Contiguous
<1> QED
  BY <1>5, <1>6, <1>10, <1>13

-----------------------------------------------------------------------------
(* The invariant.                                                            *)

LEMMA FramesInitInv == FramesInit => FramesInv
<1> SUFFICES ASSUME FramesInit
             PROVE  FramesInv
  OBVIOUS
<1> USE DEF FramesInit
<1>1. /\ <<>> \in Seq(Bytes) /\ <<>> \in Seq(Seq(Bytes)) /\ Len(<<>>) = 0
      /\ <<0>> \in Seq(Nat) /\ Len(<<0>>) = 1 /\ <<0>>[1] = 0
  OBVIOUS
<1>2. DOMAIN ends = {1} /\ DOMAIN frames = {}
  OBVIOUS
<1>3. LastEnd = 0 /\ CutEnds = {0}
  BY <1>1, <1>2 DEF LastEnd, CutEnds
<1>4. FramesTyped
  BY <1>1 DEF FramesTyped
<1>5. Contiguous
  <2>1. SubSeq(bytes, 1, Len(bytes)) = <<>>
    BY <1>1, SubSeqEmpty
  <2> QED
    BY <1>1, <1>2, <1>3, <2>1 DEF Contiguous
<1>6. CutsAreEnds
  BY <1>1, <1>3 DEF CutsAreEnds, FrameEnds, IsBoundary
<1> QED
  BY <1>4, <1>5, <1>6 DEF FramesInv

\* While the upstream has not ended, the last cut is an end or the beginning.
LEMMA LastEndIsEnd ==
  ASSUME FramesInv, phase # "flushed"
  PROVE  LastEnd = 0 \/ ClosesBlankLine(bytes, LastEnd)
<1>1. LastEnd \in {0} \cup { e \in FrameEnds(bytes) : e <= LastEnd }
  BY BufferBehindLastEnd DEF FramesInv, CutsAreEnds
<1> QED
  BY <1>1 DEF FrameEnds

\* No blank line in the first m bytes of the buffer: no end among them.
LEMMA NoBoundaryNoEnd ==
  ASSUME FramesInv, phase # "flushed", NEW m \in 0 .. Len(buf),
         \A i \in 2 .. m : ~IsBoundary(buf, i)
  PROVE  \A e \in LastEnd + 1 .. LastEnd + m : e \notin FrameEnds(bytes)
<1>1. /\ LastEnd \in 0 .. Len(bytes) /\ Len(buf) = Len(bytes) - LastEnd
      /\ \A i \in 1 .. Len(buf) : buf[i] = bytes[LastEnd + i]
      /\ bytes \in Seq(Bytes) /\ Len(bytes) \in Nat
  BY BufferBehindLastEnd, LenProperties DEF FramesInv, FramesTyped
<1>2. \A i \in LastEnd + 2 .. LastEnd + m : ~(bytes[i - 1] = LF /\ bytes[i] = LF)
  <2> SUFFICES ASSUME NEW i \in LastEnd + 2 .. LastEnd + m,
                      bytes[i - 1] = LF, bytes[i] = LF
               PROVE  FALSE
    OBVIOUS
  <2>0. LastEnd \in Nat /\ Len(buf) \in Nat /\ m \in Nat /\ m <= Len(buf)
    BY <1>1
  <2>1. /\ i - LastEnd \in 2 .. m /\ i - LastEnd - 1 \in 1 .. Len(buf)
        /\ i - LastEnd \in 1 .. Len(buf)
    BY <2>0
  <2>2. LastEnd + (i - LastEnd) = i /\ LastEnd + (i - LastEnd - 1) = i - 1
    BY <1>1
  <2>3. buf[i - LastEnd] = LF /\ buf[i - LastEnd - 1] = LF
    BY <1>1, <2>1, <2>2
  <2>4. i - LastEnd \in 2 .. Len(buf)
    BY <2>1
  <2> QED
    BY <2>1, <2>3, <2>4 DEF IsBoundary
<1>3. LastEnd + m \in Nat
  BY <1>1
<1>4. \A e \in LastEnd + 1 .. LastEnd + m : ~ClosesBlankLine(bytes, e)
  BY <1>1, <1>2, <1>3, LastEndIsEnd, NoEndBetween
<1> QED
  BY <1>4 DEF FrameEnds

LEMMA PushKeeps ==
  ASSUME FramesInv, NEW chunk \in Seq(Bytes), Push(chunk)
  PROVE  FramesInv'
<1> USE DEF FramesInv
<1>1. /\ bytes' = bytes \o chunk /\ buf' = buf \o chunk
      /\ UNCHANGED <<frames, ends>> /\ phase = "idle" /\ phase' = "framing"
  BY DEF Push
<1>2. /\ LastEnd \in 0 .. Len(bytes) /\ Len(buf) = Len(bytes) - LastEnd
      /\ \A i \in 1 .. Len(buf) : buf[i] = bytes[LastEnd + i]
      /\ DOMAIN ends = 1 .. Len(ends)
      /\ LastEnd' = LastEnd /\ CutEnds' = CutEnds
  BY <1>1, BufferBehindLastEnd DEF LastEnd, CutEnds
<1>3. /\ bytes \in Seq(Bytes) /\ buf \in Seq(Bytes) /\ chunk \in Seq(Bytes)
      /\ Len(bytes) \in Nat /\ Len(buf) \in Nat /\ Len(chunk) \in Nat
  BY LenProperties DEF FramesTyped
<1>4. /\ bytes' \in Seq(Bytes) /\ Len(bytes') = Len(bytes) + Len(chunk)
      /\ \A i \in 1 .. Len(bytes) + Len(chunk) :
            bytes'[i] = IF i <= Len(bytes) THEN bytes[i] ELSE chunk[i - Len(bytes)]
  BY <1>1, <1>3, ConcatProperties
<1>5. /\ buf' \in Seq(Bytes) /\ Len(buf') = Len(buf) + Len(chunk)
      /\ \A i \in 1 .. Len(buf) + Len(chunk) :
            buf'[i] = IF i <= Len(buf) THEN buf[i] ELSE chunk[i - Len(buf)]
  BY <1>1, <1>3, ConcatProperties
<1>6. FramesTyped'
  BY <1>1, <1>4, <1>5 DEF FramesTyped
<1>7. Contiguous'
  <2>1. ASSUME NEW k \in DOMAIN frames
        PROVE  frames[k] = SubSeq(bytes', ends[k] + 1, ends[k + 1])
    <3>1. k \in DOMAIN ends /\ k + 1 \in DOMAIN ends
      BY <1>2, LenProperties DEF FramesTyped
    <3>2. /\ ends[k] \in Nat /\ ends[k + 1] \in Nat
          /\ ends[k] < ends[k + 1] /\ ends[k + 1] <= LastEnd
      <4>1. ends[k] \in Nat /\ ends[k + 1] \in Nat
        BY <1>2, <3>1 DEF FramesTyped
      <4>2. ends[k] < ends[k + 1] /\ ends[k + 1] <= LastEnd
        BY <3>1 DEF Contiguous
      <4> QED
        BY <4>1, <4>2
    <3>3. ends[k] + 1 \in 1 .. Len(bytes) /\ ends[k + 1] \in 1 .. Len(bytes)
      BY <1>2, <1>3, <3>2
    <3>4. SubSeq(bytes \o chunk, ends[k] + 1, ends[k + 1]) = SubSeq(bytes, ends[k] + 1, ends[k + 1])
      BY <1>3, <3>3, SubSeqOfConcat1
    <3> QED
      BY <1>1, <3>4 DEF Contiguous
  <2>2. buf' = SubSeq(bytes', LastEnd + 1, Len(bytes'))
    <3> DEFINE rest == SubSeq(bytes', LastEnd + 1, Len(bytes'))
    <3>1. \A i \in LastEnd + 1 .. Len(bytes') : bytes'[i] \in Bytes
      BY <1>2, <1>4
    <3>2. /\ rest \in Seq(Bytes)
          /\ Len(rest) = IF LastEnd + 1 <= Len(bytes') THEN Len(bytes') - (LastEnd + 1) + 1 ELSE 0
          /\ \A i \in 1 .. Len(bytes') - (LastEnd + 1) + 1 : rest[i] = bytes'[LastEnd + 1 + i - 1]
      BY <1>2, <1>3, <1>4, <3>1, SubSeqProperties
    <3> HIDE DEF rest
    <3>3. Len(rest) = Len(buf')
      BY <1>2, <1>3, <1>4, <1>5, <3>2
    <3>4. ASSUME NEW i \in 1 .. Len(buf')
          PROVE  buf'[i] = rest[i]
      <4>1. rest[i] = bytes'[LastEnd + i]
        <5>1. i \in 1 .. Len(bytes') - (LastEnd + 1) + 1 /\ LastEnd + 1 + i - 1 = LastEnd + i
          BY <1>2, <1>3, <1>4, <1>5
        <5> QED
          BY <3>2, <5>1
      <4>2. CASE i <= Len(buf)
        <5>1. LastEnd + i \in 1 .. Len(bytes) + Len(chunk) /\ LastEnd + i <= Len(bytes)
          BY <1>2, <1>3, <4>2
        <5>2. bytes'[LastEnd + i] = bytes[LastEnd + i]
          BY <1>4, <5>1
        <5> QED
          BY <1>2, <1>3, <1>5, <4>1, <4>2, <5>2
      <4>3. CASE i > Len(buf)
        <5> DEFINE n == LastEnd + i
        <5>1. /\ n \in 1 .. Len(bytes) + Len(chunk) /\ ~(n <= Len(bytes))
              /\ n - Len(bytes) = i - Len(buf)
          BY <1>2, <1>3, <1>5, <4>3
        <5> HIDE DEF n
        <5>2. bytes'[n] = chunk[n - Len(bytes)]
          BY <1>4, <5>1
        <5> QED
          BY <1>3, <1>5, <4>1, <4>3, <5>1, <5>2 DEF n
      <4> QED
        BY <1>3, <1>5, <4>2, <4>3
    <3>5. buf' = rest
      BY <1>5, <3>2, <3>3, <3>4, SeqEqual
    <3> QED
      BY <3>5 DEF rest
  <2>3. LastEnd <= Len(bytes')
    BY <1>2, <1>3, <1>4
  <2> QED
    BY <1>1, <1>2, <2>1, <2>2, <2>3 DEF Contiguous
<1>8. CutsAreEnds'
  <2>1. ASSUME NEW e \in 1 .. Len(bytes)
        PROVE  ClosesBlankLine(bytes', e) <=> ClosesBlankLine(bytes, e)
    BY <1>1, <1>3, EndsStable
  <2>2. \A e \in 1 .. Len(bytes') : e <= LastEnd => e \in 1 .. Len(bytes)
    BY <1>2, <1>3, <1>4
  <2>3. \A e \in 1 .. Len(bytes) : e \in 1 .. Len(bytes')
    BY <1>3, <1>4
  <2>4. { e \in FrameEnds(bytes') : e <= LastEnd } = { e \in FrameEnds(bytes) : e <= LastEnd }
    BY <2>1, <2>2, <2>3 DEF FrameEnds
  <2> QED
    BY <1>1, <1>2, <2>4 DEF CutsAreEnds
<1> QED
  BY <1>6, <1>7, <1>8

LEMMA DrainKeeps ==
  ASSUME FramesInv, Drain
  PROVE  FramesInv'
<1> USE DEF FramesInv
<1>1. PICK i \in 2 .. Len(buf) : FindEventBoundary(buf, i) /\ Cut(i)
  BY DEF Drain
<1>2. phase = "framing" /\ phase' = "framing" /\ bytes' = bytes
  BY <1>1 DEF Drain, Cut
<1>3. /\ LastEnd \in 0 .. Len(bytes) /\ Len(buf) = Len(bytes) - LastEnd
      /\ \A k \in 1 .. Len(buf) : buf[k] = bytes[LastEnd + k]
      /\ bytes \in Seq(Bytes) /\ Len(bytes) \in Nat
  BY BufferBehindLastEnd, LenProperties DEF FramesTyped
<1>4. i \in 1 .. Len(buf)
  BY <1>3
<1>5. /\ FramesTyped' /\ Contiguous'
      /\ LastEnd' = LastEnd + i /\ CutEnds' = CutEnds \cup {LastEnd + i}
  BY <1>1, <1>2, <1>4, CutKeeps
<1>6. LastEnd + i \in FrameEnds(bytes)
  <2>1. LastEnd + i \in LastEnd + 2 .. Len(bytes)
    BY <1>3
  <2>2. bytes[LastEnd + i - 1] = LF /\ bytes[LastEnd + i] = LF
    <3>1. buf[i - 1] = LF /\ buf[i] = LF
      BY <1>1 DEF FindEventBoundary, IsBoundary
    <3>2. i - 1 \in 1 .. Len(buf) /\ LastEnd + (i - 1) = LastEnd + i - 1
      BY <1>3
    <3> QED
      BY <1>3, <1>4, <3>1, <3>2
  <2>3. \A k \in LastEnd + 2 .. LastEnd + i - 1 : ~(bytes[k - 1] = LF /\ bytes[k] = LF)
    <3> SUFFICES ASSUME NEW k \in LastEnd + 2 .. LastEnd + i - 1,
                        bytes[k - 1] = LF, bytes[k] = LF
                 PROVE  FALSE
      OBVIOUS
    <3>1. /\ k - LastEnd \in 2 .. i - 1 /\ k - LastEnd \in 2 .. Len(buf)
          /\ k - LastEnd \in 1 .. Len(buf) /\ k - LastEnd - 1 \in 1 .. Len(buf)
      BY <1>3
    <3>2. LastEnd + (k - LastEnd) = k /\ LastEnd + (k - LastEnd - 1) = k - 1
      BY <1>3
    <3>3. buf[k - LastEnd] = LF /\ buf[k - LastEnd - 1] = LF
      BY <1>3, <3>1, <3>2
    <3> QED
      BY <1>1, <3>1, <3>3 DEF FindEventBoundary, IsBoundary
  <2>4. ClosesBlankLine(bytes, LastEnd + i)
    <3>1. LastEnd = 0 \/ ClosesBlankLine(bytes, LastEnd)
      BY <1>2, LastEndIsEnd
    <3>2. PICK j \in Nat : j = LastEnd + i
      BY <1>3
    <3>3. j \in LastEnd + 2 .. Len(bytes) /\ bytes[j - 1] = LF /\ bytes[j] = LF
      BY <1>3, <2>1, <2>2, <3>2
    <3>4. \A k \in LastEnd + 2 .. j - 1 : ~(bytes[k - 1] = LF /\ bytes[k] = LF)
      BY <1>3, <2>3, <3>2
    <3>5. ClosesBlankLine(bytes, j)
      BY <1>3, <3>1, <3>3, <3>4, FirstBlankLineIsEnd
    <3> QED
      BY <3>2, <3>5
  <2> QED
    BY <1>3, <2>1, <2>4 DEF FrameEnds
<1>7. \A e \in LastEnd + 1 .. LastEnd + i - 1 : e \notin FrameEnds(bytes)
  <2>1. i - 1 \in 0 .. Len(buf) /\ LastEnd + (i - 1) = LastEnd + i - 1
    BY <1>3
  <2>2. \A k \in 2 .. i - 1 : ~IsBoundary(buf, k)
    BY <1>1 DEF FindEventBoundary
  <2>3. \A e \in LastEnd + 1 .. LastEnd + (i - 1) : e \notin FrameEnds(bytes)
    BY <1>2, <2>1, <2>2, NoBoundaryNoEnd
  <2> QED
    BY <2>1, <2>3
<1>8. CutsAreEnds'
  <2>1. \A e \in FrameEnds(bytes) : e \in Nat
    BY DEF FrameEnds
  <2>2. { e \in FrameEnds(bytes) : e <= LastEnd + i }
           = { e \in FrameEnds(bytes) : e <= LastEnd } \cup {LastEnd + i}
    <3>1. LastEnd \in Nat /\ i \in Nat /\ LastEnd + i \in FrameEnds(bytes)
      BY <1>3, <1>6
    <3>2. ASSUME NEW e \in FrameEnds(bytes)
          PROVE  e <= LastEnd + i <=> e <= LastEnd \/ e = LastEnd + i
      <4>1. e \in Nat /\ e \notin LastEnd + 1 .. LastEnd + i - 1
        BY <1>7, <2>1
      <4> QED
        BY <3>1, <4>1
    <3> QED
      BY <3>1, <3>2
  <2> QED
    BY <1>2, <1>5, <2>2 DEF CutsAreEnds
<1> QED
  BY <1>5, <1>8

LEMMA ReturnKeeps ==
  ASSUME FramesInv, Return
  PROVE  FramesInv'
<1> USE DEF FramesInv
<1>1. /\ UNCHANGED <<buf, frames, bytes, ends>> /\ phase = "framing" /\ phase' = "idle"
      /\ \A i \in 2 .. Len(buf) : ~IsBoundary(buf, i)
  BY DEF Return
<1>2. LastEnd' = LastEnd /\ CutEnds' = CutEnds
  BY <1>1 DEF LastEnd, CutEnds
<1> QED
  BY <1>1, <1>2 DEF FramesTyped, Contiguous, CutsAreEnds

\* With no blank line left in the buffer, the cuts are all the ends.
LEMMA IdleCutsAllEnds ==
  ASSUME FramesInv, phase = "idle"
  PROVE  CutEnds = {0} \cup FrameEnds(bytes)
<1>1. /\ LastEnd \in 0 .. Len(bytes) /\ Len(buf) = Len(bytes) - LastEnd
      /\ Len(bytes) \in Nat
  BY BufferBehindLastEnd, LenProperties DEF FramesInv, FramesTyped
<1>2. \A i \in 2 .. Len(buf) : ~IsBoundary(buf, i)
  BY DEF FramesInv, CutsAreEnds
<1>3. \A e \in LastEnd + 1 .. LastEnd + Len(buf) : e \notin FrameEnds(bytes)
  <2>1. Len(buf) \in 0 .. Len(buf) /\ phase # "flushed"
    BY <1>1
  <2> QED
    BY <1>2, <2>1, NoBoundaryNoEnd
<1>4. \A e \in FrameEnds(bytes) : e \in 1 .. Len(bytes)
  BY DEF FrameEnds
<1>5. { e \in FrameEnds(bytes) : e <= LastEnd } = FrameEnds(bytes)
  BY <1>1, <1>3, <1>4
<1> QED
  BY <1>5 DEF FramesInv, CutsAreEnds

LEMMA FlushKeeps ==
  ASSUME FramesInv, Flush
  PROVE  FramesInv'
<1>1. phase = "idle" /\ phase' = "flushed"
  BY DEF Flush
<1>2. CutEnds = {0} \cup FrameEnds(bytes)
  BY <1>1, IdleCutsAllEnds
<1>3. /\ LastEnd \in 0 .. Len(bytes) /\ LastEnd \in CutEnds /\ Len(buf) = Len(bytes) - LastEnd
      /\ Len(bytes) \in Nat /\ Len(buf) \in Nat
  BY BufferBehindLastEnd, LenProperties DEF FramesInv, FramesTyped
<1>4. CASE buf # <<>> /\ Cut(Len(buf))
  <2>1. Len(buf) # 0
    BY <1>4, EmptySeq DEF FramesInv, FramesTyped
  <2>2. Len(buf) \in 1 .. Len(buf) /\ LastEnd + Len(buf) = Len(bytes)
    BY <1>3, <2>1
  <2>3. FramesTyped' /\ Contiguous' /\ CutEnds' = CutEnds \cup {LastEnd + Len(buf)}
    BY <1>1, <1>4, <2>2, CutKeeps DEF FramesInv
  <2>4. bytes' = bytes
    BY <1>4 DEF Cut
  <2>5. CutsAreEnds'
    BY <1>1, <1>2, <2>2, <2>3, <2>4 DEF CutsAreEnds
  <2> QED
    BY <2>3, <2>5 DEF FramesInv
<1>5. CASE buf = <<>> /\ UNCHANGED <<buf, frames, bytes, ends>>
  <2>1. LastEnd' = LastEnd /\ CutEnds' = CutEnds /\ bytes' = bytes
    BY <1>5 DEF LastEnd, CutEnds
  <2>2. LastEnd = Len(bytes)
    BY <1>3, <1>5, EmptySeq
  <2>3. FramesTyped' /\ Contiguous'
    BY <1>1, <1>5, <2>1 DEF FramesInv, FramesTyped, Contiguous
  <2>4. CutEnds' = {0} \cup FrameEnds(bytes') \cup {Len(bytes')}
    BY <1>2, <1>3, <2>1, <2>2
  <2>5. CutsAreEnds'
    BY <1>1, <2>4 DEF CutsAreEnds
  <2> QED
    BY <2>3, <2>5 DEF FramesInv
<1> QED
  BY <1>4, <1>5 DEF Flush

LEMMA FramesStepInv == FramesInv /\ [FramesNext]_frameVars => FramesInv'
<1> SUFFICES ASSUME FramesInv, [FramesNext]_frameVars
             PROVE  FramesInv'
  OBVIOUS
<1>1. CASE Drain
  BY <1>1, DrainKeeps
<1>2. CASE Return
  BY <1>2, ReturnKeeps
<1>3. CASE Flush
  BY <1>3, FlushKeeps
<1>4. CASE \E chunk \in Seq(Bytes) : Push(chunk)
  BY <1>4, PushKeeps
<1>5. CASE UNCHANGED frameVars
  <2>1. LastEnd' = LastEnd /\ CutEnds' = CutEnds
    BY <1>5 DEF frameVars, LastEnd, CutEnds
  <2> QED
    BY <1>5, <2>1 DEF frameVars, FramesInv, FramesTyped, Contiguous, CutsAreEnds
<1> QED
  BY <1>1, <1>2, <1>3, <1>4, <1>5 DEF FramesNext

LEMMA FramesInvImplies == FramesInv => FramesDetermined
<1> SUFFICES ASSUME FramesInv
             PROVE  FramesDetermined
  OBVIOUS
<1>1. phase # "framing" =>
         CutEnds = {0} \cup FrameEnds(bytes)
                      \cup (IF phase = "flushed" THEN {Len(bytes)} ELSE {})
  <2>1. CASE phase = "idle"
    BY <2>1, IdleCutsAllEnds
  <2>2. CASE phase = "flushed"
    BY <2>2 DEF FramesInv, CutsAreEnds
  <2> QED
    BY <2>1, <2>2 DEF FramesInv, FramesTyped
<1> QED
  BY <1>1 DEF FramesInv, FramesTyped, Contiguous, FramesDetermined, CutEnds, LastEnd

\* The frame buffer's promise, for any bytes in any reads: the events cut are
\* those that the bytes alone determine.
THEOREM FramesSpecDetermined == FramesSpec => []FramesDetermined
<1>1. FramesInit => FramesInv
  BY FramesInitInv
<1>2. FramesInv /\ [FramesNext]_frameVars => FramesInv'
  BY FramesStepInv
<1>3. FramesInv => FramesDetermined
  BY FramesInvImplies
<1> QED
  BY <1>1, <1>2, <1>3, PTL DEF FramesSpec

-----------------------------------------------------------------------------
(* The frame buffer in Accounting.                                           *)

\* A read gives bytes.
LEMMA ReadsAreBytes ==
  ASSUME upstream \in Upstreams, bytes \in Seq(Bytes),
         NEW n \in 1 .. Len(upstream.wire) - Len(bytes)
  PROVE  SubSeq(upstream.wire, Len(bytes) + 1, Len(bytes) + n) \in Seq(Bytes)
<1>1. /\ upstream.wire \in Seq(Bytes) /\ Len(bytes) \in Nat
      /\ Len(upstream.wire) \in Nat
      /\ \A i \in 1 .. Len(upstream.wire) : upstream.wire[i] \in Bytes
  BY AccountingOK, LenProperties
<1>2. \A i \in Len(bytes) + 1 .. Len(bytes) + n : upstream.wire[i] \in Bytes
  BY <1>1
<1> QED
  BY <1>1, <1>2, SubSeqProperties

WireInv == FramesInv /\ upstream \in Upstreams

\* What the frame buffer does in a step of the stream is a step of SseFrames.
LEMMA StreamStepFrames == WireInv /\ [Next]_vars => [FramesNext]_frameVars
<1> SUFFICES ASSUME WireInv, [Next]_vars
             PROVE  [FramesNext]_frameVars
  OBVIOUS
<1>1. ASSUME NEW n \in 1 .. Len(upstream.wire) - Len(bytes), Read(n)
      PROVE  FramesNext
  BY <1>1, ReadsAreBytes DEF Read, WireInv, FramesInv, FramesTyped, FramesNext
<1>2. CASE ReadError
  BY <1>2 DEF ReadError
<1>3. CASE End
  BY <1>3 DEF End, FramesNext
<1>4. CASE Frame
  BY <1>4 DEF Frame, FramesNext
<1>5. CASE PolicyTrip
  BY <1>5 DEF PolicyTrip, TakeEvent
<1>6. CASE Charge
  BY <1>6 DEF Charge, TakeEvent
<1>7. CASE Complete
  BY <1>7 DEF Complete
<1>8. CASE Over \/ UNCHANGED vars
  BY <1>8 DEF Over, vars
<1> QED
  BY <1>1, <1>2, <1>3, <1>4, <1>5, <1>6, <1>7, <1>8 DEF Next

\* The response is the same throughout.
LEMMA UpstreamKept == [Next]_vars => upstream' = upstream
  BY DEF Next, vars, stream, Read, ReadError, End, Frame, PolicyTrip, Charge, TakeEvent,
         Complete, Over

\* Whatever an upstream sends, in whatever reads, and wherever it stops: the
\* events whose cost is charged are those the bytes determine.
THEOREM EventsDetermined == Spec => []FramesDetermined
<1>1. Init => WireInv
  BY FramesInitInv DEF Init, WireInv
<1>2. WireInv /\ [Next]_vars => WireInv'
  <2>1. WireInv /\ [Next]_vars => FramesInv'
    BY StreamStepFrames, FramesStepInv DEF WireInv
  <2> QED
    BY <2>1, UpstreamKept DEF WireInv
<1>3. WireInv => FramesDetermined
  BY FramesInvImplies DEF WireInv
<1> QED
  BY <1>1, <1>2, <1>3, PTL DEF Spec

-----------------------------------------------------------------------------
(* What an event costs.                                                      *)

Providers == {"OpenAi", "Anthropic"}

Costs == [input : Nat, est : Nat, total : Nat \cup {NoTotal}, tools : Seq(Tools)]

\* Bytes as the provider sends them.
BytesOf(provider) == { b \in Bytes : b \in Piece => IsPayload(provider, b.payload) }

\* The total a line that settles it tells, on top of an input.
TotalTold(provider, inp, p) == IF provider = "OpenAi" THEN p.usage ELSE inp + p.tokens

Elements(q) == { q[i] : i \in DOMAIN q }

\* The elements of two sequences, one behind the other.
LEMMA ElementsOfConcat ==
  ASSUME NEW S, NEW a \in Seq(S), NEW b \in Seq(S)
  PROVE  /\ a \o b \in Seq(S)
         /\ Elements(a \o b) = Elements(a) \cup Elements(b)
<1> DEFINE c == a \o b
<1>1. /\ c \in Seq(S) /\ Len(a) \in Nat /\ Len(b) \in Nat
      /\ DOMAIN a = 1 .. Len(a) /\ DOMAIN b = 1 .. Len(b)
      /\ DOMAIN c = 1 .. Len(a) + Len(b)
      /\ \A i \in 1 .. Len(a) + Len(b) : c[i] = IF i <= Len(a) THEN a[i] ELSE b[i - Len(a)]
  BY ConcatProperties, LenProperties
<1> HIDE DEF c
<1>2. ASSUME NEW i \in DOMAIN c PROVE c[i] \in Elements(a) \cup Elements(b)
  <2>1. CASE i <= Len(a)
    <3>1. i \in DOMAIN a /\ c[i] = a[i]
      BY <1>1, <2>1
    <3> QED
      BY <3>1 DEF Elements
  <2>2. CASE ~(i <= Len(a))
    <3>1. i - Len(a) \in DOMAIN b /\ c[i] = b[i - Len(a)]
      BY <1>1, <2>2
    <3> QED
      BY <3>1 DEF Elements
  <2> QED
    BY <2>1, <2>2
<1>3. ASSUME NEW i \in DOMAIN a PROVE a[i] \in Elements(c)
  <2>1. i \in DOMAIN c /\ c[i] = a[i]
    BY <1>1
  <2> QED
    BY <2>1 DEF Elements
<1>4. ASSUME NEW i \in DOMAIN b PROVE b[i] \in Elements(c)
  <2>1. Len(a) + i \in DOMAIN c /\ ~(Len(a) + i <= Len(a)) /\ (Len(a) + i) - Len(a) = i
    BY <1>1
  <2>2. c[Len(a) + i] = b[i]
    BY <1>1, <2>1
  <2> QED
    BY <2>1, <2>2 DEF Elements
<1>5. Elements(c) \subseteq Elements(a) \cup Elements(b)
  <2> SUFFICES ASSUME NEW e \in Elements(c) PROVE e \in Elements(a) \cup Elements(b)
    OBVIOUS
  <2>1. PICK i \in DOMAIN c : e = c[i]
    BY DEF Elements
  <2> QED
    BY <1>2, <2>1
<1>6. Elements(a) \subseteq Elements(c) /\ Elements(b) \subseteq Elements(c)
  <2>1. ASSUME NEW e \in Elements(a) PROVE e \in Elements(c)
    <3>1. PICK i \in DOMAIN a : e = a[i]
      BY DEF Elements
    <3> QED
      BY <1>3, <3>1
  <2>2. ASSUME NEW e \in Elements(b) PROVE e \in Elements(c)
    <3>1. PICK i \in DOMAIN b : e = b[i]
      BY DEF Elements
    <3> QED
      BY <1>4, <3>1
  <2> QED
    BY <2>1, <2>2
<1>7. Elements(c) = Elements(a) \cup Elements(b)
  BY <1>5, <1>6
<1> QED
  BY <1>1, <1>7 DEF c

\* A line of OpenAI's is added to a cost.
LEMMA OpenAiAdds ==
  ASSUME NEW acc \in Costs, NEW p, IsPayload("OpenAi", p)
  PROVE  LET c == OpenAiLine(acc, p)
         IN  /\ c \in Costs /\ c.input = acc.input
             /\ Silent("OpenAi", p) => c.est = acc.est
             /\ c.total = IF Settles("OpenAi", p) THEN p.usage ELSE acc.total
             /\ ToolsOf(c) = ToolsOf(acc) \cup ToolsTold("OpenAi", p)
<1> DEFINE c == OpenAiLine(acc, p)
<1>1. CASE p = Unreadable
  BY <1>1 DEF OpenAiLine, Settles, ToolsTold
<1>2. CASE p # Unreadable
  <2>1. /\ p.est \in Nat /\ p.usage \in Nat \cup {NoTotal} /\ p.tools \in Seq(Tools)
        /\ acc.est \in Nat /\ acc.tools \in Seq(Tools) /\ acc.total \in Nat \cup {NoTotal}
        /\ acc.input \in Nat
        /\ acc = [input |-> acc.input, est |-> acc.est, total |-> acc.total, tools |-> acc.tools]
    BY <1>2 DEF IsPayload, Costs
  <2>2. /\ c.input = acc.input /\ c.est = acc.est + p.est /\ c.tools = acc.tools \o p.tools
        /\ c.total = IF p.usage = NoTotal THEN acc.total ELSE p.usage
        /\ c = [input |-> c.input, est |-> c.est, total |-> c.total, tools |-> c.tools]
    BY <1>2, <2>1 DEF OpenAiLine
  <2>3. /\ acc.tools \o p.tools \in Seq(Tools)
        /\ Elements(acc.tools \o p.tools) = Elements(acc.tools) \cup Elements(p.tools)
    BY <2>1, ElementsOfConcat
  <2> HIDE DEF c
  <2>4. c \in Costs
    <3> DEFINE all == acc.tools \o p.tools
    <3>1. all \in Seq(Tools) /\ c.tools = all
      BY <2>2, <2>3
    <3> HIDE DEF all
    <3> QED
      BY <2>1, <2>2, <3>1 DEF Costs
  <2>5. ToolsOf(c) = ToolsOf(acc) \cup ToolsTold("OpenAi", p)
    <3>1. ToolsOf(c) = Elements(c.tools) /\ ToolsOf(acc) = Elements(acc.tools)
      BY DEF ToolsOf, Elements
    <3>2. ToolsTold("OpenAi", p) = Elements(p.tools)
      BY <1>2 DEF ToolsTold, Elements
    <3> QED
      BY <2>2, <2>3, <3>1, <3>2
  <2>6. Silent("OpenAi", p) => c.est = acc.est
    BY <1>2, <2>1, <2>2 DEF Silent
  <2> QED
    BY <1>2, <2>2, <2>4, <2>5, <2>6 DEF Settles, c
<1> QED
  BY <1>1, <1>2

\* A line of Anthropic's is added to a cost.
LEMMA AnthropicAdds ==
  ASSUME NEW acc \in Costs, NEW p, IsPayload("Anthropic", p)
  PROVE  LET c == AnthropicLine(acc, p)
         IN  /\ c \in Costs
             /\ c.input = IF Opens("Anthropic", p) THEN p.tokens ELSE acc.input
             /\ Silent("Anthropic", p) => c.est = acc.est
             /\ c.total = IF Opens("Anthropic", p) THEN p.tokens
                          ELSE IF Settles("Anthropic", p) THEN acc.input + p.tokens
                          ELSE acc.total
             /\ ToolsOf(c) = ToolsOf(acc) \cup ToolsTold("Anthropic", p)
<1> DEFINE c == AnthropicLine(acc, p)
<1>1. CASE p = Unreadable
  BY <1>1 DEF AnthropicLine, Opens, Settles, ToolsTold
<1>2. CASE p # Unreadable
  <2>1. /\ p.tokens \in Nat /\ (p.type = "tool_use" => p.tool \in Tools)
        /\ acc.est \in Nat /\ acc.tools \in Seq(Tools) /\ acc.total \in Nat \cup {NoTotal}
        /\ acc.input \in Nat
    BY <1>2 DEF IsPayload, Costs
  <2>2. CASE p.type = "message_start"
    <3>1. c = [acc EXCEPT !.input = p.tokens, !.total = p.tokens]
      BY <1>2, <2>2 DEF AnthropicLine
    <3>2. c \in Costs /\ c.input = p.tokens /\ c.total = p.tokens /\ c.est = acc.est
          /\ c.tools = acc.tools
      BY <2>1, <3>1 DEF Costs
    <3> QED
      BY <1>2, <2>2, <3>2 DEF Opens, Settles, ToolsOf, ToolsTold
  <2>3. CASE p.type = "message_delta"
    <3>1. c = [acc EXCEPT !.total = acc.input + p.tokens]
      BY <1>2, <2>3 DEF AnthropicLine
    <3>2. c \in Costs /\ c.input = acc.input /\ c.total = acc.input + p.tokens
          /\ c.est = acc.est /\ c.tools = acc.tools
      BY <2>1, <3>1 DEF Costs
    <3> QED
      BY <1>2, <2>3, <3>2 DEF Opens, Settles, ToolsOf, ToolsTold
  <2>4. CASE p.type = "content_block_delta"
    <3>1. c = [acc EXCEPT !.est = acc.est + p.tokens]
      BY <1>2, <2>4 DEF AnthropicLine
    <3>2. c \in Costs /\ c.input = acc.input /\ c.total = acc.total
          /\ c.est = acc.est + p.tokens /\ c.tools = acc.tools
      BY <2>1, <3>1 DEF Costs
    <3> QED
      BY <1>2, <2>1, <2>4, <3>2 DEF Opens, Settles, Silent, ToolsOf, ToolsTold
  <2>5. CASE p.type = "tool_use"
    <3>1. c = [acc EXCEPT !.tools = Append(acc.tools, p.tool)]
      BY <1>2, <2>5 DEF AnthropicLine
    <3>2. /\ Append(acc.tools, p.tool) \in Seq(Tools)
          /\ DOMAIN Append(acc.tools, p.tool) = 1 .. Len(acc.tools) + 1
          /\ \A i \in 1 .. Len(acc.tools) : Append(acc.tools, p.tool)[i] = acc.tools[i]
          /\ Append(acc.tools, p.tool)[Len(acc.tools) + 1] = p.tool
          /\ DOMAIN acc.tools = 1 .. Len(acc.tools) /\ Len(acc.tools) \in Nat
      <4> DEFINE a == acc.tools
                 t == p.tool
      <4>1. a \in Seq(Tools) /\ t \in Tools
        BY <2>1, <2>5
      <4> HIDE DEF a, t
      <4>2. /\ Append(a, t) \in Seq(Tools) /\ DOMAIN Append(a, t) = 1 .. Len(a) + 1
            /\ \A i \in 1 .. Len(a) : Append(a, t)[i] = a[i]
            /\ Append(a, t)[Len(a) + 1] = t
            /\ DOMAIN a = 1 .. Len(a) /\ Len(a) \in Nat
        BY <4>1
      <4> QED
        BY <4>2 DEF a, t
    <3>3. c \in Costs /\ c.input = acc.input /\ c.total = acc.total /\ c.est = acc.est
          /\ c.tools = Append(acc.tools, p.tool)
      <4> DEFINE more == Append(acc.tools, p.tool)
      <4>1. more \in Seq(Tools) /\ c = [acc EXCEPT !.tools = more]
        BY <3>1, <3>2
      <4> HIDE DEF more, c
      <4>2. c \in Costs /\ c.input = acc.input /\ c.total = acc.total /\ c.est = acc.est
            /\ c.tools = more
        BY <4>1 DEF Costs
      <4> QED
        BY <4>2 DEF more
    <3>4. ToolsOf(c) = ToolsOf(acc) \cup {p.tool}
      <4> DEFINE more == Append(acc.tools, p.tool)
      <4>1. \A i \in DOMAIN more : more[i] \in ToolsOf(acc) \cup {p.tool}
        BY <3>2 DEF ToolsOf
      <4>2. \A i \in DOMAIN acc.tools : i \in DOMAIN more /\ more[i] = acc.tools[i]
        BY <3>2
      <4>3. Len(acc.tools) + 1 \in DOMAIN more /\ more[Len(acc.tools) + 1] = p.tool
        BY <3>2
      <4> HIDE DEF more
      <4>4. c.tools = more
        BY <3>3 DEF more
      <4> HIDE DEF c
      <4> QED
        BY <4>1, <4>2, <4>3, <4>4 DEF ToolsOf
    <3> HIDE DEF c
    <3>5. Opens("Anthropic", p) = FALSE /\ Settles("Anthropic", p) = FALSE
      BY <2>5 DEF Opens, Settles
    <3>6. ToolsTold("Anthropic", p) = {p.tool}
      BY <1>2, <2>5 DEF ToolsTold
    <3> QED
      BY <3>3, <3>4, <3>5, <3>6 DEF c
  <2>6. CASE p.type \notin {"message_start", "message_delta", "content_block_delta", "tool_use"}
    <3>1. c = acc
      BY <1>2, <2>6 DEF AnthropicLine
    <3> QED
      BY <1>2, <2>6, <3>1 DEF Opens, Settles, ToolsOf, ToolsTold
  <2> QED
    BY <2>2, <2>3, <2>4, <2>5, <2>6
<1> QED
  BY <1>1, <1>2

\* A line of either provider.
LEMMA LineAdds ==
  ASSUME NEW provider \in Providers, NEW acc \in Costs, NEW p, IsPayload(provider, p)
  PROVE  LET c == AddLine(provider, acc, p)
         IN  /\ c \in Costs
             /\ c.input = IF Opens(provider, p) THEN p.tokens ELSE acc.input
             /\ Silent(provider, p) => c.est = acc.est
             /\ c.total = IF Opens(provider, p) THEN p.tokens
                          ELSE IF Settles(provider, p) THEN TotalTold(provider, acc.input, p)
                          ELSE acc.total
             /\ ToolsOf(c) = ToolsOf(acc) \cup ToolsTold(provider, p)
<1>1. CASE provider = "OpenAi"
  <2>1. ~Opens(provider, p)
    BY <1>1 DEF Opens
  <2> QED
    BY <1>1, <2>1, OpenAiAdds DEF AddLine, TotalTold
<1>2. CASE provider = "Anthropic"
  BY <1>2, AnthropicAdds DEF AddLine, TotalTold
<1> QED
  BY <1>1, <1>2 DEF Providers

\* The loop of chunk_cost, position by position.
LEMMA CostLoop ==
  ASSUME NEW provider \in Providers, NEW inp \in Nat, NEW f \in Seq(BytesOf(provider))
  PROVE  \E cost :
            /\ ChunkCost(provider, inp, f) = cost[Len(f)]
            /\ cost[0] = NoCost(inp)
            /\ \A i \in 1 .. Len(f) :
                  cost[i] = IF IsDataLine(f, i) THEN AddLine(provider, cost[i - 1], f[i].payload)
                            ELSE cost[i - 1]
            /\ \A i \in 0 .. Len(f) : cost[i] \in Costs
<1> DEFINE n == Len(f)
           Run(cost) == cost = [i \in 0 .. Len(f) |->
                                  IF i = 0 THEN NoCost(inp)
                                  ELSE IF IsDataLine(f, i)
                                       THEN AddLine(provider, cost[i - 1], f[i].payload)
                                  ELSE cost[i - 1]]
           it == CHOOSE cost : Run(cost)
           step == [i \in 1 .. n |-> [v \in Costs |->
                       IF IsDataLine(f, i) THEN AddLine(provider, v, f[i].payload) ELSE v]]
           none == NoCost(inp)
<1>1. n \in Nat /\ \A i \in 1 .. n : f[i] \in BytesOf(provider)
  OBVIOUS
<1>2. step \in [1 .. n -> [Costs -> Costs]]
  <2>1. ASSUME NEW i \in 1 .. n, NEW v \in Costs
        PROVE  (IF IsDataLine(f, i) THEN AddLine(provider, v, f[i].payload) ELSE v) \in Costs
    <3>1. CASE IsDataLine(f, i)
      <4>1. f[i] \in Piece
        BY <3>1 DEF IsDataLine
      <4>2. IsPayload(provider, f[i].payload)
        BY <1>1, <4>1 DEF BytesOf
      <4> QED
        BY <3>1, <4>2, LineAdds
    <3> QED
      BY <3>1
  <2> QED
    BY <2>1
<1>3. none \in Costs
  <2>1. <<>> \in Seq(Tools)
    OBVIOUS
  <2> QED
    BY <2>1 DEF NoCost, Costs
<1>4. PICK g : LoopRuns(Costs, none, n, step, g)
  <2> HIDE DEF step, n, none
  <2> QED
    BY <1>1, <1>2, <1>3, LoopsRun
<1>5. Run(g)
  <2> HIDE DEF step, n
  <2>1. ASSUME NEW i \in 0 .. n
        PROVE  g[i] = IF i = 0 THEN NoCost(inp)
                      ELSE IF IsDataLine(f, i) THEN AddLine(provider, g[i - 1], f[i].payload)
                      ELSE g[i - 1]
    <3>1. CASE i = 0
      BY <1>4, <3>1 DEF LoopRuns
    <3>2. CASE i # 0
      <4>1. i \in 1 .. n /\ i - 1 \in 0 .. n
        BY <1>1, <3>2
      <4>2. g[i - 1] \in Costs /\ g[i] = step[i][g[i - 1]]
        BY <1>4, <3>2, <4>1 DEF LoopRuns
      <4> QED
        BY <3>2, <4>1, <4>2 DEF step
    <3> QED
      BY <3>1, <3>2
  <2>2. g = [i \in 0 .. n |-> IF i = 0 THEN NoCost(inp)
                              ELSE IF IsDataLine(f, i)
                                   THEN AddLine(provider, g[i - 1], f[i].payload)
                              ELSE g[i - 1]]
    BY <1>4, <2>1 DEF LoopRuns
  <2> QED
    BY <2>2 DEF n
<1>6. Run(it)
  <2> HIDE DEF Run
  <2> QED
    BY <1>5
<1>7. ChunkCost(provider, inp, f) = it[Len(f)]
  BY Zenon DEF ChunkCost
<1>8. /\ it[0] = NoCost(inp)
      /\ \A i \in 1 .. n : it[i] = IF IsDataLine(f, i)
                                   THEN AddLine(provider, it[i - 1], f[i].payload)
                                   ELSE it[i - 1]
  <2> HIDE DEF it
  <2>1. it[0] = NoCost(inp)
    BY <1>1, <1>6
  <2>2. ASSUME NEW i \in 1 .. n
        PROVE  it[i] = IF IsDataLine(f, i) THEN AddLine(provider, it[i - 1], f[i].payload)
                       ELSE it[i - 1]
    <3>1. i \in 0 .. Len(f) /\ i # 0
      BY <1>1
    <3> QED
      BY <1>6, <3>1
  <2> QED
    BY <2>1, <2>2
<1>9. \A i \in 0 .. n : it[i] \in Costs
  <2> DEFINE T == { i \in 0 .. n : it[i] \in Costs }
  <2> HIDE DEF it, n
  <2>1. 0 \in T
    BY <1>1, <1>3, <1>8
  <2>2. ASSUME NEW i \in T, i \in 0 .. n - 1 PROVE i + 1 \in T
    <3>1. i + 1 \in 1 .. n /\ (i + 1) - 1 = i
      BY <1>1, <2>2
    <3>2. CASE IsDataLine(f, i + 1)
      <4>1. f[i + 1] \in Piece
        BY <3>2 DEF IsDataLine
      <4>2. IsPayload(provider, f[i + 1].payload)
        BY <1>1, <3>1, <4>1 DEF BytesOf
      <4>3. it[i + 1] = AddLine(provider, it[i], f[i + 1].payload)
        BY <1>8, <3>1, <3>2
      <4> QED
        BY <1>1, <3>1, <4>2, <4>3, LineAdds
    <3>3. CASE ~IsDataLine(f, i + 1)
      BY <1>1, <1>8, <3>1, <3>3
    <3> QED
      BY <3>2, <3>3
  <2>3. 0 .. n \subseteq T
    <3> HIDE DEF T
    <3> QED
      BY <1>1, <2>1, <2>2, InductiveUpTo
  <2> QED
    BY <2>3
<1> HIDE DEF it
<1> QED
  BY <1>7, <1>8, <1>9

\* What the first m positions of an event f tell.
LinesUpTo(f, m) == { i \in LinesIn(f) : i <= m }

\* c is the cost of what they tell, to an adapter that had the input inp.
CostTells(provider, inp, f, m, c) ==
  LET lines == LinesUpTo(f, m)
      told(i) == f[i].payload
  IN  /\ ToolsOf(c) = UNION { ToolsTold(provider, told(i)) : i \in lines }
      /\ (\A i \in lines : Silent(provider, told(i))) => c.est = 0 /\ c.total = NoTotal
      /\ c.total # NoTotal =>
            \E i \in lines : Opens(provider, told(i)) \/ Settles(provider, told(i))
      /\ (\A i \in lines : ~Opens(provider, told(i))) => c.input = inp
      /\ \A j \in lines :
            Opens(provider, told(j)) /\ (\A k \in lines : k > j => ~Opens(provider, told(k)))
               => c.input = told(j).tokens
      /\ \A i \in lines :
            Settles(provider, told(i)) /\ (\A k \in lines : k > i => Silent(provider, told(k)))
               => c.total = TotalTold(provider, c.input, told(i))

\* Nothing costs nothing.
LEMMA NothingTold ==
  ASSUME NEW provider \in Providers, NEW inp \in Nat, NEW f \in Seq(BytesOf(provider))
  PROVE  CostTells(provider, inp, f, 0, NoCost(inp))
<1>1. LinesUpTo(f, 0) = {}
  BY LenProperties DEF LinesUpTo, LinesIn
<1>2. ToolsOf(NoCost(inp)) = {}
  BY DEF ToolsOf, NoCost
<1>3. /\ NoCost(inp).input = inp /\ NoCost(inp).est = 0 /\ NoCost(inp).total = NoTotal
  BY DEF NoCost
<1> QED
  BY <1>1, <1>2, <1>3 DEF CostTells

\* A line that opens does not settle, and one that is silent does neither.
LEMMA LinesDiffer ==
  ASSUME NEW provider \in Providers, NEW p
  PROVE  /\ ~(Opens(provider, p) /\ Settles(provider, p))
         /\ ~(Opens(provider, p) /\ Silent(provider, p))
         /\ ~(Settles(provider, p) /\ Silent(provider, p))
  BY DEF Providers, Opens, Settles, Silent

\* One line more.
LEMMA LineTold ==
  ASSUME NEW provider \in Providers, NEW inp \in Nat, NEW f \in Seq(BytesOf(provider)),
         NEW m \in Nat, m + 1 \in LinesIn(f),
         NEW acc \in Costs, CostTells(provider, inp, f, m, acc)
  PROVE  CostTells(provider, inp, f, m + 1, AddLine(provider, acc, f[m + 1].payload))
<1> DEFINE p == f[m + 1].payload
           c == AddLine(provider, acc, p)
           old == LinesUpTo(f, m)
           lines == LinesUpTo(f, m + 1)
           told(i) == f[i].payload
<1>1. /\ lines = old \cup {m + 1}
      /\ \A i \in old : i \in Nat /\ i <= m
  <2>1. \A i \in LinesIn(f) : i \in Nat
    BY LenProperties DEF LinesIn
  <2> QED
    BY <2>1 DEF LinesUpTo
<1>2. IsPayload(provider, p)
  <2>1. m + 1 \in 1 .. Len(f) /\ f[m + 1] \in Piece
    BY LenProperties DEF LinesIn, IsDataLine
  <2> QED
    BY <2>1 DEF BytesOf
<1>3. /\ c \in Costs
      /\ c.input = IF Opens(provider, p) THEN p.tokens ELSE acc.input
      /\ Silent(provider, p) => c.est = acc.est
      /\ c.total = IF Opens(provider, p) THEN p.tokens
                   ELSE IF Settles(provider, p) THEN TotalTold(provider, acc.input, p)
                   ELSE acc.total
      /\ ToolsOf(c) = ToolsOf(acc) \cup ToolsTold(provider, p)
  BY <1>2, LineAdds
<1>4. told(m + 1) = p
  OBVIOUS
<1>5. /\ ToolsOf(acc) = UNION { ToolsTold(provider, told(i)) : i \in old }
      /\ (\A i \in old : Silent(provider, told(i))) => acc.est = 0 /\ acc.total = NoTotal
      /\ acc.total # NoTotal =>
            \E i \in old : Opens(provider, told(i)) \/ Settles(provider, told(i))
      /\ (\A i \in old : ~Opens(provider, told(i))) => acc.input = inp
      /\ \A j \in old :
            Opens(provider, told(j)) /\ (\A k \in old : k > j => ~Opens(provider, told(k)))
               => acc.input = told(j).tokens
      /\ \A i \in old :
            Settles(provider, told(i)) /\ (\A k \in old : k > i => Silent(provider, told(k)))
               => acc.total = TotalTold(provider, acc.input, told(i))
  BY DEF CostTells
<1>6. ~(Opens(provider, p) /\ Settles(provider, p)) /\ ~(Opens(provider, p) /\ Silent(provider, p))
      /\ ~(Settles(provider, p) /\ Silent(provider, p))
  BY LinesDiffer
<1> HIDE DEF p, c, old, lines
<1>7. ToolsOf(c) = UNION { ToolsTold(provider, told(i)) : i \in lines }
  <2> HIDE DEF told
  <2> QED
    BY <1>1, <1>3, <1>4, <1>5
<1>8. (\A i \in lines : Silent(provider, told(i))) => c.est = 0 /\ c.total = NoTotal
  BY <1>1, <1>3, <1>4, <1>5, <1>6
<1>9. c.total # NoTotal =>
         \E i \in lines : Opens(provider, told(i)) \/ Settles(provider, told(i))
  <2> SUFFICES ASSUME c.total # NoTotal,
                      ~(Opens(provider, p) \/ Settles(provider, p))
               PROVE  \E i \in lines : Opens(provider, told(i)) \/ Settles(provider, told(i))
    BY <1>1, <1>4
  <2>1. acc.total # NoTotal
    BY <1>3
  <2> QED
    BY <1>1, <1>5, <2>1
<1>10. (\A i \in lines : ~Opens(provider, told(i))) => c.input = inp
  BY <1>1, <1>3, <1>4, <1>5
<1>11. ASSUME NEW j \in lines, Opens(provider, told(j)),
              \A k \in lines : k > j => ~Opens(provider, told(k))
       PROVE  c.input = told(j).tokens
  <2>1. CASE j = m + 1
    BY <1>3, <1>4, <1>11, <2>1
  <2>2. CASE j \in old
    <3>1. m + 1 > j
      BY <1>1, <2>2
    <3>2. ~Opens(provider, p)
      BY <1>1, <1>4, <1>11, <3>1
    <3>3. \A k \in old : k > j => ~Opens(provider, told(k))
      BY <1>1, <1>11
    <3> QED
      BY <1>3, <1>5, <1>11, <2>2, <3>2, <3>3
  <2> QED
    BY <1>1, <2>1, <2>2
<1>12. ASSUME NEW i \in lines, Settles(provider, told(i)),
              \A k \in lines : k > i => Silent(provider, told(k))
       PROVE  c.total = TotalTold(provider, c.input, told(i))
  <2>1. CASE i = m + 1
    BY <1>3, <1>4, <1>6, <1>12, <2>1
  <2>2. CASE i \in old
    <3>1. m + 1 > i
      BY <1>1, <2>2
    <3>2. Silent(provider, p)
      BY <1>1, <1>4, <1>12, <3>1
    <3>3. \A k \in old : k > i => Silent(provider, told(k))
      BY <1>1, <1>12
    <3> QED
      BY <1>3, <1>5, <1>6, <1>12, <2>2, <3>2, <3>3
  <2> QED
    BY <1>1, <2>1, <2>2
<1>13. CostTells(provider, inp, f, m + 1, c)
  BY <1>7, <1>8, <1>9, <1>10, <1>11, <1>12 DEF CostTells, lines
<1> QED
  BY <1>13 DEF c, p

\* chunk_cost tells the cost of an event's data lines.
THEOREM EventCosts ==
  ASSUME NEW provider \in Providers, NEW inp \in Nat, NEW f \in Seq(BytesOf(provider))
  PROVE  /\ ChunkCost(provider, inp, f) \in Costs
         /\ CostTells(provider, inp, f, Len(f), ChunkCost(provider, inp, f))
<1> DEFINE n == Len(f)
<1>1. n \in Nat
  OBVIOUS
<1>2. PICK cost :
         /\ ChunkCost(provider, inp, f) = cost[n]
         /\ cost[0] = NoCost(inp)
         /\ \A i \in 1 .. n :
               cost[i] = IF IsDataLine(f, i) THEN AddLine(provider, cost[i - 1], f[i].payload)
                         ELSE cost[i - 1]
         /\ \A i \in 0 .. n : cost[i] \in Costs
  BY CostLoop
<1> DEFINE T == { i \in 0 .. n : CostTells(provider, inp, f, i, cost[i]) }
<1>3. 0 \in T
  BY <1>1, <1>2, NothingTold
<1>4. ASSUME NEW i \in T, i \in 0 .. n - 1 PROVE i + 1 \in T
  <2>1. /\ i \in Nat /\ i + 1 \in 1 .. n /\ (i + 1) - 1 = i /\ i \in 0 .. n
        /\ CostTells(provider, inp, f, i, cost[i])
    BY <1>1, <1>4
  <2>2. CASE IsDataLine(f, i + 1)
    <3>1. i + 1 \in LinesIn(f)
      BY <2>1, <2>2, LenProperties DEF LinesIn
    <3>2. cost[i + 1] = AddLine(provider, cost[i], f[i + 1].payload)
      BY <1>2, <2>1, <2>2
    <3>3. CostTells(provider, inp, f, i + 1, cost[i + 1])
      BY <1>2, <2>1, <3>1, <3>2, LineTold
    <3> QED
      BY <2>1, <3>3
  <2>3. CASE ~IsDataLine(f, i + 1)
    <3>1. LinesUpTo(f, i + 1) = LinesUpTo(f, i)
      <4>1. \A k \in LinesIn(f) : k \in Nat /\ k # i + 1
        BY <2>3, LenProperties DEF LinesIn
      <4>2. \A k \in LinesIn(f) : k <= i + 1 <=> k <= i
        BY <2>1, <4>1
      <4> QED
        BY <4>2 DEF LinesUpTo
    <3>2. cost[i + 1] = cost[i]
      BY <1>2, <2>1, <2>3
    <3>3. CostTells(provider, inp, f, i + 1, cost[i + 1])
      BY <2>1, <3>1, <3>2 DEF CostTells
    <3> QED
      BY <2>1, <3>3
  <2> QED
    BY <2>2, <2>3
<1>5. n \in T
  <2> HIDE DEF T
  <2>1. 0 .. n \subseteq T
    BY <1>1, <1>3, <1>4, InductiveUpTo
  <2> QED
    BY <1>1, <2>1
<1> QED
  BY <1>1, <1>2, <1>5

-----------------------------------------------------------------------------
(* The state of the stream.                                                  *)

\* What was pushed is the beginning of the wire.
WirePrefix == /\ Len(bytes) <= Len(upstream.wire)
              /\ \A i \in 1 .. Len(bytes) : bytes[i] = upstream.wire[i]

TypedInv == WireInv /\ WirePrefix /\ TypeOK

\* The wire is bytes of its provider.
LEMMA WireTyped ==
  ASSUME upstream \in Upstreams
  PROVE  /\ upstream.provider \in Providers
         /\ upstream.wire \in Seq(Bytes) /\ Len(upstream.wire) \in Nat
         /\ DOMAIN upstream.wire = 1 .. Len(upstream.wire)
         /\ \A i \in 1 .. Len(upstream.wire) : upstream.wire[i] \in BytesOf(upstream.provider)
<1>1. upstream.wire \in Seq(Bytes) /\ upstream.provider \in Providers
  BY AccountingOK DEF Providers
<1>2. /\ Len(upstream.wire) \in Nat /\ DOMAIN upstream.wire = 1 .. Len(upstream.wire)
      /\ \A i \in 1 .. Len(upstream.wire) : upstream.wire[i] \in Bytes
  <2> DEFINE w == upstream.wire
  <2>1. w \in Seq(Bytes)
    BY <1>1
  <2> HIDE DEF w
  <2>2. Len(w) \in Nat /\ DOMAIN w = 1 .. Len(w) /\ \A i \in 1 .. Len(w) : w[i] \in Bytes
    BY <2>1
  <2> QED
    BY <2>2 DEF w
<1> QED
  BY <1>1, <1>2, AccountingOK DEF BytesOf

\* An event is a piece of the wire.
LEMMA FrameOfWire ==
  ASSUME WireInv, WirePrefix, NEW k \in 1 .. Len(frames)
  PROVE  /\ ends[k] \in Nat /\ ends[k + 1] \in Nat
         /\ ends[k] < ends[k + 1] /\ ends[k + 1] <= Len(bytes)
         /\ frames[k] \in Seq(BytesOf(upstream.provider))
         /\ Len(frames[k]) = ends[k + 1] - ends[k]
         /\ \A i \in 1 .. Len(frames[k]) : frames[k][i] = upstream.wire[ends[k] + i]
<1>1. /\ bytes \in Seq(Bytes) /\ ends \in Seq(Nat) /\ frames \in Seq(Seq(Bytes))
      /\ Len(ends) = Len(frames) + 1
      /\ DOMAIN ends = 1 .. Len(ends) /\ DOMAIN frames = 1 .. Len(frames)
      /\ Len(frames) \in Nat /\ Len(bytes) \in Nat
  BY LenProperties DEF WireInv, FramesInv, FramesTyped
<1>2. /\ ends[k] \in Nat /\ ends[k + 1] \in Nat
      /\ ends[k + 1] <= Len(bytes)
      /\ ends[k] < ends[k + 1]
      /\ frames[k] = SubSeq(bytes, ends[k] + 1, ends[k + 1])
  <2>1. k \in DOMAIN ends /\ k + 1 \in DOMAIN ends /\ k \in DOMAIN frames
        /\ Len(ends) \in DOMAIN ends
    BY <1>1
  <2>2. ends[k] \in Nat /\ ends[k + 1] \in Nat /\ LastEnd \in Nat
    <3>1. \A i \in 1 .. Len(ends) : ends[i] \in Nat
      BY <1>1, ElementOfSeq
    <3> QED
      BY <1>1, <2>1, <3>1 DEF LastEnd
  <2>3. /\ ends[k + 1] <= LastEnd /\ LastEnd <= Len(bytes)
        /\ ends[k] < ends[k + 1]
        /\ frames[k] = SubSeq(bytes, ends[k] + 1, ends[k + 1])
    BY <2>1 DEF WireInv, FramesInv, Contiguous
  <2>4. ends[k + 1] <= Len(bytes)
    BY <1>1, <2>2, <2>3
  <2> QED
    BY <2>2, <2>3, <2>4
<1> DEFINE a == ends[k] + 1
           b == ends[k + 1]
<1>3. /\ a \in Nat /\ b \in Nat /\ 1 <= a /\ a <= b /\ b <= Len(bytes)
      /\ b - a + 1 = b - ends[k]
      /\ \A i \in 1 .. b - ends[k] : a + i - 1 = ends[k] + i /\ ends[k] + i \in 1 .. Len(bytes)
  <2> DEFINE x == ends[k]
             m == Len(bytes)
  <2>1. x \in Nat /\ b \in Nat /\ m \in Nat /\ x < b /\ b <= m
    BY <1>1, <1>2
  <2> HIDE DEF b, x, m
  <2>2. /\ x + 1 \in Nat /\ 1 <= x + 1 /\ x + 1 <= b /\ b - (x + 1) + 1 = b - x
        /\ \A i \in 1 .. b - x : (x + 1) + i - 1 = x + i /\ x + i \in 1 .. m
    BY <2>1
  <2> QED
    BY <2>1, <2>2 DEF x, m
<1>4. /\ Len(frames[k]) = b - ends[k]
      /\ \A i \in 1 .. b - ends[k] : frames[k][i] = bytes[ends[k] + i]
  <2>1. \A i \in a .. b : bytes[i] \in Bytes
    <3> HIDE DEF a, b
    <3>1. \A i \in 1 .. Len(bytes) : bytes[i] \in Bytes
      BY <1>1, ElementOfSeq
    <3>2. \A i \in a .. b : i \in 1 .. Len(bytes)
      BY <1>1, <1>3
    <3> QED
      BY <3>1, <3>2
  <2>2. /\ Len(SubSeq(bytes, a, b)) = b - a + 1
        /\ \A i \in 1 .. b - a + 1 : SubSeq(bytes, a, b)[i] = bytes[a + i - 1]
    <3>1. a \in Int /\ b \in Int /\ a <= b
      BY <1>3
    <3> HIDE DEF a, b
    <3> QED
      BY <2>1, <3>1, SubSeqProperties
  <2>3. frames[k] = SubSeq(bytes, a, b)
    BY <1>2
  <2> QED
    BY <1>3, <2>2, <2>3
<1>5. Len(frames[k]) = ends[k + 1] - ends[k]
  BY <1>4
<1>6. ASSUME NEW i \in 1 .. Len(frames[k])
      PROVE  /\ ends[k] + i \in 1 .. Len(bytes)
             /\ frames[k][i] = upstream.wire[ends[k] + i]
  <2>1. ends[k] + i \in 1 .. Len(bytes) /\ frames[k][i] = bytes[ends[k] + i]
    BY <1>3, <1>4
  <2> QED
    BY <2>1 DEF WirePrefix
<1>7. frames[k] \in Seq(BytesOf(upstream.provider))
  <2>1. \A i \in 1 .. Len(frames[k]) : frames[k][i] \in BytesOf(upstream.provider)
    <3> SUFFICES ASSUME NEW i \in 1 .. Len(frames[k])
                 PROVE  frames[k][i] \in BytesOf(upstream.provider)
      OBVIOUS
    <3>1. ends[k] + i \in 1 .. Len(upstream.wire)
      BY <1>1, <1>6, WireTyped DEF WirePrefix, WireInv
    <3> QED
      BY <1>6, <3>1, WireTyped DEF WireInv
  <2>2. frames[k] \in Seq(Bytes)
    BY <1>1
  <2> DEFINE f == frames[k]
             S == BytesOf(upstream.provider)
  <2> HIDE DEF f, S
  <2>3. f \in Seq(Bytes) /\ \A i \in 1 .. Len(f) : f[i] \in S
    BY <2>1, <2>2 DEF f, S
  <2>4. f \in Seq(S)
    BY <2>3
  <2> QED
    BY <2>4 DEF f, S
<1> QED
  BY <1>2, <1>5, <1>6, <1>7

\* The event processed next has a cost.
LEMMA CostTyped ==
  ASSUME TypedInv, next <= Len(frames)
  PROVE  /\ next \in 1 .. Len(frames)
         /\ Cost \in Costs
         /\ CostTells(upstream.provider, input, frames[next], Len(frames[next]), Cost)
<1>1. next \in 1 .. Len(frames) /\ input \in Nat /\ upstream \in Upstreams
  <2>1. Len(frames) \in Nat
    BY LenProperties DEF TypedInv, WireInv, FramesInv, FramesTyped
  <2> QED
    BY <2>1 DEF TypedInv, WireInv, TypeOK
<1>2. frames[next] \in Seq(BytesOf(upstream.provider)) /\ upstream.provider \in Providers
  BY <1>1, FrameOfWire, WireTyped DEF TypedInv
<1> QED
  BY <1>1, <1>2, EventCosts DEF Cost

\* A read continues the prefix; nothing else touches it.
LEMMA NextPrefix ==
  ASSUME TypedInv, [Next]_vars
  PROVE  WirePrefix'
<1>1. CASE UNCHANGED <<bytes, upstream>>
  BY <1>1 DEF TypedInv, WirePrefix
<1>2. ASSUME NEW n \in 1 .. Len(upstream.wire) - Len(bytes), Read(n)
      PROVE  WirePrefix'
  <2> DEFINE w == upstream.wire
             m == Len(bytes)
             chunk == SubSeq(w, m + 1, m + n)
  <2>1. w \in Seq(Bytes) /\ Len(w) \in Nat /\ bytes \in Seq(Bytes) /\ m \in Nat
    BY WireTyped, LenProperties DEF TypedInv, WireInv, FramesInv, FramesTyped
  <2>2. bytes' = bytes \o chunk /\ upstream' = upstream
    BY <1>2 DEF Read, Push, stream
  <2>3. m <= Len(w) /\ \A i \in 1 .. m : bytes[i] = w[i]
    BY DEF TypedInv, WirePrefix
  <2> HIDE DEF w, m
  <2>4. n \in Nat /\ n >= 1 /\ m + n <= Len(w)
    BY <2>1, <2>3 DEF w, m
  <2>5. /\ chunk \in Seq(Bytes) /\ Len(chunk) = n
        /\ \A i \in 1 .. n : chunk[i] = w[m + i]
    <3>1. /\ m + 1 \in 1 .. Len(w) + 1 /\ m + n \in m .. Len(w)
          /\ (m + n) - (m + 1) + 1 = n /\ m + 1 <= m + n
          /\ \A i \in 1 .. n : m + 1 + i - 1 = m + i
      BY <2>1, <2>4
    <3>2. /\ chunk \in Seq(Bytes)
          /\ Len(chunk) = (m + n) - (m + 1) + 1
          /\ \A i \in 1 .. (m + n) - (m + 1) + 1 : chunk[i] = w[m + 1 + i - 1]
      <4>1. \A i \in m + 1 .. m + n : w[i] \in Bytes
        BY <2>1, <2>4
      <4> QED
        BY <2>1, <3>1, <4>1, SubSeqProperties
    <3> QED
      BY <3>1, <3>2
  <2> HIDE DEF chunk
  <2>6. /\ Len(bytes') = m + n
        /\ \A i \in 1 .. m + n : bytes'[i] = IF i <= m THEN bytes[i] ELSE chunk[i - m]
    BY <2>1, <2>2, <2>5, ConcatProperties DEF m
  <2>7. ASSUME NEW i \in 1 .. m + n PROVE bytes'[i] = w[i]
    <3>1. CASE i <= m
      BY <2>1, <2>3, <2>6, <3>1
    <3>2. CASE ~(i <= m)
      <4>1. i - m \in 1 .. n /\ m + (i - m) = i
        BY <2>1, <2>4, <3>2
      <4> QED
        BY <2>5, <2>6, <3>2, <4>1
    <3> QED
      BY <3>1, <3>2
  <2> QED
    BY <2>2, <2>4, <2>6, <2>7 DEF WirePrefix, w
<1>3. Drain \/ Return \/ Flush => UNCHANGED bytes
  BY DEF Drain, Return, Flush, Cut
<1>4. UNCHANGED bytes \/ \E n \in 1 .. Len(upstream.wire) - Len(bytes) : Read(n)
  BY <1>3 DEF Next, ReadError, End, Frame, PolicyTrip, Charge, TakeEvent,
              Complete, Over, vars, frameVars
<1> QED
  BY <1>1, <1>2, <1>4, UpstreamKept

\* What the first half of process_event leaves typed.
LEMMA TakeTyped ==
  ASSUME TypedInv, TakeEvent
  PROVE  /\ next \in 1 .. Len(frames) /\ Cost \in Costs
         /\ input' \in Nat /\ toolsSeen' \subseteq Tools
         /\ UNCHANGED <<frameVars, upstream>>
<1>1. next \in 1 .. Len(frames) /\ Cost \in Costs
  BY CostTyped DEF TakeEvent
<1>2. ToolsScanned(Cost) \subseteq Tools
  <2> DEFINE q == Cost.tools
  <2>1. q \in Seq(Tools)
    BY <1>1 DEF Costs
  <2> HIDE DEF q
  <2>2. \A i \in DOMAIN q : q[i] \in Tools
    BY <2>1
  <2>3. \A i \in DOMAIN Cost.tools : Cost.tools[i] \in Tools
    BY <2>2 DEF q
  <2> QED
    BY <2>3 DEF ToolsScanned
<1>3. input' = Cost.input /\ toolsSeen' = toolsSeen \cup ToolsScanned(Cost)
      /\ UNCHANGED <<frameVars, upstream>>
  BY DEF TakeEvent
<1>4. toolsSeen \subseteq Tools
  BY DEF TypedInv, TypeOK
<1> QED
  BY <1>1, <1>2, <1>3, <1>4 DEF Costs

\* What its second half charges.
LEMMA ChargeTyped ==
  ASSUME NEW e \in Costs, NEW r \in Nat
  PROVE  /\ NewRecorded(e, r) \in Nat /\ Delta(e, r) \in Nat
         /\ e.total = NoTotal => NewRecorded(e, r) = r + e.est /\ Delta(e, r) = e.est
         /\ e.total # NoTotal => /\ e.total \in Nat /\ NewRecorded(e, r) = e.total
                                 /\ e.total > r => Delta(e, r) = e.total - r
                                 /\ e.total <= r => Delta(e, r) = 0
<1>1. e.est \in Nat /\ (e.total # NoTotal => e.total \in Nat)
  BY DEF Costs
<1> QED
  BY <1>1 DEF NewRecorded, Delta

\* Every step keeps the types.
LEMMA NextTyped ==
  ASSUME TypedInv, [Next]_vars
  PROVE  TypeOK'
<1>1. /\ Len(frames) \in Nat /\ buf \in Seq(Bytes) /\ bytes \in Seq(Bytes)
      /\ frames \in Seq(Seq(Bytes))
  BY LenProperties DEF TypedInv, WireInv, FramesInv, FramesTyped
<1>2. TypeOK /\ next \in Nat /\ next >= 1
  BY <1>1 DEF TypedInv, TypeOK
<1>3. ASSUME NEW n \in 1 .. Len(upstream.wire) - Len(bytes), Read(n)
      PROVE  TypeOK'
  BY <1>2, <1>3 DEF Read, Push, stream, Awaiting, TypeOK
<1>4. ASSUME NEW i \in 0 .. Len(buf), Cut(i), UNCHANGED stream,
             phase' \in {"framing", "flushed"}, phase # "flushed",
             phase' = "flushed" => i = Len(buf)
      PROVE  TypeOK'
  <2>1. SubSeq(buf, 1, i) \in Seq(Bytes)
    <3>1. \A j \in 1 .. i : buf[j] \in Bytes
      BY <1>1
    <3> QED
      BY <1>1, <3>1, SubSeqProperties
  <2>2. Len(frames') = Len(frames) + 1
    BY <1>1, <1>4, <2>1, AppendProperties DEF Cut
  <2>3. phase' = "flushed" => buf' = <<>>
    <3> SUFFICES ASSUME i = Len(buf) PROVE buf' = <<>>
      BY <1>4
    <3>1. buf' = SubSeq(buf, Len(buf) + 1, Len(buf))
      BY <1>4 DEF Cut
    <3>2. Len(buf') = 0 /\ buf' \in Seq(Bytes)
      <4>1. Len(buf) \in Nat
        BY <1>1, LenProperties
      <4>2. Len(buf) + 1 \in 1 .. Len(buf) + 1 /\ ~(Len(buf) + 1 <= Len(buf))
        BY <4>1
      <4>3. \A j \in Len(buf) + 1 .. Len(buf) : buf[j] \in Bytes
        BY <4>1
      <4> QED
        BY <1>1, <3>1, <4>1, <4>2, <4>3, SubSeqProperties
    <3> QED
      BY <3>2, EmptySeq
  <2>4. outcome # "Completed"
    BY <1>2, <1>4 DEF TypeOK
  <2>5. next' \in 1 .. Len(frames') + 1
    BY <1>1, <1>2, <1>4, <2>2 DEF stream, TypeOK
  <2> QED
    BY <1>2, <1>4, <2>3, <2>4, <2>5 DEF stream, TypeOK
<1>5. CASE Frame
  <2>1. ASSUME NEW i \in 2 .. Len(buf), Drain, Cut(i) PROVE TypeOK'
    <3>1. i \in 0 .. Len(buf)
      BY <1>1, LenProperties
    <3> QED
      BY <1>4, <1>5, <2>1, <3>1 DEF Frame, Drain
  <2>2. CASE Return
    BY <1>2, <1>5, <2>2 DEF Frame, Return, stream, TypeOK
  <2> QED
    BY <1>5, <2>1, <2>2 DEF Frame, Drain
<1>6. CASE End
  <2>1. CASE Cut(Len(buf)) /\ phase' = "flushed"
    <3>1. Len(buf) \in 0 .. Len(buf)
      BY <1>1, LenProperties
    <3> QED
      BY <1>4, <1>6, <2>1, <3>1 DEF End, Flush, Awaiting
  <2>2. CASE buf = <<>> /\ phase' = "flushed" /\ UNCHANGED <<buf, frames, bytes, ends>>
    BY <1>2, <1>6, <2>2 DEF End, Awaiting, stream, TypeOK
  <2> QED
    BY <1>6, <2>1, <2>2 DEF End, Flush
<1>7. CASE ReadError
  BY <1>2, <1>7 DEF ReadError, frameVars, TypeOK
<1>8. CASE PolicyTrip
  BY <1>2, <1>8, TakeTyped DEF PolicyTrip, frameVars, TypeOK
<1>9. CASE Charge
  <2>1. /\ next \in 1 .. Len(frames) /\ Cost \in Costs
        /\ input' \in Nat /\ toolsSeen' \subseteq Tools
        /\ UNCHANGED <<frameVars, upstream>>
    BY <1>9, TakeTyped DEF Charge
  <2>2. /\ recorded \in Nat /\ charged \in Nat /\ fallen \in Nat
        /\ outcome = "open"
    BY <1>2, <1>9 DEF TypeOK, Charge, TakeEvent
  <2>3. recorded' \in Nat /\ charged' \in Nat /\ fallen' \in Nat
    <3> DEFINE e == Cost
    <3>1. e \in Costs
      BY <2>1
    <3>2. /\ recorded' = NewRecorded(e, recorded)
          /\ charged' = charged + Delta(e, recorded)
          /\ fallen' = fallen + (IF recorded' < recorded THEN recorded - recorded' ELSE 0)
      BY <1>9 DEF Charge
    <3> HIDE DEF e
    <3>3. NewRecorded(e, recorded) \in Nat /\ Delta(e, recorded) \in Nat
      BY <2>2, <3>1, ChargeTyped
    <3> QED
      BY <2>2, <3>2, <3>3
  <2>4. /\ next' \in 1 .. Len(frames') + 1
        /\ outcome' \in {"open", "BudgetBlocked"}
    BY <1>1, <1>9, <2>1, <2>2 DEF Charge, frameVars
  <2> QED
    BY <1>2, <2>1, <2>3, <2>4 DEF frameVars, TypeOK
<1>10. CASE Complete
  BY <1>2, <1>10 DEF Complete, frameVars, TypeOK
<1>11. CASE Over \/ UNCHANGED vars
  BY <1>2, <1>11 DEF Over, vars, stream, frameVars, TypeOK
<1> QED
  BY <1>3, <1>5, <1>6, <1>7, <1>8, <1>9, <1>10, <1>11 DEF Next

LEMMA InitTyped == Init => TypedInv
<1> SUFFICES ASSUME Init PROVE TypedInv
  OBVIOUS
<1>1. WireInv
  BY FramesInitInv DEF Init, WireInv
<1>2. WirePrefix
  <2>1. Len(bytes) = 0 /\ Len(upstream.wire) \in Nat
    BY <1>1, WireTyped DEF Init, FramesInit, WireInv
  <2> QED
    BY <2>1 DEF WirePrefix
<1>3. TypeOK
  <2>1. Len(frames) = 0
    BY DEF Init, FramesInit
  <2> QED
    BY <2>1 DEF Init, FramesInit, TypeOK
<1> QED
  BY <1>1, <1>2, <1>3 DEF TypedInv

LEMMA StepTyped == TypedInv /\ [Next]_vars => TypedInv'
<1> SUFFICES ASSUME TypedInv, [Next]_vars PROVE TypedInv'
  OBVIOUS
<1>1. WireInv'
  BY StreamStepFrames, FramesStepInv, UpstreamKept DEF TypedInv, WireInv
<1> QED
  BY <1>1, NextPrefix, NextTyped DEF TypedInv

LEMMA AlwaysTyped == Spec => []TypedInv
  BY InitTyped, StepTyped, PTL DEF Spec

\* The stream's locals hold what the code declares, whatever bytes of the
\* provider arrive in whatever reads, and the generator reads nothing after the
\* upstream's end.
THEOREM StreamTypesOK == Spec => []TypeOK
<1>1. TypedInv => TypeOK
  BY DEF TypedInv
<1> QED
  BY <1>1, AlwaysTyped, PTL

-----------------------------------------------------------------------------
(* What the stream has charged.                                              *)

\* What a place in the wire tells.
Told(i) == upstream.wire[i].payload

\* Where an event ends stays.
LEMMA EndsKept ==
  ASSUME TypedInv, [Next]_vars, NEW k \in 1 .. Len(ends)
  PROVE  ends'[k] = ends[k]
<1>1. ASSUME NEW i \in 0 .. Len(buf), Cut(i) PROVE ends'[k] = ends[k]
  <2> DEFINE e == ends[Len(ends)] + i
  <2>1. ends \in Seq(Nat) /\ Len(ends) \in Nat /\ buf \in Seq(Bytes)
    BY LenProperties DEF TypedInv, WireInv, FramesInv, FramesTyped
  <2>2. Len(ends) \in 1 .. Len(ends)
    BY <2>1
  <2>3. e \in Nat
    <3>1. ends[Len(ends)] \in Nat
      BY <2>1, <2>2, ElementOfSeq
    <3>2. Len(buf) \in Nat
      BY <2>1, LenProperties
    <3> QED
      BY <3>1, <3>2
  <2>4. ends' = Append(ends, e)
    BY <1>1 DEF Cut
  <2> HIDE DEF e
  <2> QED
    BY <2>1, <2>3, <2>4, AppendProperties
<1>2. Len(buf) \in Nat
  BY LenProperties DEF TypedInv, WireInv, FramesInv, FramesTyped
<1>3. CASE Drain \/ Return \/ Flush
  <2>1. CASE Drain
    <3>1. PICK i \in 2 .. Len(buf) : Cut(i)
      BY <2>1 DEF Drain
    <3> QED
      BY <1>1, <1>2, <3>1
  <2>2. CASE Flush
    BY <1>1, <1>2, <2>2 DEF Flush
  <2> QED
    BY <1>3, <2>1, <2>2 DEF Return
<1>4. CASE UNCHANGED ends
  BY <1>4
<1>5. Drain \/ Return \/ Flush \/ UNCHANGED ends
  BY DEF Next, Read, Push, ReadError, End, Frame, PolicyTrip, Charge, TakeEvent,
         Complete, Over, vars, frameVars
<1> QED
  BY <1>3, <1>4, <1>5

\* Only Charge and PolicyTrip touch the accounts.
LEMMA AccountsKept ==
  ASSUME TypedInv, [Next]_vars, ~Charge, ~PolicyTrip
  PROVE  /\ UNCHANGED <<upstream, next, input, recorded, toolsSeen, charged, fallen>>
         /\ ends'[next] = ends[next]
         /\ outcome' \in {"open", "Completed"} => outcome \in {"open", outcome'}
<1>1. UNCHANGED <<upstream, next, input, recorded, toolsSeen, charged, fallen>>
  BY DEF Next, vars, stream, Read, ReadError, End, Frame, Complete, Over
<1>2. next \in 1 .. Len(ends)
  BY DEF TypedInv, TypeOK, WireInv, FramesInv, FramesTyped
<1>3. outcome' \in {"open", "Completed"} => outcome \in {"open", outcome'}
  BY DEF Next, vars, stream, Read, ReadError, End, Frame, Complete, Over
<1> QED
  BY <1>1, <1>2, <1>3, EndsKept

\* The data lines of an event lie in the wire, behind the events processed.
LEMMA LinesOfWire ==
  ASSUME TypedInv, next <= Len(frames), NEW i \in LinesIn(frames[next])
  PROVE  LET at == ends[next] + i
         IN  /\ at \in Int /\ ends[next] < at /\ at <= ends[next + 1]
             /\ Told(at) = frames[next][i].payload
<1>1. next \in 1 .. Len(frames)
  BY CostTyped
<1>2. /\ ends[next] \in Nat /\ ends[next + 1] \in Nat
      /\ ends[next + 1] <= Len(bytes)
      /\ frames[next] \in Seq(BytesOf(upstream.provider))
      /\ Len(frames[next]) = ends[next + 1] - ends[next]
      /\ \A j \in 1 .. Len(frames[next]) : frames[next][j] = upstream.wire[ends[next] + j]
  BY <1>1, FrameOfWire DEF TypedInv
<1>3. /\ i \in 1 .. Len(frames[next])
      /\ frames[next][i] \in Piece /\ frames[next][i].part = 1
  BY <1>2, LenProperties DEF LinesIn, IsDataLine
<1>4. /\ Len(bytes) <= Len(upstream.wire) /\ Len(bytes) \in Nat /\ Len(upstream.wire) \in Nat
      /\ DOMAIN upstream.wire = 1 .. Len(upstream.wire)
  BY WireTyped, LenProperties DEF TypedInv, WirePrefix, WireInv, FramesInv, FramesTyped
<1>5. /\ ends[next] + i \in 1 .. Len(upstream.wire)
      /\ ends[next] < ends[next] + i /\ ends[next] + i <= ends[next + 1]
  <2> DEFINE x == ends[next]
             y == ends[next + 1]
             l == Len(frames[next])
             m == Len(bytes)
             n == Len(upstream.wire)
  <2>1. /\ x \in Nat /\ y \in Nat /\ l = y - x /\ y <= m /\ m <= n /\ m \in Nat /\ n \in Nat
        /\ i \in 1 .. l
    BY <1>2, <1>3, <1>4
  <2> HIDE DEF x, y, l, m, n
  <2>2. x + i \in 1 .. n /\ x < x + i /\ x + i <= y
    BY <2>1
  <2> QED
    BY <2>2 DEF x, y, n
<1> DEFINE at == ends[next] + i
           b == upstream.wire[at]
<1>6. b = frames[next][i] /\ b \in Piece /\ b.part = 1
  BY <1>2, <1>3
<1>7. at \in 1 .. Len(upstream.wire) /\ at \in DOMAIN upstream.wire /\ at \in Int
  <2>1. at \in 1 .. Len(upstream.wire)
    BY <1>5
  <2> HIDE DEF at
  <2> QED
    BY <1>4, <2>1
<1>9. Told(at) = frames[next][i].payload
  BY <1>6 DEF Told
<1> QED
  BY <1>5, <1>7, <1>9

\* An event that is charged raises what is charged by what it raises
\* recorded_so_far, and by nothing if it lowers it.
LEMMA ChargeKeeps ==
  ASSUME TypedInv, ChargedOnce, Charge
  PROVE  ChargedOnce'
<1> DEFINE e == Cost
<1>1. /\ next <= Len(frames)
      /\ recorded' = NewRecorded(e, recorded)
      /\ charged' = charged + Delta(e, recorded)
      /\ fallen' = fallen + (IF recorded' < recorded THEN recorded - recorded' ELSE 0)
  BY DEF Charge, TakeEvent
<1>2. recorded \in Nat /\ charged \in Nat /\ fallen \in Nat /\ e \in Costs
  BY <1>1, CostTyped DEF TypedInv, TypeOK
<1> HIDE DEF e
<1>3. /\ e.total = NoTotal => NewRecorded(e, recorded) = recorded + e.est
                              /\ Delta(e, recorded) = e.est
      /\ e.total # NoTotal => /\ e.total \in Nat /\ NewRecorded(e, recorded) = e.total
                              /\ e.total > recorded => Delta(e, recorded) = e.total - recorded
                              /\ e.total <= recorded => Delta(e, recorded) = 0
      /\ e.est \in Nat
  BY <1>2, ChargeTyped DEF Costs
<1>4. charged = recorded + fallen
  BY DEF ChargedOnce
<1>5. CASE e.total = NoTotal
  BY <1>1, <1>2, <1>3, <1>4, <1>5 DEF ChargedOnce
<1>6. CASE e.total # NoTotal
  BY <1>1, <1>2, <1>3, <1>4, <1>6 DEF ChargedOnce
<1> QED
  BY <1>5, <1>6

\* However the wire tells totals, early or late, repeated, rising or falling:
\* what the tenant is charged is what the stream has reported, and what totals
\* have taken back of it.  No token is charged twice because it was estimated
\* first or is told again.
THEOREM TokensChargedOnce == Spec => []ChargedOnce
<1>1. Init => TypedInv /\ ChargedOnce
  BY InitTyped DEF Init, ChargedOnce
<1>2. TypedInv /\ ChargedOnce /\ [Next]_vars => ChargedOnce'
  <2> SUFFICES ASSUME TypedInv, ChargedOnce, [Next]_vars PROVE ChargedOnce'
    OBVIOUS
  <2>1. CASE Charge
    BY <2>1, ChargeKeeps
  <2>2. CASE PolicyTrip
    BY <2>2 DEF PolicyTrip, ChargedOnce
  <2>3. CASE ~Charge /\ ~PolicyTrip
    BY <2>3, AccountsKept DEF ChargedOnce
  <2> QED
    BY <2>1, <2>2, <2>3
<1>3. TypedInv /\ ChargedOnce /\ [Next]_vars => (TypedInv /\ ChargedOnce)'
  BY <1>2, StepTyped
<1> QED
  BY <1>1, <1>3, PTL DEF Spec

-----------------------------------------------------------------------------
(* A stream that is read to its end.                                         *)

\* If the stream ended, it ended with the wire.
Whole == phase = "flushed" => bytes = upstream.wire

\* The data lines of the wire in the events processed.
Done == { i \in LinesIn(upstream.wire) : i <= ends[next] }

ToldBy(i) == ToolsTold(upstream.provider, Told(i))

\* The last line of a set that opens the response, and the line that settles it
\* with nothing but silence behind.
LastOpens(lines, i) == /\ Opens(upstream.provider, Told(i))
                       /\ \A k \in lines : k > i => ~Opens(upstream.provider, Told(k))

LastSettles(lines, i) == /\ Settles(upstream.provider, Told(i))
                         /\ \A k \in lines : k > i => Silent(upstream.provider, Told(k))

\* What the stream has seen is what the lines of the wire tell, up to the last
\* event processed.
SeenInv ==
    (Whole /\ outcome \in {"open", "Completed"}) =>
       /\ toolsSeen = UNION { ToldBy(i) : i \in Done }
       /\ \A i \in Done : LastOpens(Done, i) => input = Told(i).tokens
       /\ \A i \in Done : LastSettles(Done, i) =>
             recorded = TotalTold(upstream.provider, input, Told(i))

\* A byte at which an event ends closes a blank line.
LEMMA EndClosesLine ==
  ASSUME NEW b \in Seq(Bytes), NEW e \in FrameEnds(b)
  PROVE  e \in 2 .. Len(b) /\ b[e] = LF /\ b[e - 1] = LF
<1>1. e \in 1 .. Len(b) /\ ClosesBlankLine(b, e)
  BY DEF FrameEnds
<1>2. PICK k \in 1 .. e : 2 * k <= e /\ \A j \in (e - 2 * k + 1) .. e : b[j] = LF
  BY <1>1 DEF ClosesBlankLine
<1>3. Len(b) \in Nat
  OBVIOUS
<1> QED
  BY <1>1, <1>2, <1>3

\* Where an event ends: at a blank line, or with the wire.
LEMMA EndsWhere ==
  ASSUME TypedInv, Whole, NEW k \in 1 .. Len(ends)
  PROVE  \/ ends[k] = 0
         \/ ends[k] = Len(upstream.wire) /\ phase = "flushed"
         \/ /\ ends[k] \in 2 .. Len(upstream.wire)
            /\ upstream.wire[ends[k]] = LF /\ upstream.wire[ends[k] - 1] = LF
<1>1. /\ bytes \in Seq(Bytes) /\ Len(bytes) \in Nat /\ ends \in Seq(Nat)
      /\ DOMAIN ends = 1 .. Len(ends)
  BY LenProperties DEF TypedInv, WireInv, FramesInv, FramesTyped
<1>2. /\ Len(bytes) <= Len(upstream.wire) /\ Len(upstream.wire) \in Nat
      /\ \A i \in 1 .. Len(bytes) : bytes[i] = upstream.wire[i]
  BY WireTyped DEF TypedInv, WirePrefix, WireInv
<1>3. ends[k] \in CutEnds
  BY <1>1 DEF CutEnds
<1>4. \/ ends[k] = 0
      \/ ends[k] \in FrameEnds(bytes)
      \/ ends[k] = Len(bytes) /\ phase = "flushed"
  BY <1>3 DEF TypedInv, WireInv, FramesInv, CutsAreEnds
<1>5. CASE ends[k] \in FrameEnds(bytes)
  <2> DEFINE e == ends[k]
             w == upstream.wire
  <2>1. e \in 2 .. Len(bytes) /\ bytes[e] = LF /\ bytes[e - 1] = LF
    BY <1>1, <1>5, EndClosesLine
  <2> HIDE DEF e, w
  <2>2. /\ Len(bytes) <= Len(w) /\ Len(w) \in Nat
        /\ \A i \in 1 .. Len(bytes) : bytes[i] = w[i]
    BY <1>2 DEF w
  <2>3. e \in 2 .. Len(w) /\ e \in 1 .. Len(bytes) /\ e - 1 \in 1 .. Len(bytes)
    BY <1>1, <2>1, <2>2
  <2>4. e \in 2 .. Len(w) /\ w[e] = LF /\ w[e - 1] = LF
    BY <2>1, <2>2, <2>3
  <2> QED
    BY <2>4 DEF e, w
<1>6. CASE ends[k] = Len(bytes) /\ phase = "flushed"
  BY <1>6 DEF Whole
<1> QED
  BY <1>4, <1>5, <1>6

\* Places of a piece x + 1 .. y in 1 .. m.
LEMMA PlacesShift ==
  ASSUME NEW x \in Nat, NEW y \in Nat, NEW m \in Nat, x < y, y <= m,
         NEW n \in Nat, n = y - x, NEW i \in 1 .. n
  PROVE  /\ x + i \in 1 .. m
         /\ i = n <=> x + i = y
         /\ i + 1 = n <=> x + i + 1 = y
         /\ i + 2 = n <=> x + i + 1 = y - 1
         /\ i + 2 = n <=> x + i + 2 = y
         /\ i # n => i < n /\ i + 1 \in 1 .. n /\ x + (i + 1) = x + i + 1 /\ x + i < m
         /\ i < n /\ i + 1 # n => /\ i + 2 \in 1 .. n /\ x + (i + 2) = x + i + 2
                                 /\ x + i + 1 # m
         /\ i < n /\ i + 1 # n /\ i + 2 # n => /\ i + 3 \in 1 .. n
                                              /\ x + (i + 3) = x + i + 3
                                              /\ x + i + 2 # m
         /\ i # 1 => i - 1 \in 1 .. n /\ x + (i - 1) = x + i - 1 /\ x + i # 1
         /\ i = 1 => x + i - 1 = x /\ (x + i = 1 <=> x = 0)
  OBVIOUS

\* A piece w[x + 1 .. y] of a wire w that begins the wire or behind a line feed,
\* and ends the wire or with two line feeds, has the data lines of the wire.
LEMMA PieceHasLines ==
  ASSUME NEW w \in Seq(Bytes), NEW f \in Seq(Bytes),
         NEW x \in Nat, NEW y \in Nat, x < y, y <= Len(w), Len(f) = y - x,
         \A j \in 1 .. Len(f) : f[j] = w[x + j],
         x = 0 \/ w[x] = LF,
         y = Len(w) \/ (y >= 2 /\ w[y] = LF /\ w[y - 1] = LF),
         NEW i \in 1 .. Len(f)
  PROVE  IsDataLine(f, i) <=> IsDataLine(w, x + i)
<1> DEFINE n == Len(f)
           m == Len(w)
<1>1. n \in Nat /\ m \in Nat /\ n = y - x /\ y <= m
  OBVIOUS
<1>2. LF \notin Piece /\ LF # CR
  BY WireOK
<1> HIDE DEF n, m
<1>3. /\ i \in 1 .. n
      /\ \A j \in 1 .. n : f[j] = w[x + j]
      /\ y = m \/ (y >= 2 /\ w[y] = LF /\ w[y - 1] = LF)
  BY DEF n, m
<1>4. /\ x + i \in 1 .. m
      /\ i = n <=> x + i = y
      /\ i + 1 = n <=> x + i + 1 = y
      /\ i + 2 = n <=> x + i + 1 = y - 1
      /\ i + 2 = n <=> x + i + 2 = y
      /\ i # n => i < n /\ i + 1 \in 1 .. n /\ x + (i + 1) = x + i + 1 /\ x + i < m
      /\ i < n /\ i + 1 # n => /\ i + 2 \in 1 .. n /\ x + (i + 2) = x + i + 2
                              /\ x + i + 1 # m
      /\ i < n /\ i + 1 # n /\ i + 2 # n => /\ i + 3 \in 1 .. n
                                           /\ x + (i + 3) = x + i + 3
                                           /\ x + i + 2 # m
      /\ i # 1 => i - 1 \in 1 .. n /\ x + (i - 1) = x + i - 1 /\ x + i # 1
      /\ i = 1 => x + i - 1 = x /\ (x + i = 1 <=> x = 0)
  BY <1>1, <1>3, PlacesShift
<1>5. f[i] = w[x + i] /\ i \in Nat /\ (i < n => i # n)
  BY <1>1, <1>3
<1>6. ASSUME i # n, f[i] \in Piece, f[i + 1] = [f[i] EXCEPT !.part = 2]
      PROVE  IsDataLine(f, i) <=> IsDataLine(w, x + i)
  <2>1. f[i + 1] = w[x + i + 1] /\ x + i < m /\ i < n
    <3>1. i < n /\ i + 1 \in 1 .. n /\ x + (i + 1) = x + i + 1 /\ x + i < m
      BY <1>4, <1>6
    <3>2. f[i + 1] = w[x + (i + 1)]
      BY <1>3, <3>1
    <3> QED
      BY <3>1, <3>2
  <2>2. f[i + 1] \in Piece
    BY <1>6 DEF Piece
  <2>3. (i = 1 \/ f[i - 1] = LF) <=> (x + i = 1 \/ w[x + i - 1] = LF)
    <3>1. CASE i = 1
      <4>1. x = 0 \/ w[x] = LF
        OBVIOUS
      <4>2. x + i - 1 = x /\ (x + i = 1 <=> x = 0)
        BY <1>4, <3>1
      <4> QED
        BY <3>1, <4>1, <4>2
    <3>2. CASE i # 1
      <4>1. i - 1 \in 1 .. n /\ x + (i - 1) = x + i - 1 /\ x + i # 1
        BY <1>4, <3>2
      <4>2. f[i - 1] = w[x + (i - 1)]
        BY <1>3, <4>1
      <4> QED
        BY <3>2, <4>1, <4>2
    <3> QED
      BY <3>1, <3>2
  <2> DEFINE FEnds == \/ i + 1 = n
                      \/ f[i + 2] = LF
                      \/ f[i + 2] = CR /\ (i + 2 = n \/ f[i + 3] = LF)
             WEnds == \/ x + i + 1 = m
                      \/ w[x + i + 2] = LF
                      \/ w[x + i + 2] = CR /\ (x + i + 2 = m \/ w[x + i + 3] = LF)
  <2>4. ASSUME i + 1 # n
        PROVE  f[i + 2] = w[x + i + 2] /\ x + i + 1 # m
    <3>1. i + 2 \in 1 .. n /\ x + (i + 2) = x + i + 2 /\ x + i + 1 # m
      BY <1>4, <2>1, <2>4
    <3>2. f[i + 2] = w[x + (i + 2)]
      BY <1>3, <3>1
    <3> QED
      BY <3>1, <3>2
  <2>5. ASSUME i + 1 # n, i + 2 # n
        PROVE  f[i + 3] = w[x + i + 3] /\ x + i + 2 # m
    <3>1. i + 3 \in 1 .. n /\ x + (i + 3) = x + i + 3 /\ x + i + 2 # m
      BY <1>4, <2>1, <2>5
    <3>2. f[i + 3] = w[x + (i + 3)]
      BY <1>3, <3>1
    <3> QED
      BY <3>1, <3>2
  <2>6. FEnds <=> WEnds
    <3>1. CASE y = m
      <4>1. (i + 1 = n <=> x + i + 1 = m) /\ (i + 2 = n <=> x + i + 2 = m)
        BY <1>4, <3>1
      <4> QED
        BY <2>4, <2>5, <4>1
    <3>2. CASE y # m
      <4>1. w[y] = LF /\ w[y - 1] = LF
        BY <1>3, <3>2
      <4>2. i + 1 # n /\ i + 2 # n
        <5>1. x + i + 1 # y /\ x + i + 1 # y - 1
          BY <1>2, <2>1, <2>2, <4>1
        <5> QED
          BY <1>4, <5>1
      <4> QED
        BY <2>4, <2>5, <4>2
    <3> QED
      BY <3>1, <3>2
  <2>7. IsDataLine(f, i) <=> /\ f[i].part = 1
                             /\ i = 1 \/ f[i - 1] = LF
                             /\ FEnds
    BY <1>6, <2>1 DEF IsDataLine, n
  <2>8. IsDataLine(w, x + i) <=> /\ w[x + i].part = 1
                                 /\ x + i = 1 \/ w[x + i - 1] = LF
                                 /\ WEnds
    <3> DEFINE at == x + i
    <3>1. /\ at < m /\ w[at] \in Piece
          /\ w[at + 1] = [w[at] EXCEPT !.part = 2]
      BY <1>5, <1>6, <2>1
    <3> HIDE DEF at
    <3>2. IsDataLine(w, at) <=> /\ w[at].part = 1
                                /\ at = 1 \/ w[at - 1] = LF
                                /\ \/ at + 1 = m
                                   \/ w[at + 2] = LF
                                   \/ w[at + 2] = CR /\ (at + 2 = m \/ w[at + 3] = LF)
      BY <3>1 DEF IsDataLine, m
    <3> QED
      BY <3>2 DEF at
  <2> HIDE DEF FEnds, WEnds
  <2> QED
    BY <1>5, <2>3, <2>6, <2>7, <2>8
<1>7. IsDataLine(f, i) =>
         i # n /\ f[i] \in Piece /\ f[i + 1] = [f[i] EXCEPT !.part = 2]
  BY <1>5 DEF IsDataLine, n
<1>8. IsDataLine(w, x + i) =>
         i # n /\ f[i] \in Piece /\ f[i + 1] = [f[i] EXCEPT !.part = 2]
  <2> SUFFICES ASSUME IsDataLine(w, x + i)
               PROVE  i # n /\ f[i] \in Piece /\ f[i + 1] = [f[i] EXCEPT !.part = 2]
    OBVIOUS
  <2>1. x + i < m /\ w[x + i] \in Piece /\ w[x + i + 1] = [w[x + i] EXCEPT !.part = 2]
    BY DEF IsDataLine, m
  <2>2. i # n
    <3>1. y = m \/ w[y] = LF
      BY <1>3
    <3>2. x + i # m
      BY <1>1, <1>4, <2>1
    <3> QED
      BY <1>2, <1>4, <2>1, <3>1, <3>2
  <2>3. i + 1 \in 1 .. n /\ x + (i + 1) = x + i + 1
    BY <1>4, <2>2
  <2>4. f[i + 1] = w[x + (i + 1)]
    BY <1>3, <2>3
  <2> QED
    BY <1>5, <2>1, <2>2, <2>3, <2>4
<1> QED
  BY <1>6, <1>7, <1>8

\* The data lines of an event are those of its piece of the wire.
LEMMA EventLines ==
  ASSUME TypedInv, Whole, next <= Len(frames), NEW i \in 1 .. Len(frames[next])
  PROVE  i \in LinesIn(frames[next]) <=> ends[next] + i \in LinesIn(upstream.wire)
<1> DEFINE w == upstream.wire
           f == frames[next]
           x == ends[next]
           y == ends[next + 1]
<1>1. next \in 1 .. Len(frames) /\ next \in 1 .. Len(ends) /\ next + 1 \in 1 .. Len(ends)
  <2>1. next \in 1 .. Len(frames)
    BY CostTyped
  <2>2. Len(ends) = Len(frames) + 1 /\ Len(frames) \in Nat
    BY LenProperties DEF TypedInv, WireInv, FramesInv, FramesTyped
  <2> QED
    BY <2>1, <2>2
<1>2. /\ x \in Nat /\ y \in Nat /\ x < y /\ y <= Len(bytes)
      /\ f \in Seq(BytesOf(upstream.provider)) /\ Len(f) = y - x
      /\ \A j \in 1 .. Len(f) : f[j] = w[x + j]
  BY <1>1, FrameOfWire DEF TypedInv
<1>3. w \in Seq(Bytes) /\ Len(w) \in Nat /\ DOMAIN w = 1 .. Len(w) /\ Len(bytes) \in Nat
      /\ Len(bytes) <= Len(w)
  BY WireTyped, LenProperties DEF TypedInv, WirePrefix, WireInv, FramesInv, FramesTyped
<1>4. f \in Seq(Bytes)
  BY <1>1, ElementOfSeq DEF TypedInv, WireInv, FramesInv, FramesTyped
<1>5. /\ x = 0 \/ (x = Len(w) /\ phase = "flushed") \/ (x \in 2 .. Len(w) /\ w[x] = LF)
      /\ \/ y = 0 \/ y = Len(w)
         \/ y \in 2 .. Len(w) /\ w[y] = LF /\ w[y - 1] = LF
  BY <1>1, EndsWhere
<1> HIDE DEF w, f, x, y
<1>6. /\ y <= Len(w)
      /\ x = 0 \/ w[x] = LF
      /\ y = Len(w) \/ (y >= 2 /\ w[y] = LF /\ w[y - 1] = LF)
  <2> DEFINE m == Len(bytes)
             n == Len(w)
  <2>1. x \in Nat /\ y \in Nat /\ m \in Nat /\ n \in Nat /\ x < y /\ y <= m /\ m <= n
    BY <1>2, <1>3
  <2> HIDE DEF m, n
  <2>2. y <= n /\ x # n /\ y # 0 /\ (y \in 2 .. n => y >= 2)
    BY <2>1
  <2> QED
    BY <1>5, <2>2 DEF n
<1>7. i \in 1 .. Len(f)
  BY DEF f
<1>8. IsDataLine(f, i) <=> IsDataLine(w, x + i)
  BY <1>2, <1>3, <1>4, <1>6, <1>7, PieceHasLines
<1>9. i \in LinesIn(f) <=> IsDataLine(f, i)
  BY <1>4, <1>7, LenProperties DEF LinesIn
<1>10. x + i \in LinesIn(w) <=> IsDataLine(w, x + i)
  <2>1. x + i \in 1 .. Len(w)
    <3> DEFINE n == Len(f)
               m == Len(w)
    <3>1. n \in Nat /\ n = y - x /\ i \in 1 .. n /\ m \in Nat /\ y <= m
      BY <1>2, <1>3, <1>4, <1>6, <1>7, LenProperties
    <3> HIDE DEF n, m
    <3>2. x + i \in 1 .. m
      BY <1>2, <3>1
    <3> QED
      BY <3>2 DEF m
  <2> QED
    BY <1>3, <2>1 DEF LinesIn
<1> QED
  BY <1>8, <1>9, <1>10 DEF w, f, x

\* An event processed adds its lines.
LEMMA DoneGrows ==
  ASSUME TypedInv, Whole, Charge, next' = next + 1
  PROVE  Done' = Done \cup { ends[next] + i : i \in LinesIn(frames[next]) }
<1> DEFINE f == frames[next]
           w == upstream.wire
           x == ends[next]
           y == ends[next + 1]
<1>1. /\ UNCHANGED <<upstream, ends>>
      /\ next <= Len(frames)
  BY DEF Charge, TakeEvent, frameVars
<1>2. Done' = { a \in LinesIn(w) : a <= y }
  BY <1>1 DEF Done
<1>3. /\ x \in Nat /\ y \in Nat /\ x < y /\ Len(f) = y - x
      /\ f \in Seq(BytesOf(upstream.provider))
  BY <1>1, CostTyped, FrameOfWire DEF TypedInv
<1>4. \A i \in 1 .. Len(f) : i \in LinesIn(f) <=> x + i \in LinesIn(w)
  BY <1>1, EventLines
<1>5. \A i \in LinesIn(f) : i \in 1 .. Len(f)
  <2> HIDE DEF f
  <2> QED
    BY <1>3, LenProperties DEF LinesIn
<1>6. \A a \in LinesIn(w) : a \in Nat
  BY WireTyped DEF LinesIn, TypedInv, WireInv
<1> DEFINE n == Len(f)
<1>7. n = y - x
  BY <1>3
<1> HIDE DEF n
<1>8. /\ \A i \in 1 .. n : x + i <= y
      /\ \A a \in Nat : a <= y /\ ~(a <= x) => a - x \in 1 .. n /\ x + (a - x) = a
      /\ \A a \in Nat : a <= x => a <= y
  <2> HIDE DEF x, y
  <2> QED
    BY <1>3, <1>7
<1> HIDE DEF f, w, x, y
<1>9. ASSUME NEW a \in LinesIn(w), a <= y PROVE a <= x \/ \E i \in LinesIn(f) : a = x + i
  <2> SUFFICES ASSUME ~(a <= x) PROVE \E i \in LinesIn(f) : a = x + i
    OBVIOUS
  <2>1. a - x \in 1 .. n /\ x + (a - x) = a
    BY <1>6, <1>8, <1>9
  <2> QED
    BY <1>4, <2>1 DEF n
<1>10. ASSUME NEW i \in LinesIn(f) PROVE x + i \in LinesIn(w) /\ x + i <= y
  BY <1>4, <1>5, <1>8 DEF n
<1>11. { a \in LinesIn(w) : a <= y } = { a \in LinesIn(w) : a <= x } \cup { x + i : i \in LinesIn(f) }
  BY <1>6, <1>8, <1>9, <1>10
<1> QED
  BY <1>2, <1>11 DEF Done, f, w, x, y

\* An event none of whose tools is blocked is scanned to its end.
LEMMA ScannedAll ==
  ASSUME NEW e, ToolsOf(e) \cap Blocked = {}
  PROVE  ToolsScanned(e) = ToolsOf(e)
  BY DEF ToolsScanned, ToolsOf

\* A total that is told is one.
LEMMA TotalIsTold ==
  ASSUME NEW provider \in Providers, NEW inp \in Nat, NEW p, IsPayload(provider, p),
         Settles(provider, p)
  PROVE  TotalTold(provider, inp, p) # NoTotal
<1>1. CASE provider = "OpenAi"
  BY <1>1 DEF Settles, TotalTold
<1>2. CASE provider # "OpenAi"
  <2>1. p.tokens \in Nat
    BY <1>2 DEF Settles, IsPayload
  <2>2. inp + p.tokens \in Nat
    BY <2>1
  <2> QED
    BY <1>2, <2>2, CostOK DEF TotalTold
<1> QED
  BY <1>1, <1>2

LEMMA ChargeSees ==
  ASSUME TypedInv, SeenInv, Whole, Charge, outcome' = "open"
  PROVE  SeenInv'
<1> DEFINE f == frames[next]
           lines == LinesIn(f)
           told(i) == f[i].payload
           pr == upstream.provider
           c == Cost
           x == ends[next]
<1>1. /\ next <= Len(frames) /\ outcome = "open" /\ next' = next + 1
      /\ input' = c.input
      /\ toolsSeen' = toolsSeen \cup ToolsScanned(c)
      /\ ToolsOf(c) \cap Blocked = {}
      /\ recorded' = NewRecorded(c, recorded)
      /\ upstream' = upstream
  BY DEF Charge, TakeEvent
<1>2. /\ c \in Costs /\ CostTells(pr, input, f, Len(f), c)
      /\ next \in 1 .. Len(frames)
  BY <1>1, CostTyped
<1>3. /\ toolsSeen = UNION { ToldBy(i) : i \in Done }
      /\ \A i \in Done : LastOpens(Done, i) => input = Told(i).tokens
      /\ \A i \in Done : LastSettles(Done, i) => recorded = TotalTold(pr, input, Told(i))
  BY <1>1 DEF SeenInv
<1>4. f \in Seq(BytesOf(pr)) /\ pr \in Providers
  BY <1>2, FrameOfWire, WireTyped DEF TypedInv, WireInv
<1>5. LinesUpTo(f, Len(f)) = lines
  <2> HIDE DEF f, pr
  <2>1. \A i \in lines : i <= Len(f)
    BY <1>4, LenProperties DEF LinesIn
  <2> QED
    BY <2>1 DEF LinesUpTo
<1>6. \A i \in lines : IsPayload(pr, told(i))
  <2> HIDE DEF f, pr
  <2>1. \A i \in lines : i \in 1 .. Len(f) /\ f[i] \in Piece
    BY <1>4, LenProperties DEF LinesIn, IsDataLine
  <2>2. \A i \in 1 .. Len(f) : f[i] \in BytesOf(pr)
    BY <1>4, ElementOfSeq
  <2> QED
    BY <2>1, <2>2 DEF BytesOf
<1>7. /\ ToolsOf(c) = UNION { ToolsTold(pr, told(i)) : i \in lines }
      /\ (\A i \in lines : Silent(pr, told(i))) => c.est = 0 /\ c.total = NoTotal
      /\ (\A i \in lines : ~Opens(pr, told(i))) => c.input = input
      /\ \A j \in lines :
            Opens(pr, told(j)) /\ (\A k \in lines : k > j => ~Opens(pr, told(k)))
               => c.input = told(j).tokens
      /\ \A i \in lines :
            Settles(pr, told(i)) /\ (\A k \in lines : k > i => Silent(pr, told(k)))
               => c.total = TotalTold(pr, c.input, told(i))
  <2> HIDE DEF f, lines, c, pr
  <2> QED
    BY <1>2, <1>5 DEF CostTells
<1>8. \A a \in Done, i \in lines : x + i > a
  <2>1. x \in Nat /\ \A i \in lines : i \in Nat /\ i >= 1
    <3>1. x \in Nat
      BY <1>2, FrameOfWire DEF TypedInv
    <3> HIDE DEF f, x
    <3> QED
      BY <1>4, <3>1, LenProperties DEF LinesIn
  <2>2. \A a \in Done : a \in Nat /\ a <= x
    BY WireTyped DEF Done, LinesIn, TypedInv, WireInv
  <2> HIDE DEF lines, x
  <2> QED
    BY <2>1, <2>2
<1>9. \A i, j \in lines : j > i => x + j > x + i
  <2>1. x \in Nat /\ \A i \in lines : i \in Nat
    <3>1. x \in Nat
      BY <1>2, FrameOfWire DEF TypedInv
    <3> HIDE DEF f, x
    <3> QED
      BY <1>4, <3>1, LenProperties DEF LinesIn
  <2> HIDE DEF lines, x
  <2> QED
    BY <2>1
<1>10. Done' = Done \cup { x + i : i \in lines }
  BY <1>1, DoneGrows
<1>11. \A i \in lines : Told(x + i) = told(i)
  BY <1>1, LinesOfWire
<1>12. \A i : Told(i)' = Told(i) /\ ToldBy(i)' = ToldBy(i)
  BY <1>1 DEF Told, ToldBy
<1>13. recorded \in Nat /\ input \in Nat
  BY DEF TypedInv, TypeOK
<1>14. \A p : ~(Opens(pr, p) /\ Silent(pr, p))
  BY <1>4, LinesDiffer
<1>15. pr' = pr
  BY <1>1
<1> HIDE DEF f, lines, c, pr, x
<1>16. toolsSeen' = UNION { ToldBy(i) : i \in Done' }
  <2>1. toolsSeen' = toolsSeen \cup ToolsOf(c)
    BY <1>1, ScannedAll
  <2>2. \A i \in lines : ToldBy(x + i) = ToolsTold(pr, told(i))
    BY <1>11 DEF ToldBy, pr
  <2>3. ASSUME NEW t \in toolsSeen' PROVE \E a \in Done' : t \in ToldBy(a)
    <3>1. CASE t \in toolsSeen
      BY <1>3, <1>10, <3>1
    <3>2. CASE t \in ToolsOf(c)
      <4>1. PICK i \in lines : t \in ToolsTold(pr, told(i))
        BY <1>7, <3>2
      <4>2. x + i \in Done' /\ t \in ToldBy(x + i)
        BY <1>10, <2>2, <4>1
      <4> QED
        BY <4>2
    <3> QED
      BY <2>1, <2>3, <3>1, <3>2
  <2>4. ASSUME NEW a \in Done', NEW t \in ToldBy(a) PROVE t \in toolsSeen'
    <3>1. CASE a \in Done
      BY <1>3, <2>1, <3>1
    <3>2. CASE a \notin Done
      <4>1. PICK i \in lines : a = x + i
        BY <1>10, <3>2
      <4>2. t \in ToolsTold(pr, told(i))
        BY <2>2, <4>1
      <4>3. t \in ToolsOf(c)
        BY <1>7, <4>2
      <4> QED
        BY <2>1, <4>3
    <3> QED
      BY <3>1, <3>2
  <2> QED
    BY <2>3, <2>4
<1>17. ASSUME NEW a \in Done', LastOpens(Done', a)
       PROVE  input' = Told(a).tokens
  <2>1. Opens(pr, Told(a)) /\ \A k \in Done' : k > a => ~Opens(pr, Told(k))
    BY <1>17 DEF LastOpens, pr
  <2>2. CASE a \in Done
    <3>1. \A k \in lines : ~Opens(pr, told(k))
      BY <1>8, <1>10, <1>11, <2>1, <2>2
    <3>2. LastOpens(Done, a)
      BY <1>10, <2>1 DEF LastOpens, pr
    <3> QED
      BY <1>1, <1>3, <1>7, <2>2, <3>1, <3>2
  <2>3. CASE a \notin Done
    <3>1. PICK j \in lines : a = x + j
      BY <1>10, <2>3
    <3>2. Opens(pr, told(j)) /\ Told(a) = told(j)
      BY <1>11, <2>1, <3>1
    <3>3. \A k \in lines : k > j => ~Opens(pr, told(k))
      BY <1>9, <1>10, <1>11, <2>1, <3>1
    <3> QED
      BY <1>1, <1>7, <3>2, <3>3
  <2> QED
    BY <2>2, <2>3
<1>18. ASSUME NEW a \in Done', LastSettles(Done', a)
       PROVE  recorded' = TotalTold(pr, input', Told(a))
  <2>1. Settles(pr, Told(a)) /\ \A k \in Done' : k > a => Silent(pr, Told(k))
    BY <1>18 DEF LastSettles, pr
  <2>2. CASE a \in Done
    <3>1. \A j \in lines : Silent(pr, told(j)) /\ ~Opens(pr, told(j))
      BY <1>8, <1>10, <1>11, <1>14, <2>1, <2>2
    <3>2. c.est = 0 /\ c.total = NoTotal /\ input' = input
      BY <1>1, <1>7, <3>1
    <3>3. recorded' = recorded
      BY <1>1, <1>13, <3>2 DEF NewRecorded
    <3>4. LastSettles(Done, a)
      BY <1>10, <2>1 DEF LastSettles, pr
    <3> QED
      BY <1>3, <2>2, <3>2, <3>3, <3>4
  <2>3. CASE a \notin Done
    <3>1. PICK j \in lines : a = x + j
      BY <1>10, <2>3
    <3>2. Settles(pr, told(j)) /\ Told(a) = told(j)
      BY <1>11, <2>1, <3>1
    <3>3. \A k \in lines : k > j => Silent(pr, told(k))
      BY <1>9, <1>10, <1>11, <2>1, <3>1
    <3>4. c.total = TotalTold(pr, c.input, told(j))
      BY <1>7, <3>2, <3>3
    <3>5. TotalTold(pr, c.input, told(j)) # NoTotal
      <4>1. c.input \in Nat
        BY <1>2 DEF Costs
      <4> QED
        BY <1>4, <1>6, <3>2, <4>1, TotalIsTold
    <3>6. recorded' = c.total
      BY <1>1, <3>4, <3>5 DEF NewRecorded
    <3> QED
      BY <1>1, <3>2, <3>4, <3>6
  <2> QED
    BY <2>2, <2>3
<1>19. \A a \in Done' : /\ LastOpens(Done', a) => input' = Told(a).tokens
                        /\ LastSettles(Done', a) => recorded' = TotalTold(pr, input', Told(a))
  BY <1>17, <1>18
<1>20. upstream'.provider = pr
  BY <1>1 DEF pr
<1>21. \A a \in Done' : /\ LastOpens(Done, a)' = LastOpens(Done', a)
                        /\ LastSettles(Done, a)' = LastSettles(Done', a)
  BY <1>12, <1>20 DEF LastOpens, LastSettles, pr
<1>22. /\ toolsSeen' = UNION { ToldBy(i)' : i \in Done' }
       /\ \A a \in Done' : LastOpens(Done, a)' => input' = Told(a)'.tokens
       /\ \A a \in Done' : LastSettles(Done, a)' =>
             recorded' = TotalTold(upstream'.provider, input', Told(a)')
  BY <1>12, <1>16, <1>19, <1>20, <1>21
<1> QED
  BY <1>22 DEF SeenInv

\* Once the stream has ended, its bytes stay.
LEMMA WholeBefore == TypedInv /\ [Next]_vars /\ Whole' => Whole
<1> SUFFICES ASSUME TypedInv, [Next]_vars, Whole', phase = "flushed"
             PROVE  bytes = upstream.wire
  BY DEF Whole
<1>1. phase' = "flushed" /\ bytes' = bytes
  BY DEF Next, Read, Push, Awaiting, ReadError, End, Frame, Drain, Return, PolicyTrip, Charge,
         TakeEvent, Complete, Over, vars, frameVars
<1> QED
  BY <1>1, UpstreamKept DEF Whole

LEMMA StepSees == TypedInv /\ SeenInv /\ [Next]_vars => SeenInv'
<1> SUFFICES ASSUME TypedInv, SeenInv, [Next]_vars, Whole', outcome' \in {"open", "Completed"}
             PROVE  SeenInv'
  BY DEF SeenInv
<1>1. Whole
  BY WholeBefore
<1>2. CASE Charge
  <2>1. outcome' = "open"
    BY <1>2 DEF Charge, TakeEvent
  <2> QED
    BY <1>1, <1>2, <2>1, ChargeSees
<1>3. ~PolicyTrip
  BY DEF PolicyTrip
<1>4. CASE ~Charge
  <2>1. /\ UNCHANGED <<upstream, next, input, recorded, toolsSeen>>
        /\ ends'[next] = ends[next]
        /\ outcome \in {"open", "Completed"}
    BY <1>3, <1>4, AccountsKept
  <2>2. Done' = Done /\ \A i : Told(i)' = Told(i) /\ ToldBy(i)' = ToldBy(i)
    BY <2>1 DEF Done, Told, ToldBy
  <2>3. /\ toolsSeen = UNION { ToldBy(i) : i \in Done }
        /\ \A i \in Done : LastOpens(Done, i) => input = Told(i).tokens
        /\ \A i \in Done : LastSettles(Done, i) =>
              recorded = TotalTold(upstream.provider, input, Told(i))
    BY <1>1, <2>1 DEF SeenInv
  <2>4. \A i \in Done : /\ LastOpens(Done, i)' = LastOpens(Done, i)
                        /\ LastSettles(Done, i)' = LastSettles(Done, i)
    BY <2>1, <2>2 DEF LastOpens, LastSettles
  <2>5. /\ toolsSeen' = UNION { ToldBy(i)' : i \in Done' }
        /\ \A i \in Done' : LastOpens(Done, i)' => input' = Told(i)'.tokens
        /\ \A i \in Done' : LastSettles(Done, i)' =>
              recorded' = TotalTold(upstream'.provider, input', Told(i)')
    BY <2>1, <2>2, <2>3, <2>4
  <2> QED
    BY <2>5 DEF SeenInv
<1> QED
  BY <1>2, <1>4

\* All lines of a wire read to its end are done.
LEMMA AllDone ==
  ASSUME TypedInv, outcome = "Completed", bytes = upstream.wire
  PROVE  Whole /\ Done = LinesIn(upstream.wire)
<1>1. phase = "flushed" /\ next \in 1 .. Len(frames) + 1 /\ next > Len(frames)
  BY DEF TypedInv, TypeOK
<1>2. /\ Len(ends) = Len(frames) + 1 /\ Len(frames) \in Nat /\ Len(bytes) \in Nat
      /\ bytes \in Seq(Bytes) /\ DOMAIN bytes = 1 .. Len(bytes)
      /\ ends \in Seq(Nat)
  BY LenProperties DEF TypedInv, WireInv, FramesInv, FramesTyped
<1>3. ends[next] = LastEnd
  <2>1. next = Len(ends)
    BY <1>1, <1>2
  <2> QED
    BY <2>1 DEF LastEnd
<1>4. LastEnd >= Len(bytes)
  <2>1. Len(bytes) \in CutEnds
    BY <1>1 DEF TypedInv, WireInv, FramesInv, CutsAreEnds
  <2>2. \A e \in CutEnds : e <= LastEnd
    BY DEF TypedInv, WireInv, FramesInv, Contiguous, CutEnds
  <2>3. LastEnd \in Nat
    BY <1>2, ElementOfSeq DEF LastEnd
  <2> QED
    BY <1>2, <2>1, <2>2, <2>3
<1>5. \A i \in LinesIn(bytes) : i <= ends[next]
  <2>1. LastEnd \in Nat
    BY <1>2, ElementOfSeq DEF LastEnd
  <2>2. \A i \in LinesIn(bytes) : i \in 1 .. Len(bytes)
    BY <1>2 DEF LinesIn
  <2> QED
    BY <1>2, <1>3, <1>4, <2>1, <2>2
<1> QED
  BY <1>5 DEF Whole, Done

\* A response that is streamed to its end reports the tools and the tokens of
\* the same response sent as one body, however its lines end, its bytes arrive
\* and its provider spells it: the two paths of the gateway agree.
THEOREM StreamAgreesWithBody == Spec => []StreamedEqualsWhole
<1>1. Init => SeenInv
  <2> SUFFICES ASSUME Init PROVE SeenInv
    OBVIOUS
  <2>1. \A i \in LinesIn(upstream.wire) : i \in Nat /\ i >= 1
    BY InitTyped, WireTyped DEF LinesIn, TypedInv, WireInv
  <2>2. ends[next] = 0
    BY DEF Init, FramesInit
  <2>3. Done = {}
    BY <2>1, <2>2 DEF Done
  <2> QED
    BY <2>3 DEF Init, SeenInv
<1>2. TypedInv /\ SeenInv => StreamedEqualsWhole
  <2> DEFINE whole == NonStreamingCost(upstream.provider, upstream.body)
  <2> SUFFICES ASSUME TypedInv, SeenInv,
                      outcome = "Completed", bytes = upstream.wire, whole.total # NoTotal
               PROVE  recorded = whole.total /\ toolsSeen = ToolsOf(whole)
    BY DEF StreamedEqualsWhole
  <2>1. upstream \in Upstreams
    BY DEF TypedInv, WireInv
  <2> DEFINE lines == LinesIn(upstream.wire)
  <2>2. /\ ToolsOf(whole) = UNION { ToldBy(i) : i \in lines }
        /\ \E i \in lines :
              /\ LastSettles(lines, i)
              /\ IF upstream.provider = "OpenAi" THEN whole.total = Told(i).usage
                 ELSE \E j \in lines : /\ LastOpens(lines, j)
                                       /\ whole.total = Told(j).tokens + Told(i).tokens
    BY <2>1, SameResponse DEF ToldBy, Told, LastSettles, LastOpens
  <2> HIDE DEF whole
  <2>3. /\ toolsSeen = UNION { ToldBy(i) : i \in lines }
        /\ \A i \in lines : LastOpens(lines, i) => input = Told(i).tokens
        /\ \A i \in lines : LastSettles(lines, i) =>
              recorded = TotalTold(upstream.provider, input, Told(i))
    BY AllDone DEF SeenInv
  <2> HIDE DEF lines
  <2>4. toolsSeen = ToolsOf(whole)
    BY <2>2, <2>3
  <2>5. recorded = whole.total
    BY <2>2, <2>3 DEF TotalTold
  <2> QED
    BY <2>4, <2>5
<1>3. Init => TypedInv /\ SeenInv
  BY <1>1, InitTyped
<1>4. TypedInv /\ SeenInv /\ [Next]_vars => (TypedInv /\ SeenInv)'
  BY StepTyped, StepSees
<1> QED
  BY <1>2, <1>3, <1>4, PTL DEF Spec
=============================================================================
