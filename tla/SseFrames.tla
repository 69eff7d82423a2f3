------------------------------ MODULE SseFrames ------------------------------
(***************************************************************************)
(* SseFrameBuffer (src/enforcer.rs): raw reads go in, complete SSE events    *)
(* come out.  push appends a read to the buffer and cuts events off its      *)
(* front for as long as it finds a blank line; flush gives what is left when *)
(* the upstream has ended.                                                   *)
(***************************************************************************)
EXTENDS Wire

VARIABLES buf,       \* the bytes not framed yet
          frames,    \* the events cut so far, in order
          phase,     \* "idle", "framing" (in push's loop) or "flushed"
          bytes,     \* history: all bytes pushed
          ends       \* history: 0, and where in bytes each event ended

frameVars == <<buf, frames, phase, bytes, ends>>

FramesInit == /\ buf = <<>>
              /\ frames = <<>>
              /\ phase = "idle"
              /\ bytes = <<>>
              /\ ends = <<0>>

\* push appends the chunk ...
Push(chunk) == /\ phase = "idle"
               /\ phase' = "framing"
               /\ buf' = buf \o chunk
               /\ bytes' = bytes \o chunk
               /\ UNCHANGED <<frames, ends>>

IsBoundary(b, i) == i \in 2 .. Len(b) /\ b[i - 1] = LF /\ b[i] = LF

\* Mutant: any blank line of the buffer is taken, not the first.
FindAnyBoundary(b, i) == IsBoundary(b, i)

\* find_event_boundary gives Some(i).
FindEventBoundary(b, i) == IsBoundary(b, i) /\ \A j \in 2 .. i - 1 : ~IsBoundary(b, j)

\* The first i bytes leave the buffer as an event.
Cut(i) == /\ frames' = Append(frames, SubSeq(buf, 1, i))
          /\ buf' = SubSeq(buf, i + 1, Len(buf))
          /\ ends' = Append(ends, ends[Len(ends)] + i)
          /\ UNCHANGED bytes

\* ... drains one event per iteration of its loop ...
Drain == /\ phase = "framing"
         /\ \E i \in 2 .. Len(buf) : FindEventBoundary(buf, i) /\ Cut(i)
         /\ UNCHANGED phase

\* ... and returns when there is no blank line left.
Return == /\ phase = "framing"
          /\ \A i \in 2 .. Len(buf) : ~IsBoundary(buf, i)
          /\ phase' = "idle"
          /\ UNCHANGED <<buf, frames, bytes, ends>>

\* Mutant: the rest is copied, and stays in the buffer.
FlushCopying == /\ phase = "idle"
                /\ phase' = "flushed"
                /\ frames' = Append(frames, buf)
                /\ ends' = Append(ends, Len(bytes))
                /\ UNCHANGED <<buf, bytes>>

\* flush gives the rest as an event, if there is any.
Flush == /\ phase = "idle"
         /\ phase' = "flushed"
         /\ \/ buf # <<>> /\ Cut(Len(buf))
            \/ buf = <<>> /\ UNCHANGED <<buf, frames, bytes, ends>>

FramesNext == Drain \/ Return \/ Flush \/ \E chunk \in Seq(Bytes) : Push(chunk)

FramesSpec == FramesInit /\ [][FramesNext]_frameVars

-----------------------------------------------------------------------------
(* What the events of a byte sequence are, whoever cuts it.                  *)

\* A line feed counts as the end of a blank line if, in its run of line feeds,
\* it is the second, the fourth, ...
ClosesBlankLine(b, i) ==
    \E k \in 1 .. i : /\ 2 * k <= i
                      /\ \A j \in (i - 2 * k + 1) .. i : b[j] = LF
                      /\ i = 2 * k \/ b[i - 2 * k] # LF

FrameEnds(b) == { i \in 1 .. Len(b) : ClosesBlankLine(b, i) }

\* The comment at enforcer.rs:28-30: every adapter call receives one complete
\* event, however the bytes arrived on the wire.  The events cut are those of
\* the bytes received, end where the bytes alone say, and lose no byte between
\* them: how the bytes were split into reads leaves no trace.
FramesDetermined ==
    /\ phase # "framing" =>
          { ends[k] : k \in DOMAIN ends }
             = {0} \cup FrameEnds(bytes) \cup (IF phase = "flushed" THEN {Len(bytes)} ELSE {})
    /\ Len(ends) = Len(frames) + 1
    /\ \A k \in DOMAIN frames : /\ ends[k] < ends[k + 1]
                                /\ frames[k] = SubSeq(bytes, ends[k] + 1, ends[k + 1])
    /\ buf = SubSeq(bytes, ends[Len(ends)] + 1, Len(bytes))
=============================================================================
