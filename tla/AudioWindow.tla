----------------------------- MODULE AudioWindow -----------------------------
(***************************************************************************)
(* The audio a session identifies from (fpm/identify.py _append, _slice;   *)
(* fpm/identify_spans.py; fpm/embed/onnx_embedder.py extract): a stream of *)
(* blocks, of which a trailing window is kept, or the whole recording for  *)
(* a diarizer that emits its segments at the end; the span of a segment is *)
(* cut out of it and embedded window by window.                            *)
(*                                                                         *)
(* A sample is its number in the stream, so that a wrong offset shows as   *)
(* the wrong samples.                                                      *)
(***************************************************************************)
EXTENDS Integers, Sequences

CONSTANTS MaxBuf,   \* BUFFER_SEC in samples
          MaxBlock, \* the longest block fed
          Latency,  \* how long after its end a streaming diarizer emits a segment
          MaxTotal, \* bound on the samples fed
          NoAudio    \* the None of _slice

ASSUME WindowAssumption == /\ {MaxBuf, MaxBlock} \subseteq Nat \ {0}
                           /\ {Latency, MaxTotal} \subseteq Nat

VARIABLES batch,     \* the diarizer is buffered_batch: nothing is dropped
          buf,       \* _buf
          buf_start, \* the number of buf's first sample
          total,     \* samples fed so far
          finished,
          cut        \* the last segment and the audio cut out for it

vars == <<batch, buf, buf_start, total, finished, cut>>

Minimum(a, b) == IF a <= b THEN a ELSE b
Maximum(a, b) == IF a >= b THEN a ELSE b

\* The samples from..to-1 of the stream.
Samples(from, to) == [k \in 1 .. to - from |-> from + k - 1]
Block(n) == Samples(total, total + n)
Drop(s, d) == [k \in 1 .. Len(s) - d |-> s[k + d]]

\* Mutant: everything from before the block is dropped.
Excess_All(n) == IF ~batch /\ Len(buf) + n > MaxBuf THEN Len(buf) ELSE 0

\* What _append drops of the front once n samples are added.
Excess(n) == IF ~batch /\ Len(buf) + n > MaxBuf THEN Len(buf) + n - MaxBuf ELSE 0

\* _append.
AppendBlock(n) ==
  /\ buf' = Drop(buf \o Block(n), Excess(n))
  /\ buf_start' = buf_start + Excess(n)

\* Mutant: a clamped start keeps the segment's length.
Slice_KeepsLength(b, start, s, e) ==
  LET from == Maximum(0, s - start)
      to == Minimum(Len(b), from + e - s)
  IN  IF to <= from THEN NoAudio ELSE [k \in 1 .. to - from |-> b[from + k]]

\* _slice: the part of [s, e) that is still there, or NoAudio (Python's None).
Slice(b, start, s, e) ==
  LET from == Maximum(0, s - start)
      to == Minimum(Len(b), e - start)
  IN  IF to <= from THEN NoAudio ELSE [k \in 1 .. to - from |-> b[from + k]]

\* A segment of the diarizer, cut out of the buffer as it is now.
Cut(s, e) == [start |-> s, end |-> e, audio |-> Slice(buf', buf_start', s, e)]

\* feed: the block, then the segments the diarizer finalizes with it.  A
\* streaming diarizer emits a segment at most Latency after its end, and at the
\* latest with the block that brings the stream there.
Feed(n) ==
  /\ ~finished /\ total + n <= MaxTotal
  /\ AppendBlock(n)
  /\ total' = total + n
  /\ \/ UNCHANGED cut
     \/ /\ ~batch
        /\ \E e \in 1 .. total + n : \E s \in 0 .. e - 1 :
             e > total - Latency /\ cut' = Cut(s, e)
  /\ UNCHANGED <<batch, finished>>

\* finish: a streaming diarizer flushes what is open, a batch one emits all.  A
\* caller's span may end after the recording does.
Finish ==
  /\ ~finished
  /\ finished' = TRUE
  /\ UNCHANGED <<batch, buf, buf_start, total, cut>>

Flush ==
  /\ finished
  /\ UNCHANGED <<batch, buf, buf_start, total, finished>>
  /\ \E e \in 1 .. total + 1 : \E s \in 0 .. e - 1 :
       (batch \/ e \in total - Latency + 1 .. total) /\ cut' = Cut(s, e)

Init ==
  /\ batch \in BOOLEAN
  /\ buf = <<>> /\ buf_start = 0 /\ total = 0 /\ finished = FALSE
  /\ cut = [start |-> 0, end |-> 0, audio |-> NoAudio]

Next == (\E n \in 1 .. MaxBlock : Feed(n)) \/ Finish \/ Flush

Spec == Init /\ [][Next]_vars

----------------------------------------------------------------------------
(* onnx_embedder.extract: where its windows start.                         *)

\* Mutant: the last window is left out when the hops do not hit it.
Starts_NoTail(len, win, hop) ==
  IF len <= win THEN {0} ELSE {s \in 0 .. len - win : s % hop = 0}

Starts(len, win, hop) ==
  IF len <= win THEN {0} ELSE {s \in 0 .. len - win : s % hop = 0} \cup {len - win}

----------------------------------------------------------------------------
(* Properties.                                                             *)

\* The buffer is the end of the stream, from buf_start on, and a bounded one
\* never exceeds MaxBuf.
BufferAligned ==
  /\ buf_start \in 0 .. total
  /\ buf = Samples(buf_start, total)
  /\ ~batch => Len(buf) <= MaxBuf

\* Whatever is cut out for a segment is audio of that segment, in order and
\* without a gap, up to the segment's end or the stream's: speech of another speaker is never
\* embedded under this one's label.
CutIsSegments ==
  cut.audio # NoAudio =>
    \E from \in cut.start .. cut.end - 1 :
      cut.audio = Samples(from, Minimum(cut.end, total))

\* All there is of a segment in the stream.
Whole(c) == IF c.start >= total THEN NoAudio
            ELSE Samples(c.start, Minimum(c.end, total))

\* A segment that, with the latency and a block, fits the window is cut out
\* whole, and one of a batch diarizer always: dropping the front of the stream
\* loses nothing that is still to be identified.
NothingIsLost ==
  (/\ cut.end > 0
   /\ batch \/ cut.end - cut.start + Latency + MaxBlock <= MaxBuf) =>
    cut.audio = Whole(cut)

\* Every sample of the audio is in a window, however its length, the window
\* and the hop divide, as long as the hop is not longer than the window.
WindowsCover ==
  cut.audio # NoAudio =>
    \A win \in 1 .. MaxBuf : \A hop \in 1 .. win :
      \A k \in 0 .. Len(cut.audio) - 1 :
        \E s \in Starts(Len(cut.audio), win, hop) : s <= k /\ k < s + win
=============================================================================
