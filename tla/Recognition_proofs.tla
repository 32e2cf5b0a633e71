--------------------------- MODULE Recognition_proofs ---------------------------
(***************************************************************************)
(* Theorems of the parts of recognition that work on what they are handed: *)
(* the audio a speaker is embedded from (AudioWindow), the choice among    *)
(* the centroids (Match), and the exemplars a centroid is computed from    *)
(* (Exemplars), each for any values of its module's constants.             *)
(***************************************************************************)
EXTENDS AudioWindow, Match, Exemplars, SequenceTheorems, WellFoundedInduction, TLAPS

(***************************************************************************)
(* AudioWindow, for a window, blocks and a latency of any length and a     *)
(* stream of any length.                                                   *)
(*                                                                         *)
(* That the buffer is the end of the stream is inductive once the          *)
(* diarizer's kind is known to be a Boolean.  The other two follow from it *)
(* at the moment of the cut, and outlive it because a later step leaves    *)
(* cut alone; only total grows under CutIsSegments, so the inductive form  *)
(* says that the cut ended inside the stream of its moment, or that the    *)
(* stream had ended.                                                       *)
(***************************************************************************)

\* A run of samples is a sequence, of its length.
LEMMA SamplesSeq ==
  ASSUME NEW a \in Int, NEW b \in Int, a <= b
  PROVE  /\ Samples(a, b) \in Seq(Int)
         /\ Len(Samples(a, b)) = b - a
         /\ \A k \in 1 .. b - a : Samples(a, b)[k] = a + k - 1
<1>1. b - a \in Nat
  OBVIOUS
<1>2. Samples(a, b) \in [1 .. b - a -> Int]
  BY DEF Samples
<1>3. Samples(a, b) \in Seq(Int)
  BY <1>1, <1>2
<1>4. Len(Samples(a, b)) = b - a
  BY <1>1, <1>3, <1>2, LenProperties
<1> QED BY <1>3, <1>4 DEF Samples

\* A block that continues a run makes a longer run.
LEMMA SamplesConcat ==
  ASSUME NEW a \in Int, NEW b \in Int, NEW c \in Int, a <= b, b <= c
  PROVE  Samples(a, b) \o Samples(b, c) = Samples(a, c)
<1> DEFINE s == Samples(a, b)
           t == Samples(b, c)
           u == Samples(a, c)
<1>a. s \in Seq(Int) /\ Len(s) = b - a /\ \A k \in 1 .. b - a : s[k] = a + k - 1
  BY SamplesSeq
<1>b. t \in Seq(Int) /\ Len(t) = c - b /\ \A k \in 1 .. c - b : t[k] = b + k - 1
  BY SamplesSeq
<1>c. u \in Seq(Int) /\ Len(u) = c - a /\ \A k \in 1 .. c - a : u[k] = a + k - 1
  <2>1. a <= c
    OBVIOUS
  <2> QED BY <2>1, SamplesSeq
<1> HIDE DEF s, t, u
<1>2. /\ s \o t \in Seq(Int)
      /\ Len(s \o t) = Len(s) + Len(t)
      /\ \A i \in 1 .. Len(s) + Len(t) :
           (s \o t)[i] = IF i <= Len(s) THEN s[i] ELSE t[i - Len(s)]
  BY <1>a, <1>b, ConcatProperties
<1>3. ASSUME NEW i \in 1 .. Len(s \o t)
      PROVE  (s \o t)[i] = u[i]
  <2>1. i \in 1 .. Len(s) + Len(t) /\ i \in 1 .. c - a
    BY <1>a, <1>b, <1>2, <1>3
  <2>2. u[i] = a + i - 1
    BY <2>1, <1>c
  <2>3. (s \o t)[i] = IF i <= Len(s) THEN s[i] ELSE t[i - Len(s)]
    BY <2>1, <1>2
  <2>4. CASE i <= Len(s)
    BY <2>1, <2>2, <2>3, <2>4, <1>a
  <2>5. CASE ~(i <= Len(s))
    <3>1. i - (b - a) \in 1 .. c - b
      BY <2>1, <2>5, <1>a
    <3>2. t[i - (b - a)] = b + (i - (b - a)) - 1
      BY <3>1, <1>b
    <3> QED BY <3>2, <2>1, <2>2, <2>3, <2>5, <1>a
  <2> QED BY <2>4, <2>5
<1>4. s \o t = u
  <2>1. Len(s \o t) = Len(u)
    BY <1>a, <1>b, <1>c, <1>2
  <2> QED BY <2>1, <1>2, <1>3, <1>c, SeqEqual
<1> QED BY <1>4 DEF s, t, u

\* A run without its front is the run from further on.
LEMMA SamplesDrop ==
  ASSUME NEW a \in Int, NEW b \in Int, NEW d \in Nat, d <= b - a
  PROVE  Drop(Samples(a, b), d) = Samples(a + d, b)
<1>1. Len(Samples(a, b)) = b - a
  BY SamplesSeq
<1>2. \A k \in 1 .. b - a - d : k + d \in 1 .. b - a
  OBVIOUS
<1>3. Drop(Samples(a, b), d) = [k \in 1 .. b - a - d |-> Samples(a, b)[k + d]]
  BY <1>1 DEF Drop
<1>4. \A k \in 1 .. b - a - d : Samples(a, b)[k + d] = a + d + k - 1
  BY <1>2, SamplesSeq
<1>5. b - (a + d) = b - a - d
  OBVIOUS
<1> QED BY <1>3, <1>4, <1>5 DEF Samples

----------------------------------------------------------------------------
(* The invariant.                                                          *)

\* Where the buffer begins: it holds as much of the stream as it may.
BufStart == IF batch THEN 0 ELSE Maximum(0, total - MaxBuf)

WindowInv ==
  /\ batch \in BOOLEAN /\ finished \in BOOLEAN /\ total \in Nat
  /\ buf_start = BufStart
  /\ buf = Samples(buf_start, total)
  /\ cut.start \in Nat /\ cut.end \in Nat
  /\ cut.end > 0 => cut.start < cut.end
  /\ ~finished => cut.end <= total
  /\ CutIsSegments
  /\ NothingIsLost

LEMMA ConstantTypes ==
  MaxBuf \in Nat /\ MaxBuf > 0 /\ MaxBlock \in Nat /\ Latency \in Nat
BY WindowAssumption

LEMMA InvImplies == WindowInv => BufferAligned
<1> SUFFICES ASSUME WindowInv PROVE BufferAligned
  OBVIOUS
<1>1. buf_start \in 0 .. total
  BY ConstantTypes DEF WindowInv, BufStart, Maximum
<1>2. Len(buf) = total - buf_start
  <2>1. buf = Samples(buf_start, total) /\ total \in Int /\ buf_start \in Int
        /\ buf_start <= total
    BY <1>1 DEF WindowInv
  <2>2. Len(Samples(buf_start, total)) = total - buf_start
    BY <2>1, SamplesSeq
  <2> QED BY <2>1, <2>2
<1>3. ~batch => Len(buf) <= MaxBuf
  BY <1>2, ConstantTypes DEF WindowInv, BufStart, Maximum
<1> QED BY <1>1, <1>3 DEF WindowInv, BufferAligned

LEMMA InitInv == Init => WindowInv
<1> SUFFICES ASSUME Init PROVE WindowInv
  OBVIOUS
<1>1. BufStart = 0
  BY ConstantTypes DEF Init, BufStart, Maximum
<1>2. Samples(0, 0) = <<>>
  <2>1. Len(Samples(0, 0)) = 0 /\ Samples(0, 0) \in Seq(Int)
    BY SamplesSeq
  <2> QED BY <2>1, EmptySeq
<1>3. CutIsSegments /\ NothingIsLost
  BY DEF Init, CutIsSegments, NothingIsLost
<1>4. buf = Samples(buf_start, total)
  BY <1>2 DEF Init
<1>5. cut.start = 0 /\ cut.end = 0
  BY DEF Init
<1>6. batch \in BOOLEAN /\ finished \in BOOLEAN /\ total \in Nat /\ buf_start = BufStart
  BY <1>1 DEF Init
<1>7. cut.end <= total
  BY <1>5 DEF Init
<1> QED BY <1>3, <1>4, <1>5, <1>6, <1>7 DEF WindowInv

\* A block keeps the buffer the end of the stream and as long as it may be.
LEMMA AppendStep ==
  ASSUME WindowInv, NEW n \in 1 .. MaxBlock, AppendBlock(n),
         total' = total + n, batch' = batch
  PROVE  /\ buf_start' = BufStart' /\ buf_start' \in 0 .. total'
         /\ buf' = Samples(buf_start', total')
<1> DEFINE d == Excess(n)
<1>0. n \in Nat /\ n > 0 /\ total \in Nat /\ batch \in BOOLEAN
  BY ConstantTypes DEF WindowInv
<1>1. buf_start \in 0 .. total /\ buf = Samples(buf_start, total)
  BY InvImplies DEF BufferAligned
<1>2. Len(buf) = total - buf_start
  <2>1. total \in Int /\ buf_start \in Int /\ buf_start <= total
    BY <1>0, <1>1
  <2>2. Len(Samples(buf_start, total)) = total - buf_start
    BY <2>1, SamplesSeq
  <2> QED BY <1>1, <2>2
<1>3. d \in Nat /\ d <= total + n - buf_start
  BY <1>0, <1>1, <1>2, ConstantTypes DEF Excess
<1>4. buf_start + d = IF batch THEN 0 ELSE Maximum(0, total + n - MaxBuf)
  <2>1. buf_start = IF batch THEN 0 ELSE Maximum(0, total - MaxBuf)
    BY DEF WindowInv, BufStart
  <2> QED BY <2>1, <1>0, <1>2, ConstantTypes DEF Excess, Maximum
<1>5. buf \o Block(n) = Samples(buf_start, total + n)
  <2>1. /\ total \in Int /\ buf_start \in Int /\ total + n \in Int
        /\ buf_start <= total /\ total <= total + n
    BY <1>0, <1>1
  <2>2. Samples(buf_start, total) \o Samples(total, total + n)
          = Samples(buf_start, total + n)
    BY <2>1, SamplesConcat
  <2> QED BY <1>1, <2>2 DEF Block
<1>6. Drop(buf \o Block(n), d) = Samples(buf_start + d, total + n)
  BY <1>0, <1>1, <1>3, <1>5, SamplesDrop
<1>7. buf' = Samples(buf_start', total') /\ buf_start' = buf_start + d
  BY <1>6 DEF AppendBlock
<1>8. buf_start' = BufStart'
  <2>1. BufStart' = IF batch' THEN 0 ELSE Maximum(0, total' - MaxBuf)
    BY DEF BufStart, Maximum
  <2>2. batch' <=> batch
    OBVIOUS
  <2>3. total' - MaxBuf = total + n - MaxBuf
    BY <1>0, ConstantTypes
  <2> QED BY <2>1, <2>2, <2>3, <1>4, <1>7
<1> QED BY <1>0, <1>1, <1>3, <1>7, <1>8

\* What is cut out of the end of a stream of t samples that begins at b is the
\* segment's own samples, from where the buffer begins.
LEMMA CutSound ==
  ASSUME NEW t \in Int, NEW b \in Int, b <= t, NEW e \in Int, NEW s \in Int, s < e
  PROVE  LET a == Slice(Samples(b, t), b, s, e)
         IN  /\ a # NoAudio => \E from \in s .. e - 1 : a = Samples(from, Minimum(e, t))
             /\ b <= s => a = IF s >= t THEN NoAudio ELSE Samples(s, Minimum(e, t))
<1> DEFINE w == Samples(b, t)
           a == Slice(w, b, s, e)
           from == Maximum(s, b)
           to == Minimum(e, t)
<1>1. (to <= from => a = NoAudio) /\ (~(to <= from) => a = Samples(from, to))
  <2> DEFINE f == Maximum(0, s - b)
             l == Minimum(t - b, e - b)
  <2>1. Len(w) = t - b /\ \A k \in 1 .. t - b : w[k] = b + k - 1
    BY SamplesSeq
  <2>2. /\ f = from - b /\ l = to - b
        /\ f \in Int /\ l \in Int /\ from \in Int /\ to \in Int
        /\ f >= 0 /\ l <= t - b
    BY DEF Maximum, Minimum
  <2>3. a = IF l <= f THEN NoAudio ELSE [k \in 1 .. l - f |-> w[f + k]]
    BY <2>1 DEF Slice
  <2> HIDE DEF a, f, l, from, to, w
  <2>4. CASE to <= from
    BY <2>2, <2>3, <2>4
  <2>5. CASE ~(to <= from)
    <3>1. \A k \in 1 .. l - f : f + k \in 1 .. t - b /\ w[f + k] = from + k - 1
      BY <2>1, <2>2
    <3>2. l - f = to - from /\ ~(l <= f)
      BY <2>2, <2>5
    <3>3. [k \in 1 .. l - f |-> w[f + k]] = Samples(from, to)
      BY <3>1, <3>2 DEF Samples
    <3> QED BY <3>2, <3>3, <2>3, <2>5
  <2> QED BY <2>4, <2>5
<1>2. from \in Int /\ to \in Int /\ s <= from /\ to <= e
  BY DEF Maximum, Minimum
<1>3. a # NoAudio => from \in s .. e - 1
  BY <1>1, <1>2
<1>4. b <= s => from = s /\ (to <= from <=> s >= t)
  BY DEF Maximum, Minimum
<1> QED BY <1>1, <1>3, <1>4

\* A cut into the buffer of the next state keeps the two properties of cuts, if
\* a segment short enough begins no earlier than the buffer.
LEMMA CutStep ==
  ASSUME batch' \in BOOLEAN, total' \in Nat, buf_start' \in 0 .. total',
         buf' = Samples(buf_start', total'),
         NEW e \in Nat, NEW s \in 0 .. e - 1, cut' = Cut(s, e),
         batch' \/ e - s + Latency + MaxBlock <= MaxBuf => buf_start' <= s
  PROVE  /\ cut'.start = s /\ cut'.end = e
         /\ CutIsSegments' /\ NothingIsLost'
<1>1. /\ cut'.start = s /\ cut'.end = e
      /\ cut'.audio = Slice(Samples(buf_start', total'), buf_start', s, e)
  BY DEF Cut
<1>2. PICK t \in Int, b \in Int : t = total' /\ b = buf_start' /\ b <= t
  OBVIOUS
<1> DEFINE a == Slice(Samples(b, t), b, s, e)
<1>3. e \in Int /\ s \in Int /\ s < e
  OBVIOUS
<1>4. /\ a # NoAudio => \E from \in s .. e - 1 : a = Samples(from, Minimum(e, t))
      /\ b <= s => a = IF s >= t THEN NoAudio ELSE Samples(s, Minimum(e, t))
  BY <1>2, <1>3, CutSound
<1>5. cut'.audio = a
  BY <1>2, <1>1
<1> HIDE DEF a
<1>6. /\ cut'.audio # NoAudio =>
           \E from \in s .. e - 1 : cut'.audio = Samples(from, Minimum(e, total'))
      /\ buf_start' <= s =>
           cut'.audio = IF s >= total' THEN NoAudio ELSE Samples(s, Minimum(e, total'))
  BY <1>2, <1>4, <1>5
<1>7. CutIsSegments'
  BY <1>1, <1>6 DEF CutIsSegments
<1>8. NothingIsLost'
  BY <1>1, <1>6 DEF NothingIsLost, Whole
<1> QED BY <1>1, <1>7, <1>8

LEMMA FeedStep ==
  ASSUME WindowInv, NEW n \in 1 .. MaxBlock, Feed(n)
  PROVE  WindowInv'
<1>0. /\ n \in Nat /\ total \in Nat /\ total' = total + n /\ total' \in Nat
      /\ batch' = batch /\ finished' = finished
      /\ batch \in BOOLEAN /\ finished \in BOOLEAN
      /\ batch' \in BOOLEAN /\ finished' \in BOOLEAN
  BY ConstantTypes DEF WindowInv, Feed
<1>1. /\ buf_start' = BufStart' /\ buf_start' \in 0 .. total'
      /\ buf' = Samples(buf_start', total')
  BY <1>0, AppendStep DEF Feed
<1>2. CASE cut' = cut
  <2>1. /\ cut.start \in Nat /\ cut.end \in Nat /\ cut.end <= total
        /\ cut.end > 0 => cut.start < cut.end
    BY DEF WindowInv, Feed
  <2>2. cut.end <= total'
    BY <1>0, <2>1
  <2>3. Minimum(cut.end, total') = Minimum(cut.end, total)
    BY <1>0, <2>1 DEF Minimum
  <2>4. CutIsSegments'
    BY <1>2, <2>3 DEF WindowInv, CutIsSegments
  <2>5. cut.end > 0 => ~(cut.start >= total) /\ ~(cut.start >= total')
    BY <1>0, <2>1, <2>2
  <2>6. NothingIsLost'
    BY <1>0, <1>2, <2>3, <2>5 DEF WindowInv, NothingIsLost, Whole
  <2> QED
    BY <1>0, <1>1, <1>2, <2>1, <2>2, <2>4, <2>6 DEF WindowInv
<1>3. ASSUME ~batch, NEW e \in 1 .. total + n, NEW s \in 0 .. e - 1,
             e > total - Latency, cut' = Cut(s, e)
      PROVE  WindowInv'
  <2>1. e \in Nat /\ e <= total' /\ s < e /\ s \in Nat
    BY <1>0, <1>3
  <2>2. e - s + Latency + MaxBlock <= MaxBuf => buf_start' <= s
    BY <1>0, <1>1, <1>3, ConstantTypes DEF BufStart, Maximum
  <2>3. cut'.start = s /\ cut'.end = e /\ CutIsSegments' /\ NothingIsLost'
    BY <1>0, <1>1, <1>3, <2>1, <2>2, CutStep
  <2> QED BY <1>0, <1>1, <2>1, <2>3 DEF WindowInv
<1> QED BY <1>2, <1>3 DEF Feed

LEMMA FlushStep ==
  ASSUME WindowInv, Flush
  PROVE  WindowInv'
<1>0. /\ batch \in BOOLEAN /\ finished = TRUE /\ total \in Nat
      /\ UNCHANGED <<batch, buf, buf_start, total, finished>>
  BY DEF WindowInv, Flush
<1>1. buf_start = BufStart /\ buf_start \in 0 .. total /\ buf = Samples(buf_start, total)
  BY InvImplies DEF WindowInv, BufferAligned
<1>2. PICK e \in 1 .. total + 1 : \E s \in 0 .. e - 1 :
        (batch \/ e \in total - Latency + 1 .. total) /\ cut' = Cut(s, e)
  BY DEF Flush
<1>3. PICK s \in 0 .. e - 1 :
        (batch \/ e \in total - Latency + 1 .. total) /\ cut' = Cut(s, e)
  BY <1>2
<1>4. e \in Nat /\ s \in Nat /\ s < e
  BY <1>0
<1>5. batch \/ e - s + Latency + MaxBlock <= MaxBuf => buf_start <= s
  BY <1>0, <1>1, <1>3, <1>4, ConstantTypes DEF BufStart, Maximum
<1>6. cut'.start = s /\ cut'.end = e /\ CutIsSegments' /\ NothingIsLost'
  BY <1>0, <1>1, <1>3, <1>4, <1>5, CutStep
<1>7. BufStart' = BufStart
  BY <1>0 DEF BufStart
<1> QED BY <1>0, <1>1, <1>4, <1>6, <1>7 DEF WindowInv

LEMMA NextInv == WindowInv /\ [Next]_vars => WindowInv'
<1> SUFFICES ASSUME WindowInv, [Next]_vars PROVE WindowInv'
  OBVIOUS
<1>1. ASSUME NEW n \in 1 .. MaxBlock, Feed(n) PROVE WindowInv'
  BY <1>1, FeedStep
<1>2. CASE Finish
  BY <1>2 DEF Finish, WindowInv, BufStart, CutIsSegments, NothingIsLost, Whole
<1>3. CASE Flush
  BY <1>3, FlushStep
<1>4. CASE UNCHANGED vars
  BY <1>4 DEF vars, WindowInv, BufStart, CutIsSegments, NothingIsLost, Whole
<1> QED BY <1>1, <1>2, <1>3, <1>4 DEF Next

----------------------------------------------------------------------------
\* The buffer identify.py cuts its audio from is always the end of the stream.
THEOREM BufferAlignedAlways == Spec => []BufferAligned
<1>1. Init => WindowInv
  BY InitInv
<1>2. WindowInv /\ [Next]_vars => WindowInv'
  BY NextInv
<1>3. WindowInv => BufferAligned
  BY InvImplies
<1> QED BY <1>1, <1>2, <1>3, PTL DEF Spec

\* No segment is ever embedded from audio outside it.
THEOREM CutIsSegmentsAlways == Spec => []CutIsSegments
<1>1. Init => WindowInv
  BY InitInv
<1>2. WindowInv /\ [Next]_vars => WindowInv'
  BY NextInv
<1>3. WindowInv => CutIsSegments
  BY DEF WindowInv
<1> QED BY <1>1, <1>2, <1>3, PTL DEF Spec

\* Trimming the buffer never costs a segment the window can hold.
THEOREM NothingIsLostAlways == Spec => []NothingIsLost
<1>1. Init => WindowInv
  BY InitInv
<1>2. WindowInv /\ [Next]_vars => WindowInv'
  BY NextInv
<1>3. WindowInv => NothingIsLost
  BY DEF WindowInv
<1> QED BY <1>1, <1>2, <1>3, PTL DEF Spec

----------------------------------------------------------------------------
(* The embedder's windows.                                                 *)

\* Below any sample there is a multiple of the hop less than a hop away.
LEMMA HopBelow ==
  ASSUME NEW k \in Nat, NEW hop \in Nat, hop > 0
  PROVE  \E s \in 0 .. k : s % hop = 0 /\ k - s < hop
<1> DEFINE q == k \div hop
           r == k % hop
<1>1. q \in Nat /\ r \in 0 .. hop - 1 /\ k = hop * q + r
  OBVIOUS
<1> HIDE DEF q, r
<1>2. hop * q \in 0 .. k /\ k - hop * q < hop
  BY <1>1
<1>3. (hop * q) % hop = 0
  BY <1>1
<1> QED BY <1>2, <1>3

LEMMA Covered ==
  ASSUME NEW len \in Nat, NEW win \in Nat, win > 0, NEW hop \in 1 .. win,
         NEW k \in 0 .. len - 1
  PROVE  \E s \in Starts(len, win, hop) : s <= k /\ k < s + win
<1>1. CASE len <= win
  <2>1. 0 \in Starts(len, win, hop)
    BY <1>1 DEF Starts
  <2> QED BY <1>1, <2>1
<1>2. CASE len > win /\ k >= len - win
  <2>1. len - win \in Starts(len, win, hop)
    BY <1>2 DEF Starts
  <2> QED BY <1>2, <2>1
<1>3. CASE len > win /\ k < len - win
  <2>0. k \in Nat /\ hop \in Nat /\ hop > 0
    OBVIOUS
  <2>1. PICK s \in 0 .. k : s % hop = 0 /\ k - s < hop
    BY <2>0, HopBelow
  <2>2. s \in 0 .. len - win
    BY <1>3
  <2>3. s \in Starts(len, win, hop)
    BY <1>3, <2>1, <2>2 DEF Starts
  <2> QED BY <2>1, <2>3
<1> QED BY <1>1, <1>2, <1>3

LEMMA CutLength ==
  ASSUME CutIsSegments, WindowInv, cut.audio # NoAudio
  PROVE  Len(cut.audio) \in Nat
<1>1. PICK from \in cut.start .. cut.end - 1 :
          cut.audio = Samples(from, Minimum(cut.end, total))
  BY DEF CutIsSegments
<1> DEFINE to == Minimum(cut.end, total)
<1>2. from \in Int /\ to \in Int
  BY DEF WindowInv, Minimum
<1> HIDE DEF to
<1>3. CASE from <= to
  <2>1. Len(Samples(from, to)) = to - from
    BY <1>2, <1>3, SamplesSeq
  <2> QED BY <1>1, <1>2, <1>3, <2>1 DEF to
<1>4. CASE ~(from <= to)
  <2>1. 1 .. to - from = {}
    BY <1>2, <1>4
  <2>2. Samples(from, to) = <<>>
    BY <2>1 DEF Samples
  <2> QED BY <1>1, <2>2 DEF to
<1> QED BY <1>3, <1>4

\* Every sample that is cut out is in a window of the embedder (extract, the
\* list of starts and its last entry), for audio, windows and hops of any
\* length as long as the hop is not longer than the window.
THEOREM WindowsCoverAlways == Spec => []WindowsCover
<1>1. Init => WindowInv
  BY InitInv
<1>2. WindowInv /\ [Next]_vars => WindowInv'
  BY NextInv
<1>3. WindowInv => WindowsCover
  <2> SUFFICES ASSUME WindowInv, cut.audio # NoAudio,
                      NEW win \in 1 .. MaxBuf, NEW hop \in 1 .. win,
                      NEW k \in 0 .. Len(cut.audio) - 1
               PROVE  \E s \in Starts(Len(cut.audio), win, hop) : s <= k /\ k < s + win
    BY DEF WindowsCover
  <2>1. Len(cut.audio) \in Nat
    BY CutLength DEF WindowInv
  <2> QED BY <2>1, ConstantTypes, Covered
<1> QED BY <1>1, <1>2, <1>3, PTL DEF Spec

-----------------------------------------------------------------------------
(***************************************************************************)
(* Match, for any ids, scores and thresholds within the module's           *)
(* assumption.                                                             *)
(*                                                                         *)
(* OneAnswer rests on the margin being positive: of two centroids with the *)
(* same highest score each is the other's runner-up, so neither is clear,  *)
(* and both answers are the same rejection.                                *)
(***************************************************************************)

MatchInv ==
    /\ centroids \in [Vid -> Score \cup {None}]
    /\ result \in classify(centroids)

\* What the sorted list can start with, and the tiers.
LEMMA TierType ==
    ASSUME NEW best, NEW second
    PROVE  Tier(best, second) \in {"MATCH", "AMBIGUOUS", "LOW", "UNKNOWN"}
BY DEF Tier

LEMMA ClassifyType ==
    ASSUME NEW c \in [Vid -> Score \cup {None}], NEW r \in classify(c)
    PROVE  r \in Result /\ (r.vid # None <=> r.decision = "MATCH")
<1>1. CASE Enrolled(c) = {}
  BY <1>1 DEF classify, Rejected, Result
<1>2. CASE Enrolled(c) # {}
  <2> DEFINE tier(v) == Tier(c[v], Second(c, v))
  <2>1. PICK v \in Best(c) :
            r = [decision |-> tier(v), vid |-> IF tier(v) = "MATCH" THEN v ELSE None]
    BY <1>2 DEF classify
  <2>2. v \in Vid /\ v # None
    BY MatchAssumption DEF Best, Enrolled
  <2>3. tier(v) \in {"MATCH", "AMBIGUOUS", "LOW", "UNKNOWN"}
    BY TierType
  <2> HIDE DEF tier
  <2> QED BY <2>1, <2>2, <2>3 DEF Result
<1> QED BY <1>1, <1>2

\* The runner-up of one of two equal heads has their score.
LEMMA EqualHeads ==
    ASSUME NEW c \in [Vid -> Score \cup {None}], NEW v \in Best(c), NEW w \in Best(c), v # w
    PROVE  c[v] \in Int /\ c[w] = c[v] /\ Second(c, v) = c[v]
<1>1. v \in Enrolled(c) /\ w \in Enrolled(c)
  BY DEF Best
<1>2. \A u \in Enrolled(c) : c[u] \in Int /\ c[u] <= c[v] /\ c[u] <= c[w]
  BY MatchAssumption DEF Best, Enrolled
<1>3. c[v] \in Int /\ c[w] = c[v]
  BY <1>1, <1>2
<1> DEFINE rest == Enrolled(c) \ {v}
           second == CHOOSE x \in rest : \A u \in rest : c[u] <= c[x]
<1>4. w \in rest /\ \A u \in rest : c[u] <= c[w]
  BY <1>1, <1>2
<1>5. second \in rest /\ \A u \in rest : c[u] <= c[second]
  BY <1>4
<1>6. c[second] = c[v]
  <2>1. c[w] <= c[second]
    BY <1>4, <1>5
  <2>2. c[second] \in Int /\ c[second] <= c[v]
    BY <1>2, <1>5
  <2> HIDE DEF second
  <2> QED BY <1>3, <2>1, <2>2
<1>7. Second(c, v) = c[second]
  BY <1>4 DEF Second
<1> QED BY <1>3, <1>6, <1>7

LEMMA Deterministic ==
    ASSUME NEW c \in [Vid -> Score \cup {None}], NEW r \in classify(c), NEW s \in classify(c)
    PROVE  r = s
<1>1. CASE Enrolled(c) = {}
  BY <1>1 DEF classify
<1>2. CASE Enrolled(c) # {}
  <2> DEFINE answer(v) == [decision |-> Tier(c[v], Second(c, v)),
                           vid |-> IF Tier(c[v], Second(c, v)) = "MATCH" THEN v ELSE None]
  <2>1. PICK v \in Best(c), w \in Best(c) : r = answer(v) /\ s = answer(w)
    BY <1>2 DEF classify
  <2>2. CASE v # w
    <3>1. /\ c[v] \in Int /\ c[w] = c[v]
          /\ Second(c, v) = c[v] /\ Second(c, w) = c[v]
      BY <2>2, EqualHeads
    <3>2. c[v] < c[v] + AMBIGUOUS_MARGIN
      BY <3>1, MatchAssumption
    <3>3. Tier(c[v], c[v]) # "MATCH"
      BY <3>2 DEF Tier
    <3> QED BY <2>1, <3>1, <3>3
  <2> QED BY <2>1, <2>2
<1> QED BY <1>1, <1>2

-----------------------------------------------------------------------------
(* A match keeps its distance from every other centroid *)

LEMMA Least ==
    ASSUME NEW T, T \subseteq Nat, T # {}
    PROVE  \E x \in T : \A y \in T : x <= y
<1>1. \E x \in T : \A y \in T : <<y, x>> \notin OpToRel(<, Nat)
  BY NatLessThanWellFounded, WFMin
<1>2. ASSUME NEW x \in T, NEW y \in T, y < x
      PROVE  <<y, x>> \in OpToRel(<, Nat)
  BY <1>2 DEF OpToRel
<1>3. \A x, y \in T : ~(y < x) => x <= y
  OBVIOUS
<1> QED BY <1>1, <1>2, <1>3

\* A set of integers that has an upper bound and a member has a greatest one.
LEMMA Greatest ==
    ASSUME NEW T, T \subseteq Int, T # {}, NEW top \in Int, \A x \in T : x <= top
    PROVE  \E x \in T : \A y \in T : y <= x
<1> DEFINE Gaps == {top - x : x \in T}
<1>1. Gaps \subseteq Nat /\ Gaps # {}
  <2>1. \A x \in T : x \in Int /\ x <= top
    OBVIOUS
  <2>2. \A x \in T : top - x \in Nat
    BY <2>1
  <2>3. \E x \in T : top - x \in Gaps
    OBVIOUS
  <2> QED BY <2>2, <2>3
<1>2. PICK g \in Gaps : \A h \in Gaps : g <= h
  <2> HIDE DEF Gaps
  <2> QED BY <1>1, Least
<1>3. PICK x \in T : g = top - x
  OBVIOUS
<1>4. ASSUME NEW y \in T
      PROVE  y <= x
  <2>1. top - y \in Gaps
    OBVIOUS
  <2> HIDE DEF Gaps
  <2>2. top - x <= top - y /\ x \in Int /\ y \in Int
    BY <1>2, <1>3, <2>1
  <2> QED BY <2>2
<1> QED BY <1>4

\* The runner-up's score is at least every other centroid's.
LEMMA RunnerUp ==
    ASSUME NEW c \in [Vid -> Score \cup {None}], NEW v \in Best(c),
           NEW w \in Enrolled(c), w # v
    PROVE  c[w] \in Int /\ Second(c, v) \in Int /\ c[w] <= Second(c, v)
<1> DEFINE rest == Enrolled(c) \ {v}
           scores == {c[u] : u \in rest}
           second == CHOOSE x \in rest : \A u \in rest : c[u] <= c[x]
<1>1. v \in Enrolled(c) /\ \A u \in Enrolled(c) : c[u] \in Int /\ c[u] <= c[v]
  BY MatchAssumption DEF Best, Enrolled
<1>2. w \in rest /\ scores \subseteq Int /\ c[w] \in scores
  BY <1>1
<1>3. c[v] \in Int /\ \A x \in scores : x <= c[v]
  BY <1>1
<1>4. PICK x \in scores : \A y \in scores : y <= x
  <2> HIDE DEF scores
  <2>1. scores # {}
    BY <1>2
  <2> QED BY <1>2, <1>3, <2>1, Greatest
<1>5. PICK b \in rest : x = c[b]
  OBVIOUS
<1>6. b \in rest /\ \A u \in rest : c[u] <= c[b]
  BY <1>4, <1>5
<1>7. second \in rest /\ \A u \in rest : c[u] <= c[second]
  BY <1>6
<1>8. Second(c, v) = c[second]
  BY <1>2 DEF Second
<1> HIDE DEF second
<1> QED BY <1>1, <1>2, <1>7, <1>8

\* A match leads every other centroid by the margin.
LEMMA MatchLeads ==
    ASSUME NEW c \in [Vid -> Score \cup {None}], NEW r \in classify(c), r.vid # None
    PROVE  /\ r.vid \in Enrolled(c) /\ c[r.vid] \in Int
           /\ \A w \in Enrolled(c) \ {r.vid} :
                 c[w] \in Int /\ c[w] + AMBIGUOUS_MARGIN <= c[r.vid]
<1> DEFINE tier(v) == Tier(c[v], Second(c, v))
<1>1. Enrolled(c) # {}
  BY DEF classify, Rejected
<1>2. PICK v \in Best(c) :
          r = [decision |-> tier(v), vid |-> IF tier(v) = "MATCH" THEN v ELSE None]
  BY <1>1 DEF classify
<1>3. tier(v) = "MATCH" /\ r.vid = v
  <2> HIDE DEF tier
  <2> QED BY <1>2
<1>4. ~(c[v] < Second(c, v) + AMBIGUOUS_MARGIN)
  BY <1>3 DEF Tier
<1>5. v \in Enrolled(c) /\ c[v] \in Int /\ AMBIGUOUS_MARGIN \in Int
  BY MatchAssumption DEF Best, Enrolled
<1>6. ASSUME NEW w \in Enrolled(c), w # v
      PROVE  c[w] \in Int /\ c[w] + AMBIGUOUS_MARGIN <= c[v]
  <2>1. c[w] \in Int /\ Second(c, v) \in Int /\ c[w] <= Second(c, v)
    BY <1>6, RunnerUp
  <2> QED BY <1>4, <1>5, <2>1
<1> QED BY <1>3, <1>5, <1>6

LEMMA NoTheft ==
    ASSUME NEW c \in [Vid -> Score \cup {None}], NEW d \in [Vid -> Score \cup {None}],
           NEW r \in classify(c), NEW s \in classify(d), NEW v \in Vid,
           \A w \in Vid \ {v} : d[w] = c[w],
           r.vid \notin {None, v}, s.vid # None
    PROVE  s.vid \in {r.vid, v}
<1> SUFFICES ASSUME s.vid # r.vid, s.vid # v
             PROVE  FALSE
  OBVIOUS
<1>1. /\ r.vid \in Enrolled(c) /\ c[r.vid] \in Int
      /\ s.vid \in Enrolled(d) /\ d[s.vid] \in Int
  BY MatchLeads
<1>2. /\ d[r.vid] = c[r.vid] /\ d[s.vid] = c[s.vid]
      /\ r.vid \in Enrolled(d) /\ s.vid \in Enrolled(c)
  BY <1>1 DEF Enrolled
<1>3. c[s.vid] + AMBIGUOUS_MARGIN <= c[r.vid] /\ d[r.vid] + AMBIGUOUS_MARGIN <= d[s.vid]
  BY <1>2, MatchLeads
<1>4. AMBIGUOUS_MARGIN \in Int /\ AMBIGUOUS_MARGIN > 0
  BY MatchAssumption
<1> QED BY <1>1, <1>2, <1>3, <1>4

-----------------------------------------------------------------------------
LEMMA MatchInvariant == MatchSpec => []MatchInv
<1>1. MatchInit => MatchInv
  BY DEF MatchInit, MatchInv
<1>2. MatchInv /\ [MatchNext]_matchVars => MatchInv'
  <2> SUFFICES ASSUME MatchInv, [MatchNext]_matchVars PROVE MatchInv'
    OBVIOUS
  <2>1. CASE UNCHANGED matchVars
    BY <2>1 DEF matchVars, MatchInv
  <2>2. ASSUME NEW v \in Vid, NEW x \in Score \cup {None}, Change(v, x)
        PROVE  MatchInv'
    BY <2>2 DEF Change, MatchInv
  <2> QED BY <2>1, <2>2 DEF MatchNext
<1> QED BY <1>1, <1>2, PTL DEF MatchSpec

-----------------------------------------------------------------------------
(* Whatever the centroids, the answer names an id exactly when it is a match. *)
THEOREM MatchTypeCorrect == MatchSpec => []MatchTypeOK
<1>1. MatchInv => MatchTypeOK
  BY ClassifyType DEF MatchInv, MatchTypeOK
<1> QED BY <1>1, MatchInvariant, PTL

(* Equal scores never make the answer depend on the order of a dict.         *)
THEOREM AnswerUnique == MatchSpec => []OneAnswer
<1>1. MatchInv => OneAnswer
  BY Deterministic DEF MatchInv, OneAnswer
<1> QED BY <1>1, MatchInvariant, PTL

(* No name moves between two other voiceprints: when one centroid is         *)
(* enrolled, recomputed or erased, a match with a second cannot become a     *)
(* match with a third (classify), with any number of centroids and for any   *)
(* margin.                                                                   *)
THEOREM MatchesStay == MatchSpec => NoStolenMatch
<1>1. MatchInv /\ MatchInv' /\ [MatchNext]_matchVars =>
        [\A v \in Vid :
            (\A w \in Vid \ {v} : centroids'[w] = centroids[w])
               /\ result.vid \notin {None, v} /\ result'.vid # None
            => result'.vid \in {result.vid, v}]_matchVars
  <2> SUFFICES ASSUME MatchInv, MatchInv', NEW v \in Vid,
                      \A w \in Vid \ {v} : centroids'[w] = centroids[w],
                      result.vid \notin {None, v}, result'.vid # None
               PROVE  result'.vid \in {result.vid, v}
    OBVIOUS
  <2> QED BY NoTheft DEF MatchInv
<1> QED BY <1>1, MatchInvariant, PTL DEF MatchSpec, NoStolenMatch

(***************************************************************************)
(* Exemplars, for embeddings of any dimension and length, any cap and any  *)
(* number of operations.                                                   *)
(*                                                                         *)
(* The sums and the loop over the exemplars are recursive functions: that  *)
(* each exists is proved by going up from 0, and what it computes from its *)
(* equations.                                                              *)
(*                                                                         *)
(* RetryAccepted is not inductive: whether a clip fits the centroid after  *)
(* it took the place of another depends on how far the other reached.  The *)
(* invariant says of every enrolled voiceprint that one of its exemplars   *)
(* fits its centroid with that room (Fits), and the file of an export must *)
(* have such an exemplar too, since an import restores it.                 *)
(***************************************************************************)

\* A set with 0 that has k + 1 with every k below m has all of 0 .. m.
LEMMA UpTo ==
  ASSUME NEW m \in Nat, NEW T, 0 \in T, \A k \in 0 .. m - 1 : k \in T => k + 1 \in T
  PROVE  \A k \in 0 .. m : k \in T
<1> DEFINE Missing == {k \in 0 .. m : k \notin T}
<1>1. SUFFICES ASSUME Missing # {} PROVE FALSE
  OBVIOUS
<1>2. PICK x \in Missing : \A y \in Missing : x <= y
  <2>1. Missing \subseteq Nat
    OBVIOUS
  <2> HIDE DEF Missing
  <2> QED BY <1>1, <2>1, Least
<1>3. x \in 1 .. m /\ x \notin T
  OBVIOUS
<1>4. x - 1 \in T
  <2>1. x - 1 \in 0 .. m /\ ~(x <= x - 1)
    BY <1>3
  <2> QED BY <1>2, <2>1
<1>5. x - 1 \in 0 .. m - 1 /\ (x - 1) + 1 = x
  BY <1>3
<1> QED BY <1>3, <1>4, <1>5

-----------------------------------------------------------------------------
(* Sums *)

\* The partial sums of f up to n.
IsSums(s, f, n) == s = [k \in 0 .. n |-> IF k = 0 THEN 0 ELSE s[k - 1] + f[k]]

LEMMA SumsExist == ASSUME NEW f, NEW n \in Nat PROVE \E s : IsSums(s, f, n)
<1> DEFINE T == {m \in 0 .. n : \E s : IsSums(s, f, m)}
<1>1. 0 \in T
  <2> DEFINE s == [k \in 0 .. 0 |-> 0]
  <2>1. s = [k \in 0 .. 0 |-> IF k = 0 THEN 0 ELSE s[k - 1] + f[k]]
    OBVIOUS
  <2>2. IsSums(s, f, 0)
    BY <2>1 DEF IsSums
  <2> QED BY <2>2
<1>2. ASSUME NEW m \in 0 .. n - 1, m \in T
      PROVE  m + 1 \in T
  <2>1. PICK s : IsSums(s, f, m)
    BY <1>2
  <2> DEFINE t == [k \in 0 .. m + 1 |-> IF k = m + 1 THEN s[m] + f[k] ELSE s[k]]
  <2>2. ASSUME NEW k \in 0 .. m + 1
        PROVE  t[k] = IF k = 0 THEN 0 ELSE t[k - 1] + f[k]
    <3>1. CASE k = m + 1
      <4>1. k # 0 /\ k - 1 = m /\ m \in 0 .. m + 1 /\ m # m + 1
        BY <3>1
      <4> QED BY <3>1, <4>1
    <3>2. CASE k # m + 1
      <4>1. k \in 0 .. m
        BY <3>2
      <4>2. s[k] = IF k = 0 THEN 0 ELSE s[k - 1] + f[k]
        BY <2>1, <4>1 DEF IsSums
      <4>3. k # 0 => k - 1 \in 0 .. m + 1 /\ k - 1 # m + 1
        BY <4>1
      <4> QED BY <3>2, <4>2, <4>3
    <3> QED BY <3>1, <3>2
  <2>3. IsSums(t, f, m + 1)
    <3>1. t = [k \in 0 .. m + 1 |-> t[k]]
      OBVIOUS
    <3> HIDE DEF t
    <3> QED BY <2>2, <3>1 DEF IsSums
  <2>4. m + 1 \in 0 .. n
    OBVIOUS
  <2> HIDE DEF t
  <2> QED BY <2>3, <2>4
<1> HIDE DEF T
<1>3. \A k \in 0 .. n : k \in T
  BY <1>1, <1>2, UpTo
<1> QED BY <1>3 DEF T

\* The sums of f up to n begin the sums of f up to any later m.
LEMMA SumsAgree ==
  ASSUME NEW f, NEW n \in Nat, NEW m \in Nat, n <= m,
         NEW s, IsSums(s, f, n), NEW t, IsSums(t, f, m)
  PROVE  \A k \in 0 .. n : s[k] = t[k]
<1> DEFINE T == {k \in 0 .. n : s[k] = t[k]}
<1>1. 0 \in T
  BY DEF IsSums
<1>2. ASSUME NEW k \in 0 .. n - 1, k \in T
      PROVE  k + 1 \in T
  <2>1. k + 1 \in 0 .. n /\ k + 1 \in 0 .. m /\ k + 1 # 0 /\ (k + 1) - 1 = k
    OBVIOUS
  <2>2. s[k + 1] = s[k] + f[k + 1] /\ t[k + 1] = t[k] + f[k + 1]
    BY <2>1 DEF IsSums
  <2> QED BY <1>2, <2>1, <2>2
<1> HIDE DEF T
<1>3. \A k \in 0 .. n : k \in T
  BY <1>1, <1>2, UpTo
<1> QED BY <1>3 DEF T

LEMMA SigmaSums ==
  ASSUME NEW f, NEW n \in Nat
  PROVE  \E s : IsSums(s, f, n) /\ Sigma(f, n) = s[n]
<1> DEFINE s == CHOOSE s : IsSums(s, f, n)
<1>1. IsSums(s, f, n)
  BY SumsExist
<1>2. Sigma(f, n) = s[n]
  BY DEF Sigma, IsSums
<1> QED BY <1>1, <1>2

\* The equations of the sum.
LEMMA SigmaRec ==
  ASSUME NEW f, NEW n \in Nat
  PROVE  /\ Sigma(f, 0) = 0
         /\ Sigma(f, n + 1) = Sigma(f, n) + f[n + 1]
<1>1. PICK s : IsSums(s, f, n) /\ Sigma(f, n) = s[n]
  BY SigmaSums
<1>2. PICK t : IsSums(t, f, n + 1) /\ Sigma(f, n + 1) = t[n + 1]
  BY SigmaSums
<1>3. PICK z : IsSums(z, f, 0) /\ Sigma(f, 0) = z[0]
  BY SigmaSums
<1>4. s[n] = t[n]
  BY <1>1, <1>2, SumsAgree
<1>5. t[n + 1] = t[n] + f[n + 1]
  BY <1>2 DEF IsSums
<1>6. z[0] = 0
  BY <1>3 DEF IsSums
<1> QED BY <1>1, <1>2, <1>3, <1>4, <1>5, <1>6

LEMMA SigmaInt ==
  ASSUME NEW n \in Nat, NEW f, \A k \in 1 .. n : f[k] \in Int
  PROVE  \A m \in 0 .. n : Sigma(f, m) \in Int
<1> DEFINE T == {m \in 0 .. n : Sigma(f, m) \in Int}
<1>1. 0 \in T
  BY SigmaRec
<1>2. ASSUME NEW k \in 0 .. n - 1, k \in T
      PROVE  k + 1 \in T
  <2>1. k \in Nat /\ k + 1 \in 1 .. n /\ k + 1 \in 0 .. n
    OBVIOUS
  <2>2. Sigma(f, k + 1) = Sigma(f, k) + f[k + 1]
    BY <2>1, SigmaRec
  <2> QED BY <1>2, <2>1, <2>2
<1> HIDE DEF T
<1>3. \A k \in 0 .. n : k \in T
  BY <1>1, <1>2, UpTo
<1> QED BY <1>3 DEF T

\* A sum of squares, or of anything else that is not negative.
LEMMA SigmaNat ==
  ASSUME NEW n \in Nat, NEW f, \A k \in 1 .. n : f[k] \in Nat
  PROVE  Sigma(f, n) \in Nat
<1> DEFINE T == {m \in 0 .. n : Sigma(f, m) \in Nat}
<1>1. 0 \in T
  BY SigmaRec
<1>2. ASSUME NEW k \in 0 .. n - 1, k \in T
      PROVE  k + 1 \in T
  <2>1. k \in Nat /\ k + 1 \in 1 .. n /\ k + 1 \in 0 .. n
    OBVIOUS
  <2>2. Sigma(f, k + 1) = Sigma(f, k) + f[k + 1]
    BY <2>1, SigmaRec
  <2> QED BY <1>2, <2>1, <2>2
<1> HIDE DEF T
<1>3. \A k \in 0 .. n : k \in T
  BY <1>1, <1>2, UpTo
<1>4. n \in 0 .. n
  OBVIOUS
<1> QED BY <1>3, <1>4 DEF T

\* The sum of what is added term by term; with g = 0 everywhere, equal terms
\* have equal sums.
LEMMA SigmaPlus ==
  ASSUME NEW n \in Nat, NEW f, NEW g, NEW h,
         \A k \in 1 .. n : f[k] \in Int /\ g[k] \in Int /\ h[k] = f[k] + g[k]
  PROVE  Sigma(h, n) = Sigma(f, n) + Sigma(g, n)
<1> DEFINE T == {m \in 0 .. n : Sigma(h, m) = Sigma(f, m) + Sigma(g, m)}
<1>a. \A m \in 0 .. n : Sigma(f, m) \in Int /\ Sigma(g, m) \in Int
  BY SigmaInt
<1>1. 0 \in T
  BY SigmaRec
<1>2. ASSUME NEW k \in 0 .. n - 1, k \in T
      PROVE  k + 1 \in T
  <2>1. k \in Nat /\ k \in 0 .. n /\ k + 1 \in 1 .. n /\ k + 1 \in 0 .. n
    OBVIOUS
  <2>2. /\ Sigma(f, k + 1) = Sigma(f, k) + f[k + 1]
        /\ Sigma(g, k + 1) = Sigma(g, k) + g[k + 1]
        /\ Sigma(h, k + 1) = Sigma(h, k) + h[k + 1]
    BY <2>1, SigmaRec
  <2> QED BY <1>2, <1>a, <2>1, <2>2
<1> HIDE DEF T
<1>3. \A k \in 0 .. n : k \in T
  BY <1>1, <1>2, UpTo
<1>4. n \in 0 .. n
  OBVIOUS
<1> QED BY <1>3, <1>4 DEF T

\* Changing the term at j changes the sum by as much.
LEMMA SigmaChange ==
  ASSUME NEW n \in Nat, NEW j \in 1 .. n, NEW f, NEW h,
         \A k \in 1 .. n : f[k] \in Int /\ h[k] \in Int,
         \A k \in 1 .. n : k # j => h[k] = f[k]
  PROVE  Sigma(h, n) = Sigma(f, n) - f[j] + h[j]
<1> DEFINE T == {m \in 0 .. n : Sigma(h, m) = Sigma(f, m) + (IF m < j THEN 0 ELSE h[j] - f[j])}
<1>a. \A m \in 0 .. n : Sigma(f, m) \in Int /\ Sigma(h, m) \in Int
  BY SigmaInt
<1>1. 0 \in T
  BY SigmaRec
<1>2. ASSUME NEW k \in 0 .. n - 1, k \in T
      PROVE  k + 1 \in T
  <2>1. k \in Nat /\ k \in 0 .. n /\ k + 1 \in 1 .. n /\ k + 1 \in 0 .. n
    OBVIOUS
  <2>2. /\ Sigma(f, k + 1) = Sigma(f, k) + f[k + 1]
        /\ Sigma(h, k + 1) = Sigma(h, k) + h[k + 1]
    BY <2>1, SigmaRec
  <2>3. CASE k + 1 = j
    <3>1. k < j /\ ~(k + 1 < j)
      BY <2>3
    <3> QED BY <1>2, <1>a, <2>1, <2>2, <2>3, <3>1
  <2>4. CASE k + 1 # j
    <3>1. h[k + 1] = f[k + 1] /\ (k < j <=> k + 1 < j)
      BY <2>4, <2>1
    <3> QED BY <1>2, <1>a, <2>1, <2>2, <2>4, <3>1
  <2> QED BY <2>3, <2>4
<1> HIDE DEF T
<1>3. \A k \in 0 .. n : k \in T
  BY <1>1, <1>2, UpTo
<1>4. n \in 0 .. n /\ ~(n < j)
  OBVIOUS
<1> QED BY <1>3, <1>4, <1>a DEF T

\* Sums of the same terms are the same.
LEMMA SigmaSame ==
  ASSUME NEW n \in Nat, NEW f, NEW h, \A k \in 1 .. n : h[k] = f[k]
  PROVE  Sigma(h, n) = Sigma(f, n)
<1> DEFINE T == {m \in 0 .. n : Sigma(h, m) = Sigma(f, m)}
<1>1. 0 \in T
  BY SigmaRec
<1>2. ASSUME NEW k \in 0 .. n - 1, k \in T
      PROVE  k + 1 \in T
  <2>1. k \in Nat /\ k + 1 \in 1 .. n /\ k + 1 \in 0 .. n
    OBVIOUS
  <2>2. /\ Sigma(f, k + 1) = Sigma(f, k) + f[k + 1]
        /\ Sigma(h, k + 1) = Sigma(h, k) + h[k + 1]
    BY <2>1, SigmaRec
  <2> QED BY <1>2, <2>1, <2>2
<1> HIDE DEF T
<1>3. \A k \in 0 .. n : k \in T
  BY <1>1, <1>2, UpTo
<1>4. n \in 0 .. n
  OBVIOUS
<1> QED BY <1>3, <1>4 DEF T

-----------------------------------------------------------------------------
(* Vectors *)

LEMMA DotInt == ASSUME NEW a \in Vectors, NEW b \in Vectors PROVE Dot(a, b) \in Int
<1> DEFINE f == [d \in 1 .. Dim |-> a[d] * b[d]]
<1>1. \A d \in 1 .. Dim : f[d] \in Int
  BY DEF Vectors
<1>2. Dim \in Nat /\ Dim \in 0 .. Dim
  BY ExemplarsAssumption
<1> HIDE DEF f
<1>3. Sigma(f, Dim) \in Int
  BY <1>1, <1>2, SigmaInt
<1> QED BY <1>3 DEF Dot, f

LEMMA DotSelf == ASSUME NEW a \in Vectors PROVE Dot(a, a) \in Nat
<1> DEFINE f == [d \in 1 .. Dim |-> a[d] * a[d]]
<1>1. \A d \in 1 .. Dim : f[d] \in Nat
  <2>1. \A i \in Int : i * i \in Int /\ i * i >= 0
    OBVIOUS
  <2> QED BY <2>1 DEF Vectors
<1>2. Dim \in Nat
  BY ExemplarsAssumption
<1> HIDE DEF f
<1>3. Sigma(f, Dim) \in Nat
  BY <1>1, <1>2, SigmaNat
<1> QED BY <1>3 DEF Dot, f

LEMMA DotSym == ASSUME NEW a \in Vectors, NEW b \in Vectors PROVE Dot(a, b) = Dot(b, a)
<1> DEFINE f == [d \in 1 .. Dim |-> a[d] * b[d]]
           g == [d \in 1 .. Dim |-> b[d] * a[d]]
<1>1. \A d \in 1 .. Dim : g[d] = f[d]
  BY DEF Vectors
<1>2. Dim \in Nat
  BY ExemplarsAssumption
<1> HIDE DEF f, g
<1>3. Sigma(g, Dim) = Sigma(f, Dim)
  BY <1>1, <1>2, SigmaSame
<1> QED BY <1>3 DEF Dot, f, g

LEMMA DotPlus ==
  ASSUME NEW x \in Vectors, NEW u \in Vectors, NEW v \in Vectors, NEW w \in Vectors,
         \A d \in 1 .. Dim : w[d] = u[d] + v[d]
  PROVE  Dot(x, w) = Dot(x, u) + Dot(x, v)
<1> DEFINE f == [d \in 1 .. Dim |-> x[d] * u[d]]
           g == [d \in 1 .. Dim |-> x[d] * v[d]]
           h == [d \in 1 .. Dim |-> x[d] * w[d]]
<1>1. ASSUME NEW d \in 1 .. Dim
      PROVE  f[d] \in Int /\ g[d] \in Int /\ h[d] = f[d] + g[d]
  <2>1. x[d] \in Int /\ u[d] \in Int /\ v[d] \in Int
    BY DEF Vectors
  <2>2. \A a, b, c \in Int : a * b \in Int /\ a * c \in Int /\ a * (b + c) = a * b + a * c
    OBVIOUS
  <2> QED BY <2>1, <2>2
<1>2. Dim \in Nat
  BY ExemplarsAssumption
<1> HIDE DEF f, g, h
<1>3. Sigma(h, Dim) = Sigma(f, Dim) + Sigma(g, Dim)
  BY <1>1, <1>2, SigmaPlus
<1> QED BY <1>3 DEF Dot, f, g, h

\* The square of the sum of two vectors.
LEMMA SquarePlus ==
  ASSUME NEW u \in Vectors, NEW v \in Vectors, NEW w \in Vectors,
         \A d \in 1 .. Dim : w[d] = u[d] + v[d]
  PROVE  Dot(w, w) = Dot(u, u) + 2 * Dot(u, v) + Dot(v, v)
<1>1. /\ Dot(w, w) = Dot(w, u) + Dot(w, v)
      /\ Dot(u, w) = Dot(u, u) + Dot(u, v)
      /\ Dot(v, w) = Dot(v, u) + Dot(v, v)
  BY DotPlus
<1>2. Dot(w, u) = Dot(u, w) /\ Dot(w, v) = Dot(v, w) /\ Dot(v, u) = Dot(u, v)
  BY DotSym
<1>3. Dot(u, u) \in Int /\ Dot(u, v) \in Int /\ Dot(v, v) \in Int
  BY DotInt
<1> QED BY <1>1, <1>2, <1>3

\* Of two vectors of the same length, neither reaches beyond the other's end.
LEMMA DotBound ==
  ASSUME NEW a \in Vectors, NEW b \in Vectors, Dot(a, a) = Dot(b, b)
  PROVE  Dot(a, b) <= Dot(a, a)
<1> DEFINE w == [d \in 1 .. Dim |-> a[d] - b[d]]
<1>1. w \in Vectors /\ \A d \in 1 .. Dim : a[d] = w[d] + b[d]
  BY DEF Vectors
<1> HIDE DEF w
<1>2. /\ Dot(a, a) = Dot(w, w) + 2 * Dot(w, b) + Dot(b, b)
      /\ Dot(b, a) = Dot(b, w) + Dot(b, b)
  BY <1>1, SquarePlus, DotPlus
<1>3. /\ Dot(b, a) = Dot(a, b) /\ Dot(b, w) = Dot(w, b)
      /\ Dot(w, w) \in Nat /\ Dot(w, b) \in Int /\ Dot(b, b) \in Int /\ Dot(a, b) \in Int
  BY <1>1, DotSym, DotInt, DotSelf
<1> QED BY <1>2, <1>3

-----------------------------------------------------------------------------
(* The sum of the exemplars *)

LEMMA TotalVector == ASSUME NEW es \in Seq(Vectors) PROVE Total(es) \in Vectors
<1>1. ASSUME NEW d \in 1 .. Dim
      PROVE  Sigma([i \in 1 .. Len(es) |-> es[i][d]], Len(es)) \in Int
  <2> DEFINE f == [i \in 1 .. Len(es) |-> es[i][d]]
  <2>1. Len(es) \in Nat /\ Len(es) \in 0 .. Len(es) /\ \A i \in 1 .. Len(es) : es[i] \in Vectors
    OBVIOUS
  <2>2. \A i \in 1 .. Len(es) : f[i] \in Int
    BY <2>1 DEF Vectors
  <2> HIDE DEF f
  <2>3. Sigma(f, Len(es)) \in Int
    BY <2>1, <2>2, SigmaInt
  <2> QED BY <2>3 DEF f
<1> QED BY <1>1 DEF Total, Vectors

LEMMA TotalOne == ASSUME NEW e \in Vectors PROVE Total(<<e>>) = e
<1>1. Len(<<e>>) = 1 /\ <<e>>[1] = e
  OBVIOUS
<1>2. ASSUME NEW d \in 1 .. Dim
      PROVE  Total(<<e>>)[d] = e[d]
  <2> DEFINE f == [i \in 1 .. 1 |-> <<e>>[i][d]]
  <2>0. e[d] \in Int
    BY DEF Vectors
  <2>1. f[1] = e[d]
    BY <1>1
  <2>2. Total(<<e>>)[d] = Sigma(f, 1)
    BY <1>1 DEF Total
  <2> HIDE DEF f
  <2>3. Sigma(f, 0) = 0 /\ Sigma(f, 0 + 1) = Sigma(f, 0) + f[0 + 1]
    BY SigmaRec
  <2> QED BY <2>0, <2>1, <2>2, <2>3
<1>3. Total(<<e>>) \in Vectors
  <2>1. <<e>> \in Seq(Vectors)
    OBVIOUS
  <2> QED BY <2>1, TotalVector
<1>4. Total(<<e>>) = [d \in 1 .. Dim |-> Total(<<e>>)[d]] /\ e = [d \in 1 .. Dim |-> e[d]]
  BY <1>3 DEF Vectors
<1> QED BY <1>2, <1>4

LEMMA TotalAppend ==
  ASSUME NEW es \in Seq(Vectors), NEW e \in Vectors
  PROVE  \A d \in 1 .. Dim : Total(Append(es, e))[d] = Total(es)[d] + e[d]
<1> DEFINE n == Len(es)
           ex == Append(es, e)
<1>1. n \in Nat /\ Len(ex) = n + 1 /\ ex[n + 1] = e /\ \A i \in 1 .. n : ex[i] = es[i]
  OBVIOUS
<1>2. ASSUME NEW d \in 1 .. Dim
      PROVE  Total(ex)[d] = Total(es)[d] + e[d]
  <2> DEFINE f == [i \in 1 .. n |-> es[i][d]]
             h == [i \in 1 .. n + 1 |-> ex[i][d]]
  <2>1. Total(es)[d] = Sigma(f, n) /\ Total(ex)[d] = Sigma(h, n + 1)
    BY <1>1 DEF Total
  <2>2. h[n + 1] = e[d] /\ \A i \in 1 .. n : h[i] = f[i]
    BY <1>1
  <2> HIDE DEF f, h, n, ex
  <2>3. Sigma(h, n) = Sigma(f, n)
    BY <1>1, <2>2, SigmaSame
  <2>4. Sigma(h, n + 1) = Sigma(h, n) + h[n + 1]
    BY <1>1, SigmaRec
  <2> QED BY <2>1, <2>2, <2>3, <2>4
<1> QED BY <1>2

LEMMA TotalReplace ==
  ASSUME NEW es \in Seq(Vectors), NEW r \in 1 .. Len(es), NEW e \in Vectors
  PROVE  \A d \in 1 .. Dim :
           Total([es EXCEPT ![r] = e])[d] = Total(es)[d] - es[r][d] + e[d]
<1> DEFINE n == Len(es)
           ex == [es EXCEPT ![r] = e]
<1>1. /\ n \in Nat /\ ex \in Seq(Vectors) /\ Len(ex) = n /\ ex[r] = e
      /\ \A i \in 1 .. n : es[i] \in Vectors /\ ex[i] \in Vectors
      /\ \A i \in 1 .. n : i # r => ex[i] = es[i]
  OBVIOUS
<1>2. ASSUME NEW d \in 1 .. Dim
      PROVE  Total(ex)[d] = Total(es)[d] - es[r][d] + e[d]
  <2> DEFINE f == [i \in 1 .. n |-> es[i][d]]
             h == [i \in 1 .. n |-> ex[i][d]]
  <2>1. Total(es)[d] = Sigma(f, n) /\ Total(ex)[d] = Sigma(h, n)
    BY <1>1 DEF Total
  <2>0. \A i \in 1 .. n : es[i][d] \in Int /\ ex[i][d] \in Int
    <3> HIDE DEF n, ex
    <3> QED BY <1>1 DEF Vectors
  <2>a. \A i \in 1 .. n : f[i] \in Int /\ h[i] \in Int
    BY <2>0
  <2>b. \A i \in 1 .. n : i # r => h[i] = f[i]
    BY <1>1
  <2>2. f[r] = es[r][d] /\ h[r] = e[d]
    BY <1>1
  <2>3. n \in Nat /\ r \in 1 .. n
    OBVIOUS
  <2> HIDE DEF f, h, n, ex
  <2>4. Sigma(h, n) = Sigma(f, n) - f[r] + h[r]
    BY <2>a, <2>b, <2>3, SigmaChange, Zenon
  <2> QED BY <2>1, <2>2, <2>4
<1> QED BY <1>2

-----------------------------------------------------------------------------
(* The gate, in integers: N is the squared length of an embedding, A that  *)
(* of the sum of the exemplars.                                            *)

\* Below the cap the clip joins: its product with the sum grows from d to
\* d + N, and the sum cannot have become short.
LEMMA GateWhenJoining ==
  ASSUME NEW N \in Nat \ {0}, NEW A \in Nat, NEW d \in Int, d > 0, 4 * d * d >= N * A
  PROVE  /\ d + N > 0
         /\ 4 * (d + N) * (d + N) >= N * (A + 2 * d + N)
         /\ 4 * (A + 2 * d + N) >= N
<1>1. 4 * (d + N) * (d + N) = 4 * d * d + 8 * (d * N) + 4 * (N * N)
  OBVIOUS
<1>2. N * (A + 2 * d + N) = N * A + 2 * (d * N) + N * N
  OBVIOUS
<1>3. d * N >= 0 /\ N * N >= 0 /\ d * N \in Int /\ N * N \in Int /\ N * A \in Int /\ 4 * d * d \in Int
  OBVIOUS
<1> QED BY <1>1, <1>2, <1>3

\* A positive number whose square is large enough is large.
LEMMA SquareRoot ==
  ASSUME NEW N \in Nat, NEW d \in Int, d > 0, 16 * (d * d) >= N * N
  PROVE  4 * d >= N
<1>1. SUFFICES ASSUME 4 * d < N PROVE FALSE
  OBVIOUS
<1> DEFINE g == N - 4 * d
<1>2. g \in Int /\ g > 0 /\ N = 4 * d + g
  BY <1>1
<1> HIDE DEF g
<1>3. N * N = 16 * (d * d) + 8 * (d * g) + g * g
  BY <1>2
<1>4. d * g > 0 /\ g * g > 0 /\ d * d \in Int /\ d * g \in Int /\ g * g \in Int
  BY <1>2
<1> QED BY <1>3, <1>4

\* At the cap the clip takes the place of the exemplar nearest to the sum.  m is
\* that exemplar's product with the sum, d the clip's, x what the two lack of
\* being the same.  The sum can become short when dissimilar clips evict the
\* common ones, and a short sum is turned by one replacement: what saves the gate
\* is that 2m - A never falls while the sum is short.
LEMMA GateWhenReplacing ==
  ASSUME NEW N \in Nat \ {0}, NEW A \in Nat, NEW B \in Nat,
         NEW d \in Int, NEW m \in Int, NEW x \in Nat, NEW y \in Int,
         y = d + x, B = A + 2 * y - 2 * m,
         d > 0, 4 * (d * d) >= N * A,
         m > 0, 4 * (m * m) >= N * A,
         4 * A >= N \/ 8 * m >= N + 4 * A
  PROVE  /\ y > 0
         /\ 4 * (y * y) >= N * B
         /\ 4 * B >= N \/ 8 * y >= N + 4 * B
<1>1. y > 0 /\ y >= d
  OBVIOUS
<1>2. N * B = N * A + 2 * (N * y) - 2 * (N * m)
  OBVIOUS
<1>t. /\ N * A \in Int /\ N * y \in Int /\ N * m \in Int /\ N * N \in Int
      /\ d * d \in Int /\ m * m \in Int /\ y * y \in Int /\ N * B \in Int
  OBVIOUS
<1>3. CASE 4 * A >= N
  <2>1. 4 * (N * A) >= N * N
    <3>1. \A g \in Nat : N * g >= 0
      OBVIOUS
    <3>2. 4 * A - N \in Nat /\ N * (4 * A - N) = 4 * (N * A) - N * N
      BY <1>3
    <3> QED BY <3>1, <3>2, <1>t
  <2>2. 4 * d >= N /\ 4 * m >= N
    BY <2>1, <1>t, SquareRoot
  <2>3. 4 * (y * y) >= N * B
    <3>1. CASE y <= m
      <4>1. y * y >= d * d
        <5>1. y * y = d * d + 2 * (d * x) + x * x /\ d * x >= 0 /\ x * x >= 0
          OBVIOUS
        <5>2. d * x \in Int /\ x * x \in Int
          OBVIOUS
        <5> QED BY <5>1, <5>2, <1>t
      <4>2. N * y <= N * m
        <5>1. m - y \in Nat /\ N * (m - y) = N * m - N * y
          BY <3>1
        <5>2. N * (m - y) >= 0
          BY <5>1
        <5> QED BY <5>1, <5>2, <1>t
      <4> QED BY <4>1, <4>2, <1>2, <1>t
    <3>2. CASE m < y
      <4> DEFINE g == y - m
                 k == 4 * y + 4 * m - 2 * N
      <4>1. g \in Nat /\ k \in Nat /\ y = m + g
        BY <3>2, <2>2
      <4>2. g * k = 4 * (y * y) - 4 * (m * m) - 2 * (N * y) + 2 * (N * m)
        OBVIOUS
      <4> HIDE DEF g, k
      <4>3. g * k >= 0
        BY <4>1
      <4> QED BY <4>2, <4>3, <1>2, <1>t
    <3> QED BY <3>1, <3>2
  <2>4. 4 * B >= N \/ 8 * y >= N + 4 * B
    BY <1>1, <2>2
  <2> QED BY <1>1, <2>3, <2>4
<1>4. CASE 8 * m >= N + 4 * A
  <2>1. 8 * y >= N + 4 * B
    BY <1>4
  <2>2. 4 * (y * y) >= N * B
    <3>1. (4 * y - N) * (4 * y - N) = 16 * (y * y) - 8 * (N * y) + N * N
      OBVIOUS
    <3>2. (4 * y - N) * (4 * y - N) >= 0
      <4>1. \A g \in Int : g * g >= 0
        OBVIOUS
      <4> QED BY <4>1
    <3>3. 8 * (N * m) - 4 * (N * A) >= N * N
      <4>1. \A g \in Nat : N * g >= 0
        OBVIOUS
      <4>2. 8 * m - 4 * A - N \in Nat /\ N * (8 * m - 4 * A - N) = 8 * (N * m) - 4 * (N * A) - N * N
        BY <1>4
      <4> QED BY <4>1, <4>2, <1>t
    <3> QED BY <3>1, <3>2, <3>3, <1>2, <1>t
  <2> QED BY <1>1, <2>1, <2>2
<1> QED BY <1>3, <1>4

-----------------------------------------------------------------------------
(* The operations on a voiceprint *)

\* A voiceprint while exemplars are added: its centroid may be old, or missing.
Drafts == [exemplars : Seq(Embeddings), centroid : Vectors \cup {NoCentroid}]

\* A stored one.
Kept(vp) == /\ vp \in [exemplars : Seq(Embeddings), centroid : Vectors]
            /\ Len(vp.exemplars) \in 1 .. MAX_EXEMPLARS
            /\ vp.centroid = Total(vp.exemplars)

\* Of finitely many integers, there is a first of the greatest.
LEMMA FirstOfGreatest ==
  ASSUME NEW n \in Nat \ {0}, NEW s, \A i \in 1 .. n : s[i] \in Int
  PROVE  \E i \in 1 .. n : \A j \in 1 .. n : s[i] > s[j] \/ (s[i] = s[j] /\ i <= j)
<1> DEFINE Leads(i, k) == \A j \in 1 .. k : s[i] > s[j] \/ (s[i] = s[j] /\ i <= j)
           T == {k \in 0 .. n - 1 : \E i \in 1 .. k + 1 : Leads(i, k + 1)}
<1>1. 0 \in T
  <2>1. Leads(1, 1) /\ 1 \in 1 .. 0 + 1 /\ 0 \in 0 .. n - 1
    OBVIOUS
  <2> QED BY <2>1
<1>2. ASSUME NEW k \in 0 .. (n - 1) - 1, k \in T
      PROVE  k + 1 \in T
  <2>1. PICK i \in 1 .. k + 1 : Leads(i, k + 1)
    BY <1>2
  <2>2. /\ k + 1 \in 0 .. n - 1 /\ i \in 1 .. k + 2 /\ k + 2 \in 1 .. k + 2
        /\ \A j \in 1 .. k + 2 : s[j] \in Int /\ (j = k + 2 \/ j \in 1 .. k + 1)
        /\ i < k + 2
    OBVIOUS
  <2>3. CASE s[i] >= s[k + 2]
    <3>1. Leads(i, k + 2)
      BY <2>1, <2>2, <2>3
    <3> QED BY <3>1, <2>2
  <2>4. CASE ~(s[i] >= s[k + 2])
    <3>1. ASSUME NEW j \in 1 .. k + 2
          PROVE  s[k + 2] > s[j] \/ (s[k + 2] = s[j] /\ k + 2 <= j)
      <4>1. CASE j = k + 2
        BY <4>1, <2>2
      <4>2. CASE j \in 1 .. k + 1
        <5>1. s[i] >= s[j]
          BY <2>1, <4>2, <2>2
        <5> QED BY <5>1, <2>4, <2>2
      <4> QED BY <4>1, <4>2, <2>2
    <3>2. Leads(k + 2, k + 2)
      BY <3>1
    <3> QED BY <3>2, <2>2
  <2> QED BY <2>3, <2>4
<1>3. n - 1 \in Nat /\ n - 1 \in 0 .. n - 1 /\ (n - 1) + 1 = n
  OBVIOUS
<1>4. \A k \in 0 .. n - 1 : k \in T
  <2> HIDE DEF T
  <2> QED BY <1>1, <1>2, <1>3, UpTo
<1> QED BY <1>3, <1>4

\* The exemplar to be replaced is one of them, and none is nearer the centroid.
LEMMA MostRedundantLeads ==
  ASSUME NEW vp, vp.exemplars \in Seq(Vectors), vp.exemplars # <<>>, vp.centroid \in Vectors
  PROVE  /\ MostRedundant(vp) \in 1 .. Len(vp.exemplars)
         /\ \A j \in 1 .. Len(vp.exemplars) :
              Dot(vp.exemplars[j], vp.centroid)
                <= Dot(vp.exemplars[MostRedundant(vp)], vp.centroid)
<1> DEFINE es == vp.exemplars
           s == [i \in 1 .. Len(es) |-> Dot(es[i], vp.centroid)]
<1>1. Len(es) \in Nat \ {0} /\ DOMAIN es = 1 .. Len(es) /\ \A i \in 1 .. Len(es) : es[i] \in Vectors
  <2>1. Len(es) \in Nat /\ Len(es) # 0
    OBVIOUS
  <2> QED BY <2>1
<1>2. \A i \in 1 .. Len(es) : s[i] \in Int
  BY <1>1, DotInt
<1>3. \E i \in 1 .. Len(es) : \A j \in 1 .. Len(es) : s[i] > s[j] \/ (s[i] = s[j] /\ i <= j)
  <2> HIDE DEF s
  <2> QED BY <1>1, <1>2, FirstOfGreatest
<1>4. \E i \in DOMAIN es :
        \A j \in DOMAIN es :
          LET si == Dot(es[i], vp.centroid)
              sj == Dot(es[j], vp.centroid)
          IN  si > sj \/ (si = sj /\ i <= j)
  BY <1>1, <1>3
<1>5. /\ MostRedundant(vp) \in DOMAIN es
      /\ \A j \in DOMAIN es :
           LET si == Dot(es[MostRedundant(vp)], vp.centroid)
               sj == Dot(es[j], vp.centroid)
           IN  si > sj \/ (si = sj /\ MostRedundant(vp) <= j)
  BY <1>4 DEF MostRedundant
<1>6. \A j \in 1 .. Len(es) : Dot(es[j], vp.centroid) \in Int
  BY <1>1, DotInt
<1>7. MostRedundant(vp) \in 1 .. Len(es)
  BY <1>1, <1>5
<1>8. ASSUME NEW j \in 1 .. Len(es)
      PROVE  Dot(es[j], vp.centroid) <= Dot(es[MostRedundant(vp)], vp.centroid)
  <2> DEFINE a == Dot(es[MostRedundant(vp)], vp.centroid)
             b == Dot(es[j], vp.centroid)
  <2>1. a > b \/ a = b
    BY <1>1, <1>5
  <2>2. a \in Int /\ b \in Int
    BY <1>6, <1>7
  <2> HIDE DEF a, b
  <2>3. b <= a
    BY <2>1, <2>2
  <2> QED BY <2>3 DEF a, b
<1> QED BY <1>7, <1>8

\* One more exemplar: joined below the cap, in the place of another at it.
LEMMA AddOne ==
  ASSUME NEW vp \in Drafts, Len(vp.exemplars) <= MAX_EXEMPLARS, NEW e \in Embeddings
  PROVE  LET vq == add_exemplar(vp, e)
         IN  /\ vq \in Drafts
             /\ Len(vq.exemplars) \in 1 .. MAX_EXEMPLARS
             /\ vq.centroid = vp.centroid
<1> DEFINE es == vp.exemplars
<1>1. es \in Seq(Embeddings) /\ vp.centroid \in Vectors \cup {NoCentroid} /\ Len(es) \in Nat
  BY DEF Drafts
<1>2. MAX_EXEMPLARS \in Nat \ {0} /\ Embeddings \subseteq Vectors
  BY ExemplarsAssumption
<1>3. CASE Len(es) < MAX_EXEMPLARS
  <2>1. Append(es, e) \in Seq(Embeddings) /\ Len(Append(es, e)) = Len(es) + 1
    BY <1>1
  <2>2. add_exemplar(vp, e) = [vp EXCEPT !.exemplars = Append(es, e)]
    BY <1>3 DEF add_exemplar
  <2>3. add_exemplar(vp, e) = [exemplars |-> Append(es, e), centroid |-> vp.centroid]
    BY <2>2 DEF Drafts
  <2>4. Len(es) + 1 \in 1 .. MAX_EXEMPLARS
    BY <1>1, <1>2, <1>3
  <2> HIDE DEF es
  <2> QED BY <2>1, <2>3, <2>4, <1>1 DEF Drafts
<1>4. CASE ~(Len(es) < MAX_EXEMPLARS)
  <2>0. Len(es) = MAX_EXEMPLARS /\ es # <<>>
    BY <1>1, <1>2, <1>4
  <2>1. CASE vp.centroid = NoCentroid
    <3>1. add_exemplar(vp, e) = vp
      BY <1>4, <2>1 DEF add_exemplar
    <3> QED BY <3>1, <2>0, <1>1, <1>2
  <2>2. CASE vp.centroid # NoCentroid
    <3>1. vp.centroid \in Vectors /\ es \in Seq(Vectors)
      BY <2>2, <1>1, <1>2
    <3>2. MostRedundant(vp) \in 1 .. Len(es)
      BY <3>1, <2>0, MostRedundantLeads
    <3>3. [es EXCEPT ![MostRedundant(vp)] = e] \in Seq(Embeddings)
          /\ Len([es EXCEPT ![MostRedundant(vp)] = e]) = Len(es)
      BY <1>1, <3>2
    <3>4. add_exemplar(vp, e) = [vp EXCEPT !.exemplars = [es EXCEPT ![MostRedundant(vp)] = e]]
      BY <1>4, <2>2 DEF add_exemplar
    <3> QED BY <3>3, <3>4, <2>0, <1>1, <1>2 DEF Drafts
  <2> QED BY <2>1, <2>2
<1> QED BY <1>3, <1>4

\* The voiceprints on the way through the loop over es.
IsAdding(f, vp, es, n) ==
  f = [k \in 0 .. n |-> IF k = 0 THEN vp ELSE add_exemplar(f[k - 1], es[k])]

LEMMA AddingExists == ASSUME NEW vp, NEW es, NEW n \in Nat PROVE \E f : IsAdding(f, vp, es, n)
<1> DEFINE T == {m \in 0 .. n : \E f : IsAdding(f, vp, es, m)}
<1>1. 0 \in T
  <2> DEFINE f == [k \in 0 .. 0 |-> vp]
  <2>1. f = [k \in 0 .. 0 |-> IF k = 0 THEN vp ELSE add_exemplar(f[k - 1], es[k])]
    OBVIOUS
  <2>2. IsAdding(f, vp, es, 0)
    BY <2>1 DEF IsAdding
  <2> QED BY <2>2
<1>2. ASSUME NEW m \in 0 .. n - 1, m \in T
      PROVE  m + 1 \in T
  <2>1. PICK f : IsAdding(f, vp, es, m)
    BY <1>2
  <2> DEFINE g == [k \in 0 .. m + 1 |-> IF k = m + 1 THEN add_exemplar(f[m], es[k]) ELSE f[k]]
  <2>2. ASSUME NEW k \in 0 .. m + 1
        PROVE  g[k] = IF k = 0 THEN vp ELSE add_exemplar(g[k - 1], es[k])
    <3>1. CASE k = m + 1
      <4>1. k # 0 /\ k - 1 = m /\ m \in 0 .. m + 1 /\ m # m + 1
        BY <3>1
      <4> QED BY <3>1, <4>1
    <3>2. CASE k # m + 1
      <4>1. k \in 0 .. m
        BY <3>2
      <4>2. f[k] = IF k = 0 THEN vp ELSE add_exemplar(f[k - 1], es[k])
        BY <2>1, <4>1 DEF IsAdding
      <4>3. k # 0 => k - 1 \in 0 .. m + 1 /\ k - 1 # m + 1
        BY <4>1
      <4> QED BY <3>2, <4>2, <4>3
    <3> QED BY <3>1, <3>2
  <2>3. IsAdding(g, vp, es, m + 1)
    <3>1. g = [k \in 0 .. m + 1 |-> g[k]]
      OBVIOUS
    <3> HIDE DEF g
    <3> QED BY <2>2, <3>1 DEF IsAdding
  <2>4. m + 1 \in 0 .. n
    OBVIOUS
  <2> HIDE DEF g
  <2> QED BY <2>3, <2>4
<1> HIDE DEF T
<1>3. \A k \in 0 .. n : k \in T
  BY <1>1, <1>2, UpTo
<1> QED BY <1>3 DEF T

\* What the loop computes, as the end of the steps that lead to it.
LEMMA AddAllSteps ==
  ASSUME NEW vp, NEW es, Len(es) \in Nat
  PROVE  \E f : /\ f[0] = vp
                /\ \A k \in 1 .. Len(es) : f[k] = add_exemplar(f[k - 1], es[k])
                /\ AddAll(vp, es) = f[Len(es)]
<1> DEFINE f == CHOOSE f : IsAdding(f, vp, es, Len(es))
<1>1. IsAdding(f, vp, es, Len(es))
  BY AddingExists
<1>2. AddAll(vp, es) = f[Len(es)]
  BY DEF AddAll, IsAdding
<1> HIDE DEF f
<1>3. f[0] = vp /\ \A k \in 1 .. Len(es) : f[k] = add_exemplar(f[k - 1], es[k])
  BY <1>1 DEF IsAdding
<1> QED BY <1>2, <1>3

\* The loop leaves one to MAX_EXEMPLARS exemplars if it is handed any.
LEMMA AddAllDraft ==
  ASSUME NEW vp \in Drafts, Len(vp.exemplars) <= MAX_EXEMPLARS,
         NEW es \in Seq(Embeddings), es # <<>>
  PROVE  /\ AddAll(vp, es) \in Drafts
         /\ Len(AddAll(vp, es).exemplars) \in 1 .. MAX_EXEMPLARS
<1> DEFINE n == Len(es)
<1>1. n \in Nat /\ n # 0 /\ \A k \in 1 .. n : es[k] \in Embeddings
  OBVIOUS
<1>2. PICK f : /\ f[0] = vp
               /\ \A k \in 1 .. n : f[k] = add_exemplar(f[k - 1], es[k])
               /\ AddAll(vp, es) = f[n]
  BY <1>1, AddAllSteps
<1> HIDE DEF n
<1> DEFINE T == {k \in 0 .. n : /\ f[k] \in Drafts /\ Len(f[k].exemplars) <= MAX_EXEMPLARS
                                /\ k # 0 => Len(f[k].exemplars) \in 1 .. MAX_EXEMPLARS}
<1>3. 0 \in T
  BY <1>1, <1>2
<1>4. ASSUME NEW k \in 0 .. n - 1, k \in T
      PROVE  k + 1 \in T
  <2>1. k + 1 \in 1 .. n /\ (k + 1) - 1 = k /\ k + 1 \in 0 .. n
    BY <1>1
  <2>2. f[k + 1] = add_exemplar(f[k], es[k + 1]) /\ es[k + 1] \in Embeddings
    BY <1>1, <1>2, <2>1
  <2>3. f[k] \in Drafts /\ Len(f[k].exemplars) <= MAX_EXEMPLARS
    BY <1>4
  <2>4. f[k + 1] \in Drafts /\ Len(f[k + 1].exemplars) \in 1 .. MAX_EXEMPLARS
    BY <2>2, <2>3, AddOne
  <2>5. Len(f[k + 1].exemplars) <= MAX_EXEMPLARS
    BY <2>4, ExemplarsAssumption
  <2> QED BY <2>1, <2>4, <2>5
<1>5. \A k \in 0 .. n : k \in T
  <2> HIDE DEF T
  <2> QED BY <1>1, <1>3, <1>4, UpTo
<1>6. n \in T
  BY <1>1, <1>5
<1> QED BY <1>1, <1>2, <1>6

\* Within the cap, a new voiceprint gets the exemplars as they are.
LEMMA AddAllNew ==
  ASSUME NEW es \in Seq(Embeddings), Len(es) <= MAX_EXEMPLARS
  PROVE  AddAll(New, es) = [exemplars |-> es, centroid |-> NoCentroid]
<1> DEFINE n == Len(es)
           Upto(k) == [exemplars |-> SubSeq(es, 1, k), centroid |-> NoCentroid]
<1>1. n \in Nat /\ n <= MAX_EXEMPLARS /\ \A k \in 1 .. n : es[k] \in Embeddings
  OBVIOUS
<1>2. PICK f : /\ f[0] = New
               /\ \A k \in 1 .. n : f[k] = add_exemplar(f[k - 1], es[k])
               /\ AddAll(New, es) = f[n]
  BY <1>1, AddAllSteps
<1> DEFINE T == {k \in 0 .. n : f[k] = Upto(k)}
<1>3. 0 \in T
  <2>1. SubSeq(es, 1, 0) = <<>>
    OBVIOUS
  <2> QED BY <1>1, <1>2, <2>1 DEF New
<1>4. ASSUME NEW k \in 0 .. n - 1, k \in T
      PROVE  k + 1 \in T
  <2>1. k + 1 \in 1 .. n /\ (k + 1) - 1 = k /\ k + 1 \in 0 .. n /\ k \in Nat
    BY <1>1
  <2>2. f[k + 1] = add_exemplar(Upto(k), es[k + 1])
    BY <1>2, <1>4, <2>1
  <2>3. Len(SubSeq(es, 1, k)) = k /\ k < MAX_EXEMPLARS
    BY <1>1, <2>1, ExemplarsAssumption
  <2>4. add_exemplar(Upto(k), es[k + 1]) = [Upto(k) EXCEPT !.exemplars = Append(@, es[k + 1])]
    BY <2>3 DEF add_exemplar
  <2>5. Append(SubSeq(es, 1, k), es[k + 1]) = SubSeq(es, 1, k + 1)
    BY <1>1, <2>1
  <2>6. f[k + 1] = Upto(k + 1)
    BY <2>2, <2>4, <2>5
  <2> QED BY <2>1, <2>6
<1>5. \A k \in 0 .. n : k \in T
  <2> HIDE DEF T
  <2> QED BY <1>1, <1>3, <1>4, UpTo
<1>6. f[n] = Upto(n)
  <2>1. n \in T
    BY <1>1, <1>5
  <2> QED BY <2>1
<1>7. SubSeq(es, 1, n) = es
  OBVIOUS
<1> QED BY <1>2, <1>6, <1>7

LEMMA RecomputeKept ==
  ASSUME NEW vp \in Drafts, Len(vp.exemplars) \in 1 .. MAX_EXEMPLARS
  PROVE  LET vq == recompute_centroid(vp)
         IN  /\ Kept(vq) /\ vq.exemplars = vp.exemplars
             /\ vq = [exemplars |-> vp.exemplars, centroid |-> Total(vp.exemplars)]
<1> DEFINE es == vp.exemplars
<1>1. es \in Seq(Embeddings) /\ es # <<>>
  BY ExemplarsAssumption DEF Drafts
<1>2. Total(es) \in Vectors
  <2>1. es \in Seq(Vectors)
    BY <1>1, ExemplarsAssumption
  <2> QED BY <2>1, TotalVector
<1>3. recompute_centroid(vp) = [exemplars |-> es, centroid |-> Total(es)]
  BY <1>1 DEF recompute_centroid, Drafts
<1> HIDE DEF es
<1> QED BY <1>1, <1>2, <1>3 DEF Kept, es

LEMMA NewDraft == New \in Drafts /\ Len(New.exemplars) <= MAX_EXEMPLARS
BY ExemplarsAssumption DEF New, Drafts

LEMMA FromExemplarsKept ==
  ASSUME NEW es \in Seq(Embeddings), es # <<>>
  PROVE  /\ Kept(from_exemplars(es))
         /\ Len(es) <= MAX_EXEMPLARS =>
              from_exemplars(es) = [exemplars |-> es, centroid |-> Total(es)]
<1>1. AddAll(New, es) \in Drafts /\ Len(AddAll(New, es).exemplars) \in 1 .. MAX_EXEMPLARS
  BY NewDraft, AddAllDraft
<1>2. /\ Kept(from_exemplars(es))
      /\ from_exemplars(es) = [exemplars |-> AddAll(New, es).exemplars,
                               centroid |-> Total(AddAll(New, es).exemplars)]
  BY <1>1, RecomputeKept DEF from_exemplars
<1>3. Len(es) <= MAX_EXEMPLARS => AddAll(New, es).exemplars = es
  BY AddAllNew
<1> QED BY <1>2, <1>3

-----------------------------------------------------------------------------
(* Why a retry is accepted *)

\* e passes the gate against c, and c is not short, or e reaches far enough for
\* what may take its place.
Fits(e, c) == /\ Dot(e, c) > 0
              /\ 4 * (Dot(e, c) * Dot(e, c)) >= Dot(e, e) * Dot(c, c)
              /\ \/ 4 * Dot(c, c) >= Dot(e, e)
                 \/ 8 * Dot(e, c) >= Dot(e, e) + 4 * Dot(c, c)

Holds(vp) == \E i \in 1 .. Len(vp.exemplars) : Fits(vp.exemplars[i], vp.centroid)

LEMMA FitsConsistent ==
  ASSUME NEW vp, NEW e \in Vectors, vp.centroid \in Vectors, Fits(e, vp.centroid)
  PROVE  Consistent(vp, e)
<1>1. Dot(e, vp.centroid) \in Int /\ Dot(e, e) \in Int /\ Dot(vp.centroid, vp.centroid) \in Int
  BY DotInt
<1>2. \A d \in Int : 4 * d * d = 4 * (d * d)
  OBVIOUS
<1> QED BY <1>1, <1>2 DEF Fits, Consistent

\* The first clip is its own centroid.
LEMMA FirstHolds ==
  ASSUME NEW e \in Embeddings
  PROVE  /\ Kept(from_exemplars(<<e>>))
         /\ Holds(from_exemplars(<<e>>))
         /\ Consistent(from_exemplars(<<e>>), e)
<1> DEFINE vq == from_exemplars(<<e>>)
<1>1. e \in Vectors /\ Dot(e, e) > 0
  BY ExemplarsAssumption
<1>2. <<e>> \in Seq(Embeddings) /\ <<e>> # <<>> /\ Len(<<e>>) = 1 /\ <<e>>[1] = e
  OBVIOUS
<1>3. Kept(vq) /\ vq = [exemplars |-> <<e>>, centroid |-> e]
  <2>1. 1 <= MAX_EXEMPLARS
    BY ExemplarsAssumption
  <2>2. Kept(vq) /\ vq = [exemplars |-> <<e>>, centroid |-> Total(<<e>>)]
    BY <1>2, <2>1, FromExemplarsKept
  <2> QED BY <1>1, <2>2, TotalOne
<1> HIDE DEF vq
<1>4. Fits(e, e)
  <2>1. Dot(e, e) \in Int
    BY <1>1, DotInt
  <2>2. \A n \in Int : n > 0 => 4 * (n * n) >= n * n /\ 4 * n >= n
    OBVIOUS
  <2> QED BY <1>1, <2>1, <2>2 DEF Fits
<1>5. Holds(vq) /\ Consistent(vq, e)
  <2>1. 1 \in 1 .. Len(vq.exemplars) /\ vq.exemplars[1] = e /\ vq.centroid = e
    BY <1>2, <1>3
  <2> QED BY <1>1, <1>4, <2>1, FitsConsistent DEF Holds
<1> QED BY <1>3, <1>5 DEF vq

\* A consistent clip fits the centroid that its own enrolment computes.
LEMMA StrengthenedHolds ==
  ASSUME NEW vp, Kept(vp), Holds(vp), NEW e \in Embeddings, Consistent(vp, e)
  PROVE  LET vq == recompute_centroid(add_exemplar(vp, e))
         IN  Kept(vq) /\ Holds(vq) /\ Consistent(vq, e)
<1> DEFINE es == vp.exemplars
           c == vp.centroid
           vq == recompute_centroid(add_exemplar(vp, e))
           ex == vq.exemplars
           cx == vq.centroid
           N == Dot(e, e)
           A == Dot(c, c)
           d == Dot(e, c)
<1>1. /\ es \in Seq(Embeddings) /\ es \in Seq(Vectors) /\ c \in Vectors /\ c = Total(es)
      /\ Len(es) \in 1 .. MAX_EXEMPLARS /\ e \in Vectors
      /\ \A i \in 1 .. Len(es) : es[i] \in Embeddings
  BY ExemplarsAssumption DEF Kept
<1>2. /\ N \in Nat \ {0} /\ A \in Nat /\ d \in Int
      /\ \A a \in Embeddings : a \in Vectors /\ Dot(a, a) = N
  <2>1. N \in Nat /\ N > 0
    BY <1>1, DotSelf, ExemplarsAssumption
  <2>2. A \in Nat /\ d \in Int
    BY <1>1, DotSelf, DotInt
  <2>3. \A a \in Embeddings : a \in Vectors /\ Dot(a, a) = N
    BY ExemplarsAssumption
  <2> QED BY <2>1, <2>2, <2>3
<1>3. d > 0 /\ 4 * d * d >= N * A /\ 4 * (d * d) >= N * A
  <2>1. d > 0 /\ 4 * d * d >= N * A
    BY DEF Consistent
  <2>2. 4 * d * d = 4 * (d * d)
    BY <1>2
  <2> QED BY <2>1, <2>2
<1>4. /\ vp \in Drafts
      /\ Kept(vq) /\ ex = add_exemplar(vp, e).exemplars /\ cx = Total(ex)
      /\ cx \in Vectors /\ c # NoCentroid
  <2>1. vp \in Drafts /\ Len(es) <= MAX_EXEMPLARS
    BY <1>1, ExemplarsAssumption DEF Kept, Drafts
  <2>2. add_exemplar(vp, e) \in Drafts /\ Len(add_exemplar(vp, e).exemplars) \in 1 .. MAX_EXEMPLARS
    BY <2>1, AddOne
  <2>3. Kept(vq) /\ ex = add_exemplar(vp, e).exemplars
    BY <2>2, RecomputeKept
  <2> HIDE DEF vq
  <2>4. cx = Total(ex) /\ cx \in Vectors
    BY <2>3 DEF Kept
  <2>5. c # NoCentroid
    BY <1>1, ExemplarsAssumption
  <2> QED BY <2>1, <2>3, <2>4, <2>5
<1> HIDE DEF vq
<1>5. Fits(e, cx) /\ \E i \in 1 .. Len(ex) : ex[i] = e
  <2>1. CASE Len(es) < MAX_EXEMPLARS
    <3>1. ex = Append(es, e)
      BY <1>4, <2>1 DEF add_exemplar, Drafts
    <3>2. Len(es) + 1 \in 1 .. Len(ex) /\ ex[Len(es) + 1] = e
      BY <1>1, <3>1
    <3>3. \A k \in 1 .. Dim : cx[k] = c[k] + e[k]
      BY <1>1, <1>4, <3>1, TotalAppend
    <3>4. Dot(e, cx) = d + N /\ Dot(cx, cx) = A + 2 * Dot(c, e) + N /\ Dot(c, e) = d
      <4>1. c \in Vectors /\ e \in Vectors /\ cx \in Vectors
        BY <1>1, <1>4
      <4>2. Dot(e, cx) = Dot(e, c) + Dot(e, e)
        BY <4>1, <3>3, DotPlus
      <4>3. Dot(cx, cx) = Dot(c, c) + 2 * Dot(c, e) + Dot(e, e)
        BY <4>1, <3>3, SquarePlus
      <4>4. Dot(c, e) = Dot(e, c)
        BY <4>1, DotSym
      <4> QED BY <4>2, <4>3, <4>4
    <3> HIDE DEF N, A, d
    <3>5. /\ d + N > 0
          /\ 4 * (d + N) * (d + N) >= N * (A + 2 * d + N)
          /\ 4 * (A + 2 * d + N) >= N
      BY <1>2, <1>3, GateWhenJoining
    <3>6. 4 * (d + N) * (d + N) = 4 * ((d + N) * (d + N))
      BY <1>2
    <3> QED BY <3>2, <3>4, <3>5, <3>6 DEF Fits, N
  <2>2. CASE ~(Len(es) < MAX_EXEMPLARS)
    <3> DEFINE r == MostRedundant(vp)
               b == es[r]
               m == Dot(b, c)
               x == N - Dot(e, b)
               y == Dot(e, cx)
               B == Dot(cx, cx)
    <3>1. /\ r \in 1 .. Len(es) /\ b \in Embeddings /\ b \in Vectors
          /\ \A j \in 1 .. Len(es) : Dot(es[j], c) <= m
      <4>1. es # <<>>
        BY <1>1
      <4>2. /\ r \in 1 .. Len(es)
            /\ \A j \in 1 .. Len(es) : Dot(es[j], c) <= m
        BY <1>1, <4>1, MostRedundantLeads
      <4> QED BY <1>1, <1>2, <4>2
    <3>2. ex = [es EXCEPT ![r] = e]
      BY <1>4, <2>2 DEF add_exemplar, Drafts
    <3> HIDE DEF r
    <3>3. r \in 1 .. Len(ex) /\ ex[r] = e
      BY <1>1, <3>1, <3>2
    <3>4. \A k \in 1 .. Dim : cx[k] = c[k] - b[k] + e[k]
      BY <1>1, <1>4, <3>1, <3>2, TotalReplace
    <3> DEFINE w == [k \in 1 .. Dim |-> c[k] - b[k]]
    <3>5. /\ w \in Vectors
          /\ \A k \in 1 .. Dim : c[k] = w[k] + b[k]
          /\ \A k \in 1 .. Dim : cx[k] = w[k] + e[k]
      <4>1. \A k \in 1 .. Dim : c[k] \in Int /\ b[k] \in Int
        BY <1>1, <3>1 DEF Vectors
      <4> QED BY <3>4, <4>1 DEF Vectors
    <3> HIDE DEF w, b
    <3>6. /\ d = Dot(e, w) + Dot(e, b) /\ y = Dot(e, w) + N
          /\ m = Dot(b, w) + N
          /\ A = Dot(w, w) + 2 * Dot(w, b) + N
          /\ B = Dot(w, w) + 2 * Dot(w, e) + N
      <4>1. Dot(b, b) = N
        BY <1>2, <3>1
      <4>a. b \in Vectors /\ c \in Vectors /\ e \in Vectors /\ cx \in Vectors /\ w \in Vectors
        BY <1>1, <1>4, <3>1, <3>5
      <4>b. \A k \in 1 .. Dim : c[k] = w[k] + b[k]
        BY <3>5
      <4>c. \A k \in 1 .. Dim : cx[k] = w[k] + e[k]
        BY <3>5
      <4>2. Dot(e, c) = Dot(e, w) + Dot(e, b) /\ Dot(b, c) = Dot(b, w) + Dot(b, b)
        BY <4>a, <4>b, DotPlus
      <4>3. Dot(e, cx) = Dot(e, w) + Dot(e, e)
        BY <4>a, <4>c, DotPlus
      <4>4. Dot(c, c) = Dot(w, w) + 2 * Dot(w, b) + Dot(b, b)
        BY <4>a, <4>b, SquarePlus
      <4>5. Dot(cx, cx) = Dot(w, w) + 2 * Dot(w, e) + Dot(e, e)
        BY <4>a, <4>c, SquarePlus
      <4> QED BY <4>1, <4>2, <4>3, <4>4, <4>5
    <3>7. /\ Dot(w, b) = Dot(b, w) /\ Dot(w, e) = Dot(e, w)
          /\ Dot(w, w) \in Int /\ Dot(b, w) \in Int /\ Dot(e, w) \in Int /\ Dot(e, b) \in Int
          /\ Dot(e, b) <= N /\ B \in Nat /\ m \in Int /\ y \in Int
      <4>1. Dot(b, b) = Dot(e, e)
        BY <1>2, <3>1
      <4> QED BY <1>1, <1>4, <3>1, <3>5, <4>1, DotSym, DotInt, DotSelf, DotBound
    <3>8. PICK j \in 1 .. Len(es) : Fits(es[j], c)
      BY DEF Holds
    <3>9. m > 0 /\ 4 * (m * m) >= N * A /\ (4 * A >= N \/ 8 * m >= N + 4 * A)
      <4> DEFINE n == Dot(es[j], c)
      <4>1. n \in Int /\ n <= m /\ Dot(es[j], es[j]) = N
        BY <1>1, <1>2, <3>1, DotInt
      <4>2. n > 0 /\ 4 * (n * n) >= N * A /\ (4 * A >= N \/ 8 * n >= N + 4 * A)
        BY <3>8, <4>1 DEF Fits
      <4>a. m \in Int /\ N \in Nat /\ A \in Nat
        BY <1>2, <3>7
      <4> HIDE DEF n, m, N, A
      <4>3. m * m >= n * n
        <5> DEFINE g == m - n
        <5>1. g \in Nat /\ m = n + g
          BY <4>1, <4>a
        <5> HIDE DEF g
        <5>2. m * m = n * n + 2 * (n * g) + g * g /\ n * g >= 0 /\ g * g >= 0
          BY <5>1, <4>1, <4>2
        <5>3. n * n \in Int /\ n * g \in Int /\ g * g \in Int
          BY <5>1, <4>1
        <5> QED BY <5>2, <5>3
      <4>4. m * m \in Int /\ n * n \in Int /\ N * A \in Int
        BY <4>1, <4>a
      <4> QED BY <4>1, <4>2, <4>3, <4>4, <4>a
    <3>10. x \in Nat /\ y = d + x /\ B = A + 2 * y - 2 * m
      <4>1. N \in Nat
        BY <1>2
      <4> HIDE DEF N, A, d, m, y, B
      <4>2. x \in Nat
        BY <4>1, <3>7
      <4>3. y = d + x
        BY <4>1, <3>6, <3>7
      <4>4. B = A + 2 * y - 2 * m
        <5>1. \A p, q, s, n \in Int :
                p + 2 * q + n = (p + 2 * s + n) + 2 * (q + n) - 2 * (s + n)
          OBVIOUS
        <5>2. /\ B = Dot(w, w) + 2 * Dot(e, w) + N
              /\ A = Dot(w, w) + 2 * Dot(b, w) + N
          BY <3>6, <3>7
        <5>3. Dot(w, w) \in Int /\ Dot(e, w) \in Int /\ Dot(b, w) \in Int /\ N \in Int
          BY <3>7, <4>1
        <5>4. Dot(w, w) + 2 * Dot(e, w) + N
                = (Dot(w, w) + 2 * Dot(b, w) + N) + 2 * (Dot(e, w) + N) - 2 * (Dot(b, w) + N)
          BY <5>1, <5>3
        <5> QED BY <3>6, <5>2, <5>4
      <4> QED BY <4>2, <4>3, <4>4
    <3> HIDE DEF N, A, d, m, x, y, B
    <3>11. /\ y > 0 /\ 4 * (y * y) >= N * B
           /\ 4 * B >= N \/ 8 * y >= N + 4 * B
      BY <1>2, <1>3, <3>7, <3>9, <3>10, GateWhenReplacing
    <3>12. Fits(e, cx)
      BY <3>11 DEF Fits, N, B, y
    <3> QED BY <3>3, <3>12
  <2> QED BY <2>1, <2>2
<1>6. Holds(vq)
  BY <1>5 DEF Holds
<1>7. Consistent(vq, e)
  BY <1>1, <1>4, <1>5, FitsConsistent
<1> QED BY <1>4, <1>6, <1>7 DEF vq

-----------------------------------------------------------------------------
(* The invariant and its theorems *)

ProfilesKept == /\ profile # NoProfile => Kept(profile)
                /\ file # NoProfile => Kept(file)

\* What was enrolled, and nothing else, fits its own centroid; so does its file.
Gated == built = "enrolled" =>
           /\ profile # NoProfile => Holds(profile)
           /\ file # NoProfile => Holds(file)

ExemplarsInv == ProfilesKept /\ Gated /\ RetryAccepted

LEMMA ExemplarsInitInv == ExemplarsInit => ExemplarsInv
BY DEF ExemplarsInit, ExemplarsInv, ProfilesKept, Gated, RetryAccepted

LEMMA EnrollStep ==
  ASSUME ExemplarsInv, NEW e \in Embeddings, Enroll(e)
  PROVE  ExemplarsInv'
<1>1. file' = file /\ built' = built /\ last'.clip = e
  BY DEF Enroll, Did
<1>2. Kept(profile') /\ (built = "enrolled" => Holds(profile') /\ Consistent(profile', e))
  <2>1. CASE profile = NoProfile
    <3>1. profile' = from_exemplars(<<e>>)
      BY <2>1 DEF Enroll
    <3> QED BY <3>1, FirstHolds
  <2>2. CASE profile # NoProfile
    <3>1. Consistent(profile, e) /\ profile' = recompute_centroid(add_exemplar(profile, e))
      BY <2>2 DEF Enroll, Strengthened
    <3>2. Kept(profile)
      BY <2>2 DEF ExemplarsInv, ProfilesKept
    <3>3. Kept(profile')
      <4>1. profile \in Drafts /\ Len(profile.exemplars) <= MAX_EXEMPLARS
        BY <3>2, ExemplarsAssumption DEF Kept, Drafts
      <4>2. /\ add_exemplar(profile, e) \in Drafts
            /\ Len(add_exemplar(profile, e).exemplars) \in 1 .. MAX_EXEMPLARS
        BY <4>1, AddOne
      <4> QED BY <3>1, <4>2, RecomputeKept
    <3>4. CASE built = "enrolled"
      <4>1. Holds(profile)
        BY <2>2, <3>4 DEF ExemplarsInv, Gated
      <4> QED BY <3>1, <3>2, <4>1, StrengthenedHolds
    <3> QED BY <3>3, <3>4
  <2> QED BY <2>1, <2>2
<1>3. ProfilesKept'
  BY <1>1, <1>2 DEF ExemplarsInv, ProfilesKept
<1>4. Gated'
  BY <1>1, <1>2 DEF ExemplarsInv, Gated
<1>5. RetryAccepted'
  <2>1. (Consistent(profile, last.clip))' <=> Consistent(profile', e)
    BY <1>1 DEF Consistent
  <2> QED BY <1>1, <1>2, <2>1 DEF RetryAccepted
<1> QED BY <1>3, <1>4, <1>5 DEF ExemplarsInv

\* Where the last step is not an enrolment, RetryAccepted asks nothing.
LEMMA NotEnrolling ==
  ASSUME NEW kind, NEW clip, Did(kind, clip), kind # "enroll"
  PROVE  RetryAccepted'
BY DEF Did, RetryAccepted

LEMMA MintStep == ASSUME ExemplarsInv, Mint PROVE ExemplarsInv'
<1>0. PICK n \in 1 .. MAX_EXEMPLARS : \E es \in [1 .. n -> Embeddings] :
        built = "minted" /\ Did("mint", es[1]) /\ profile' = from_exemplars(es)
        /\ file' = file /\ built' = built
  BY DEF Mint
<1>1. PICK es \in [1 .. n -> Embeddings] :
        built = "minted" /\ Did("mint", es[1]) /\ profile' = from_exemplars(es)
        /\ file' = file /\ built' = built
  BY <1>0
<1>2. es \in Seq(Embeddings) /\ es # <<>>
  <2>1. n \in Nat /\ n # 0
    BY ExemplarsAssumption
  <2>2. es \in Seq(Embeddings) /\ Len(es) = n
    BY <2>1
  <2> QED BY <2>1, <2>2
<1>3. Kept(profile')
  BY <1>1, <1>2, FromExemplarsKept
<1>4. ProfilesKept' /\ Gated'
  BY <1>1, <1>3 DEF ExemplarsInv, ProfilesKept, Gated
<1>5. RetryAccepted'
  BY <1>1, NotEnrolling
<1> QED BY <1>4, <1>5 DEF ExemplarsInv

LEMMA ImportStep == ASSUME ExemplarsInv, Import PROVE ExemplarsInv'
<1>1. file # NoProfile /\ Did("import", NoClip) /\ file' = file
  BY DEF Import
<1>2. Kept(file) /\ file.exemplars \in Seq(Embeddings) /\ file.exemplars # <<>>
      /\ Len(file.exemplars) <= MAX_EXEMPLARS
  BY <1>1, ExemplarsAssumption DEF ExemplarsInv, ProfilesKept, Kept
<1>3. RetryAccepted'
  BY <1>1, NotEnrolling
<1>4. ProfilesKept' /\ Gated'
  <2>1. CASE profile = NoProfile
    <3>1. profile' = from_exemplars(file.exemplars) /\ built' = built
      BY <2>1 DEF Import
    <3>2. profile' = file
      <4>1. profile' = [exemplars |-> file.exemplars, centroid |-> Total(file.exemplars)]
        BY <1>2, <3>1, FromExemplarsKept
      <4> QED BY <1>2, <4>1 DEF Kept
    <3> QED BY <1>1, <3>1, <3>2 DEF ExemplarsInv, ProfilesKept, Gated
  <2>2. CASE profile # NoProfile
    <3>1. /\ profile' = recompute_centroid(AddAll(profile, file.exemplars))
          /\ built' # "enrolled"
      BY <2>2 DEF Import
    <3>2. profile \in Drafts /\ Len(profile.exemplars) <= MAX_EXEMPLARS
      BY <2>2, ExemplarsAssumption DEF ExemplarsInv, ProfilesKept, Kept, Drafts
    <3>3. Kept(profile')
      <4>1. /\ AddAll(profile, file.exemplars) \in Drafts
            /\ Len(AddAll(profile, file.exemplars).exemplars) \in 1 .. MAX_EXEMPLARS
        BY <1>2, <3>2, AddAllDraft
      <4> QED BY <3>1, <4>1, RecomputeKept
    <3> QED BY <1>1, <1>2, <3>1, <3>3 DEF ProfilesKept, Gated
  <2> QED BY <2>1, <2>2
<1> QED BY <1>3, <1>4 DEF ExemplarsInv

LEMMA ExemplarsInvariant == ExemplarsSpec => []ExemplarsInv
<1>1. ASSUME ExemplarsInv, [ExemplarsNext]_exemplarVars
      PROVE  ExemplarsInv'
  <2>1. ASSUME NEW e \in Embeddings, Enroll(e)
        PROVE  ExemplarsInv'
    BY <1>1, <2>1, EnrollStep
  <2>2. CASE Mint
    BY <1>1, <2>2, MintStep
  <2>3. CASE Export
    <3>1. Did("export", NoClip)
      BY <2>3 DEF Export
    <3>2. RetryAccepted'
      BY <3>1, NotEnrolling
    <3> QED BY <1>1, <2>3, <3>2 DEF ExemplarsInv, Export, ProfilesKept, Gated
  <2>4. CASE Forget
    <3>1. Did("forget", NoClip)
      BY <2>4 DEF Forget
    <3>2. RetryAccepted'
      BY <3>1, NotEnrolling
    <3> QED BY <1>1, <2>4, <3>2 DEF ExemplarsInv, Forget, ProfilesKept, Gated
  <2>5. CASE Import
    BY <1>1, <2>5, ImportStep
  <2>6. CASE UNCHANGED exemplarVars
    <3>1. profile' = profile /\ file' = file /\ built' = built /\ last' = last
      BY <2>6 DEF exemplarVars
    <3>2. RetryAccepted'
      BY <1>1, <3>1 DEF ExemplarsInv, RetryAccepted, Consistent
    <3> QED BY <1>1, <3>1, <3>2 DEF ExemplarsInv, ProfilesKept, Gated
  <2> QED BY <1>1, <2>1, <2>2, <2>3, <2>4, <2>5, <2>6 DEF ExemplarsNext
<1> QED BY <1>1, ExemplarsInitInv, PTL DEF ExemplarsSpec

\* Every stored voiceprint has the centroid of its own exemplars
\* (Voiceprint.recompute_centroid after every change), whatever was evicted or
\* merged before.
THEOREM CentroidDerived == ExemplarsSpec => []CentroidIsDerived
<1>1. ExemplarsInv => CentroidIsDerived
  BY DEF ExemplarsInv, ProfilesKept, Kept, CentroidIsDerived
<1> QED BY <1>1, ExemplarsInvariant, PTL

\* enroll's gate accepts a clip again that it has just accepted, for embeddings
\* of any dimension and any cap: also when the clip replaced the exemplar that
\* held the centroid.
THEOREM RetriesAccepted == ExemplarsSpec => []RetryAccepted
<1>1. ExemplarsInv => RetryAccepted
  BY DEF ExemplarsInv
<1> QED BY <1>1, ExemplarsInvariant, PTL

\* A voiceprint built by enrolments, restored or not, never shuts its owner out:
\* one of its own exemplars would still pass enroll's gate.
THEOREM EnrolledStaysOpen ==
  ExemplarsSpec => [](built = "enrolled" /\ profile # NoProfile =>
                        \E i \in 1 .. Len(profile.exemplars) :
                          Consistent(profile, profile.exemplars[i]))
<1>1. ASSUME ExemplarsInv, built = "enrolled", profile # NoProfile
      PROVE  \E i \in 1 .. Len(profile.exemplars) : Consistent(profile, profile.exemplars[i])
  <2>1. PICK i \in 1 .. Len(profile.exemplars) : Fits(profile.exemplars[i], profile.centroid)
    BY <1>1 DEF ExemplarsInv, Gated, Holds
  <2>2. profile.centroid \in Vectors /\ profile.exemplars[i] \in Vectors
    BY <1>1, ExemplarsAssumption DEF ExemplarsInv, ProfilesKept, Kept
  <2> QED BY <2>1, <2>2, FitsConsistent
<1> QED BY <1>1, ExemplarsInvariant, PTL

\* An import after a forget restores the exported voiceprint, exemplar by
\* exemplar (Voiceprint.from_exemplars on what _export_payload wrote).
THEOREM RestoresExactly == ExemplarsSpec => RestoreIsExact
<1>1. ASSUME ExemplarsInv, [ExemplarsNext]_exemplarVars
      PROVE  [profile = NoProfile /\ last'.op = "import" => profile' = file]_exemplarVars
  <2>1. SUFFICES ASSUME exemplarVars' # exemplarVars, ExemplarsNext,
                        profile = NoProfile, last'.op = "import"
                 PROVE  profile' = file
    BY <1>1
  <2>2. Import
    <3>1. \A e \in Embeddings : ~Enroll(e)
      BY <2>1 DEF Enroll, Did
    <3>2. ~Mint
      BY <2>1 DEF Mint, Did
    <3>3. ~Export /\ ~Forget
      BY <2>1 DEF Export, Forget
    <3> QED BY <2>1, <3>1, <3>2, <3>3 DEF ExemplarsNext
  <2>3. Kept(file) /\ profile' = from_exemplars(file.exemplars)
    BY <1>1, <2>1, <2>2 DEF Import, ExemplarsInv, ProfilesKept
  <2>4. file.exemplars \in Seq(Embeddings) /\ file.exemplars # <<>>
        /\ Len(file.exemplars) <= MAX_EXEMPLARS
    BY <2>3, ExemplarsAssumption DEF Kept
  <2>5. profile' = [exemplars |-> file.exemplars, centroid |-> Total(file.exemplars)]
    BY <2>3, <2>4, FromExemplarsKept
  <2> QED BY <2>3, <2>5 DEF Kept
<1> QED BY <1>1, ExemplarsInvariant, PTL DEF ExemplarsSpec, RestoreIsExact
=============================================================================
