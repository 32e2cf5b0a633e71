-------------------------- MODULE RateLimiter_proofs --------------------------
(***************************************************************************)
(* Theorems of RateLimiter, for any number of keys and threads, any budget, *)
(* any window and any bound on the clock.                                  *)
(*                                                                         *)
(* The properties speak of the grants alone, so the invariant must say     *)
(* what an entry of `hits' remembers of them: a window of count c was      *)
(* opened by the c-th grant from the end -- by the max-th once the budget  *)
(* is spent -- and windows opened earlier are already far apart.           *)
(***************************************************************************)
EXTENDS RateLimiter, TLAPS

\* The grants a key has had in its current window.
Used(hit) == IF hit.count <= max THEN hit.count ELSE max

\* The index of the grant that opened the window.
Opening(hit, granted) == Len(granted) - Used(hit) + 1

\* Two of the grants lo..hi are a whole window apart.
Spread(granted, lo, hi) ==
    \E a, b \in lo..hi : /\ a < b /\ b <= Len(granted)
                         /\ granted[b] - granted[a] >= window

\* What an entry of `hits' says of the grants of its key.
KeyInv(hit, granted) ==
    /\ Used(hit) <= Len(granted)
    /\ granted[Opening(hit, granted)] = hit.start
    /\ \A i \in 1..(Opening(hit, granted) - max) : Spread(granted, i, i + 2 * max)

HitsRemember ==
    \A k \in Key : IF hits[k] = None THEN grants[k] = <<>> ELSE KeyInv(hits[k], grants[k])

LimiterInv == LimiterTypeOK /\ HitsRemember /\ RefusedOnlyWhenSpent

-----------------------------------------------------------------------------
(* One key: what counting a call does to KeyInv. *)

LEMMA UsedRange ==
    ASSUME NEW hit \in Hit
    PROVE  Used(hit) \in 1..max
BY LimiterAssumption DEF Used, Hit

\* Grants do not come closer when another follows.
LEMMA SpreadKept ==
    ASSUME NEW granted \in Seq(Nat), NEW now \in Nat, NEW lo \in Nat \ {0}, NEW hi \in Nat,
           Spread(granted, lo, hi)
    PROVE  Spread(Append(granted, now), lo, hi)
<1>1. PICK a, b \in lo..hi : a < b /\ b <= Len(granted) /\ granted[b] - granted[a] >= window
  BY DEF Spread
<1> DEFINE after == Append(granted, now)
<1>2. /\ Len(granted) \in Nat /\ Len(after) = Len(granted) + 1
      /\ after[a] = granted[a] /\ after[b] = granted[b]
  BY <1>1
<1> HIDE DEF after
<1>3. a < b /\ b <= Len(after) /\ after[b] - after[a] >= window
  BY <1>1, <1>2
<1>4. Spread(after, lo, hi)
  BY <1>3 DEF Spread
<1> QED BY <1>4 DEF after

LEMMA FirstGrant ==
    ASSUME NEW now \in Nat
    PROVE  KeyInv([start |-> now, count |-> 1], Append(<<>>, now))
<1> DEFINE hit == [start |-> now, count |-> 1]
<1>1. Used(hit) = 1 /\ hit.start = now
  BY LimiterAssumption DEF Used
<1> DEFINE after == Append(<<>>, now)
<1>2. Len(after) = 1 /\ after[1] = now
  OBVIOUS
<1> HIDE DEF hit, after
<1>3. Opening(hit, after) = 1
  BY <1>1, <1>2 DEF Opening
<1>4. KeyInv(hit, after)
  BY <1>1, <1>2, <1>3, LimiterAssumption DEF KeyInv
<1> QED BY <1>4 DEF hit, after

\* The grant that opens the next window: the one that opened the last window
\* is a whole window older, and at most max grants ago.
LEMMA NextWindowGrant ==
    ASSUME NEW hit \in Hit, NEW granted \in Seq(Nat), NEW now \in Nat,
           KeyInv(hit, granted), now - hit.start >= window
    PROVE  KeyInv([start |-> now, count |-> 1], Append(granted, now))
<1> DEFINE new == [start |-> now, count |-> 1]
           after == Append(granted, now)
           n == Len(granted)
           from == Opening(hit, granted)
<1>1. Used(new) = 1 /\ new.start = now
  BY LimiterAssumption DEF Used
<1>2. /\ n \in Nat /\ Len(after) = n + 1 /\ after[n + 1] = now
      /\ \A i \in 1..n : after[i] = granted[i]
  OBVIOUS
<1>3. /\ from \in 1..n /\ from + max > n /\ granted[from] = hit.start
      /\ hit.start \in Nat
  <2>1. Used(hit) \in 1..max /\ max \in Nat
    BY UsedRange, LimiterAssumption
  <2>2. Used(hit) <= n /\ granted[from] = hit.start /\ hit.start \in Nat
    BY DEF KeyInv, Hit
  <2>3. from = n - Used(hit) + 1
    BY DEF Opening
  <2> HIDE DEF from, n
  <2> QED BY <1>2, <2>1, <2>2, <2>3
<1>4. \A i \in 1..(from - max) : Spread(granted, i, i + 2 * max)
  BY DEF KeyInv
<1> HIDE DEF new, from, n
<1>5. Opening(new, after) = n + 1
  BY <1>1, <1>2 DEF Opening
<1>6. ASSUME NEW i \in 1..(n + 1 - max)
      PROVE  Spread(after, i, i + 2 * max)
  <2>1. i \in Nat \ {0} /\ i + 2 * max \in Nat /\ i + max <= n + 1
    BY <1>2, LimiterAssumption
  <2>2. CASE i <= from - max
    <3>1. Spread(granted, i, i + 2 * max)
      BY <1>3, <1>4, <2>1, <2>2, LimiterAssumption
    <3> QED BY <2>1, <3>1, SpreadKept
  <2>3. CASE i > from - max
    <3>1. from \in i..(i + 2 * max) /\ n + 1 \in i..(i + 2 * max) /\ from < n + 1
      BY <1>2, <1>3, <2>1, <2>3, LimiterAssumption
    <3>2. after[n + 1] - after[from] >= window
      BY <1>2, <1>3
    <3> QED BY <1>2, <3>1, <3>2 DEF Spread
  <2> QED BY <1>3, <2>1, <2>2, <2>3, LimiterAssumption
<1> HIDE DEF after
<1>7. KeyInv(new, after)
  <2>1. \A i \in 1..(Opening(new, after) - max) : Spread(after, i, i + 2 * max)
    BY <1>2, <1>5, <1>6, LimiterAssumption
  <2>2. Used(new) <= Len(after) /\ after[Opening(new, after)] = new.start
    BY <1>1, <1>2, <1>5
  <2> QED BY <2>1, <2>2 DEF KeyInv
<1> QED BY <1>7 DEF new, after

\* One more grant in the same window.
LEMMA SameWindowGrant ==
    ASSUME NEW hit \in Hit, NEW granted \in Seq(Nat), NEW now \in Nat,
           KeyInv(hit, granted), hit.count + 1 <= max
    PROVE  KeyInv([start |-> hit.start, count |-> hit.count + 1], Append(granted, now))
<1> DEFINE new == [start |-> hit.start, count |-> hit.count + 1]
           after == Append(granted, now)
           n == Len(granted)
           from == Opening(hit, granted)
<1>1. /\ Used(new) = Used(hit) + 1 /\ Used(hit) \in Nat \ {0} /\ new.start = hit.start
      /\ max \in Nat
  BY LimiterAssumption DEF Used, Hit
<1>2. /\ n \in Nat /\ Len(after) = n + 1
      /\ \A i \in 1..n : after[i] = granted[i]
  OBVIOUS
<1>3. /\ Used(hit) <= n /\ granted[from] = hit.start
      /\ \A i \in 1..(from - max) : Spread(granted, i, i + 2 * max)
  BY DEF KeyInv
<1>4. from = n - Used(hit) + 1
  BY DEF Opening
<1> HIDE DEF new, from, n
<1>5. from \in 1..n /\ Opening(new, after) = from
  BY <1>1, <1>2, <1>3, <1>4 DEF Opening
<1>6. ASSUME NEW i \in 1..(from - max)
      PROVE  Spread(after, i, i + 2 * max)
  <2>1. i \in Nat \ {0} /\ i + 2 * max \in Nat
    BY <1>1, <1>5
  <2> QED BY <1>3, <2>1, SpreadKept
<1> HIDE DEF after
<1>7. KeyInv(new, after)
  BY <1>1, <1>2, <1>3, <1>5, <1>6 DEF KeyInv
<1> QED BY <1>7 DEF new, after

\* A refused call leaves the budget spent, and its first grant where it was.
LEMMA Refusal ==
    ASSUME NEW hit \in Hit, NEW granted \in Seq(Nat), KeyInv(hit, granted), hit.count + 1 > max
    PROVE  /\ KeyInv([start |-> hit.start, count |-> hit.count + 1], granted)
           /\ Len(granted) >= max
           /\ granted[Len(granted) - max + 1] = hit.start
<1> DEFINE new == [start |-> hit.start, count |-> hit.count + 1]
<1>1. Used(new) = max /\ Used(hit) = max /\ new.start = hit.start
  BY LimiterAssumption DEF Used, Hit
<1> HIDE DEF new
<1>2. Opening(new, granted) = Opening(hit, granted)
  BY <1>1 DEF Opening
<1>3. KeyInv(new, granted)
  BY <1>1, <1>2 DEF KeyInv
<1> QED BY <1>1, <1>3 DEF KeyInv, Opening, new

-----------------------------------------------------------------------------
(* The steps of the limiter *)

LEMMA InitLimiter == Init => LimiterInv
<1> SUFFICES ASSUME Init PROVE LimiterInv
  OBVIOUS
<1>1. LimiterTypeOK
  BY DEF Init, LimiterTypeOK
<1> QED BY <1>1 DEF Init, LimiterInv, HitsRemember, RefusedOnlyWhenSpent

LEMMA ClockStep ==
    ASSUME LimiterInv, Tick
    PROVE  LimiterInv'
<1>1. LimiterTypeOK'
  BY DEF Tick, LimiterInv, LimiterTypeOK
<1> QED BY <1>1 DEF Tick, LimiterInv, HitsRemember, RefusedOnlyWhenSpent

LEMMA ArriveStep ==
    ASSUME LimiterInv, NEW t \in Thread, NEW k \in Key, Arrive(t, k)
    PROVE  LimiterInv'
<1>1. [key |-> k, now |-> clock] \in Call
  BY DEF LimiterInv, LimiterTypeOK, Call
<1>2. LimiterTypeOK'
  BY <1>1 DEF Arrive, LimiterInv, LimiterTypeOK
<1> QED BY <1>2 DEF Arrive, LimiterInv, HitsRemember, RefusedOnlyWhenSpent

LEMMA CountedType ==
    ASSUME LimiterTypeOK, NEW k \in Key, NEW now \in Nat
    PROVE  Counted(k, now) \in Hit
<1>1. hits[k] \in Hit \cup {None}
  BY DEF LimiterTypeOK
<1> QED BY <1>1 DEF Counted, Hit

LEMMA DecideStep ==
    ASSUME LimiterInv, NEW t \in Thread, Decide(t)
    PROVE  LimiterInv'
<1>1. PICK k \in Key, now \in Nat : calls[t] = [key |-> k, now |-> now]
  BY DEF Decide, LimiterInv, LimiterTypeOK, Call
<1> DEFINE hit == Counted(k, now)
<1>2. /\ hits' = [hits EXCEPT ![k] = hit]
      /\ calls' = [calls EXCEPT ![t] = None] /\ clock' = clock
      /\ \/ /\ Granted(hit) /\ refused' = None
            /\ grants' = [grants EXCEPT ![k] = Append(grants[k], now)]
         \/ ~Granted(hit) /\ refused' = calls[t] /\ grants' = grants
  BY <1>1 DEF Decide
<1>3. hit \in Hit /\ hit # None
  BY <1>1, CountedType, LimiterAssumption DEF LimiterInv
<1>4. /\ grants[k] \in Seq(Nat) /\ Append(grants[k], now) \in Seq(Nat)
      /\ hits[k] \in Hit \cup {None} /\ calls[t] \in Call
  BY <1>1 DEF LimiterInv, LimiterTypeOK, Call
<1>5. IF hits[k] = None THEN grants[k] = <<>> ELSE KeyInv(hits[k], grants[k])
  BY DEF LimiterInv, HitsRemember
<1>6. \/ hits[k] = None /\ hit = [start |-> now, count |-> 1]
      \/ /\ hits[k] # None /\ now - hits[k].start >= window
         /\ hit = [start |-> now, count |-> 1]
      \/ /\ hits[k] # None /\ ~(now - hits[k].start >= window)
         /\ hit = [start |-> hits[k].start, count |-> hits[k].count + 1]
  BY DEF Counted
<1> HIDE DEF hit
<1>7. LimiterTypeOK'
  BY <1>2, <1>3, <1>4 DEF LimiterInv, LimiterTypeOK
<1>8. /\ hits'[k] = hit
      /\ \A j \in Key \ {k} : hits'[j] = hits[j] /\ grants'[j] = grants[j]
  BY <1>2 DEF LimiterInv, LimiterTypeOK
<1>9. SUFFICES KeyInv(hit, grants'[k]) /\ RefusedOnlyWhenSpent'
  BY <1>3, <1>7, <1>8 DEF LimiterInv, HitsRemember
<1>10. CASE Granted(hit)
  <2>1. grants'[k] = Append(grants[k], now) /\ refused' = None /\ hit.count <= max
    BY <1>2, <1>10 DEF Granted, LimiterInv, LimiterTypeOK
  <2>2. KeyInv(hit, Append(grants[k], now))
    <3>1. CASE hits[k] = None
      BY <1>5, <1>6, <3>1, FirstGrant
    <3>2. CASE hits[k] # None /\ now - hits[k].start >= window
      BY <1>4, <1>5, <1>6, <3>2, NextWindowGrant
    <3>3. CASE hits[k] # None /\ ~(now - hits[k].start >= window)
      <4>1. hits[k].count + 1 <= max
        BY <1>6, <2>1, <3>3
      <4> QED BY <1>4, <1>5, <1>6, <3>3, <4>1, SameWindowGrant
    <3> QED BY <3>1, <3>2, <3>3
  <2> QED BY <2>1, <2>2 DEF RefusedOnlyWhenSpent
<1>11. CASE ~Granted(hit)
  <2>1. refused' = calls[t] /\ grants' = grants
    BY <1>2, <1>11
  <2>2. /\ hits[k] # None /\ ~(now - hits[k].start >= window)
        /\ hit = [start |-> hits[k].start, count |-> hits[k].count + 1]
    BY <1>6, <1>11, LimiterAssumption DEF Granted
  <2>3. hits[k] \in Hit /\ hits[k].start \in Nat /\ hits[k].count + 1 > max
    BY <1>4, <1>11, <2>2, LimiterAssumption DEF Granted, Hit
  <2>4. /\ KeyInv(hit, grants[k]) /\ Len(grants[k]) >= max
        /\ grants[k][Len(grants[k]) - max + 1] = hits[k].start
    BY <1>4, <1>5, <2>2, <2>3, Refusal
  <2>5. RefusedOnlyWhenSpent'
    BY <1>1, <2>1, <2>2, <2>3, <2>4, LimiterAssumption DEF RefusedOnlyWhenSpent
  <2> QED BY <2>1, <2>4, <2>5
<1> QED BY <1>10, <1>11

LEMMA StepLimiter == LimiterInv /\ [Next]_vars => LimiterInv'
<1> SUFFICES ASSUME LimiterInv, [Next]_vars PROVE LimiterInv'
  OBVIOUS
<1>1. CASE UNCHANGED vars
  BY <1>1 DEF vars, LimiterInv, LimiterTypeOK, HitsRemember, RefusedOnlyWhenSpent
<1> QED BY <1>1, ClockStep, ArriveStep, DecideStep DEF Next

-----------------------------------------------------------------------------
(* Every variable keeps its shape, in any number of threads.                 *)
THEOREM LimiterTypeCorrect == Spec => []LimiterTypeOK
<1>1. LimiterInv => LimiterTypeOK
  BY DEF LimiterInv
<1> QED BY <1>1, InitLimiter, StepLimiter, PTL DEF Spec

(* Nobody is refused for another caller's traffic, for calls that were       *)
(* themselves refused, or for longer than a window.                          *)
THEOREM RefusalsEarned == Spec => []RefusedOnlyWhenSpent
<1>1. LimiterInv => RefusedOnlyWhenSpent
  BY DEF LimiterInv
<1> QED BY <1>1, InitLimiter, StepLimiter, PTL DEF Spec

(* A caller gets at most 2 * max grants before a whole window must pass,     *)
(* however the threads' clock readings and their turns at the lock cross.    *)
THEOREM BurstsBounded == Spec => []BurstBound
<1>1. LimiterInv => BurstBound
  <2> SUFFICES ASSUME LimiterInv, NEW k \in Key, NEW i \in DOMAIN grants[k],
                      i + 2 * max <= Len(grants[k])
               PROVE  \E a, b \in i..(i + 2 * max) :
                          a < b /\ grants[k][b] - grants[k][a] >= window
    BY DEF BurstBound
  <2>1. grants[k] \in Seq(Nat) /\ hits[k] \in Hit \cup {None}
    BY DEF LimiterInv, LimiterTypeOK
  <2>2. hits[k] \in Hit /\ KeyInv(hits[k], grants[k])
    BY <2>1 DEF LimiterInv, HitsRemember
  <2>3. Used(hits[k]) \in 1..max
    BY <2>2, UsedRange
  <2>4. i \in 1..(Opening(hits[k], grants[k]) - max)
    <3>1. i \in Nat /\ i >= 1 /\ Len(grants[k]) \in Nat /\ max \in Nat
      BY <2>1, LimiterAssumption
    <3> QED BY <2>3, <3>1 DEF Opening
  <2>5. Spread(grants[k], i, i + 2 * max)
    BY <2>2, <2>4 DEF KeyInv
  <2> QED BY <2>5 DEF Spread
<1> QED BY <1>1, InitLimiter, StepLimiter, PTL DEF Spec
=============================================================================
