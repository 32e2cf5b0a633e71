---------------------------- MODULE RateLimiter ----------------------------
(***************************************************************************)
(* The per-caller write limit (ratelimit.py): a fixed window per key,      *)
(* shared by the worker threads that run enforce_write_limit.              *)
(*                                                                         *)
(* allow() reads the clock before it takes the lock, so a call may be      *)
(* counted with a clock that another thread's call has already overtaken:  *)
(* Arrive reads the clock, Decide is the locked body.  `grants' is a       *)
(* history variable: what the callers were granted, and nothing of how.    *)
(***************************************************************************)
EXTENDS Integers, Sequences

CONSTANTS
    Key,            \* caller tokens
    Thread,
    None,           \* no call in flight; a key without a hit; no answer yet
    max,            \* RateLimiter.max: writes per window
    window,         \* RateLimiter.window, in clock ticks
    MaxTime,        \* bound on the clock
    MaxCount        \* bound on the calls a key makes in one window

Hit == [start : Nat, count : Nat \ {0}]
Call == [key : Key, now : Nat]

ASSUME LimiterAssumption ==
    /\ max \in Nat \ {0} /\ window \in Nat \ {0}
    /\ MaxTime \in Nat /\ MaxCount \in Nat
    /\ None \notin Hit /\ None \notin Call

VARIABLES
    clock,          \* time.monotonic()
    hits,           \* _hits: key -> (window_start, count)
    calls,          \* the call of each thread between the clock and the lock
    grants,         \* key -> the clocks of the calls granted, in order
    refused         \* the call refused in the last step, if it refused one

vars == <<clock, hits, calls, grants, refused>>

Init ==
    /\ clock = 0
    /\ hits = [k \in Key |-> None]
    /\ calls = [t \in Thread |-> None]
    /\ grants = [k \in Key |-> <<>>]
    /\ refused = None

Tick ==
    /\ clock < MaxTime /\ clock' = clock + 1
    /\ refused' = None
    /\ UNCHANGED <<hits, calls, grants>>

Arrive(t, k) ==
    /\ calls[t] = None
    /\ hits[k] # None => hits[k].count < MaxCount
    /\ calls' = [calls EXCEPT ![t] = [key |-> k, now |-> clock]]
    /\ refused' = None
    /\ UNCHANGED <<clock, hits, grants>>

\* Mutant: every call restarts the window.
Counted_Slides(k, now) ==
    IF hits[k] = None THEN [start |-> now, count |-> 1]
    ELSE IF now - hits[k].start >= window THEN [start |-> now, count |-> 1]
    ELSE [start |-> now, count |-> hits[k].count + 1]

\* The entry of a key once a call of clock now is counted.
Counted(k, now) ==
    IF hits[k] = None THEN [start |-> now, count |-> 1]
    ELSE IF now - hits[k].start >= window THEN [start |-> now, count |-> 1]
    ELSE [start |-> hits[k].start, count |-> hits[k].count + 1]

\* Mutant: the call is compared before it is counted.
Granted_Before(hit) == hit.count - 1 <= max

Granted(hit) == hit.count <= max

Decide(t) ==
    /\ calls[t] # None
    /\ LET k == calls[t].key
           now == calls[t].now
           hit == Counted(k, now)
       IN  /\ hits' = [hits EXCEPT ![k] = hit]
           /\ IF Granted(hit)
              THEN grants' = [grants EXCEPT ![k] = Append(@, now)] /\ refused' = None
              ELSE UNCHANGED grants /\ refused' = calls[t]
    /\ calls' = [calls EXCEPT ![t] = None]
    /\ UNCHANGED clock

Next ==
    \/ Tick
    \/ \E t \in Thread : Decide(t) \/ \E k \in Key : Arrive(t, k)

Spec == Init /\ [][Next]_vars

-----------------------------------------------------------------------------
(* Every variable has the shape of its Python counterpart.                   *)
LimiterTypeOK ==
    /\ clock \in Nat
    /\ hits \in [Key -> Hit \cup {None}]
    /\ calls \in [Thread -> Call \cup {None}]
    /\ grants \in [Key -> Seq(Nat)]
    /\ refused \in Call \cup {None}

(* What a fixed window bounds, whatever the threads' order: among any        *)
(* 2 * max + 1 calls granted to a caller in a row, two are a whole window    *)
(* apart.  Stale clocks and refused calls do not loosen it.                  *)
BurstBound ==
    \A k \in Key : \A i \in DOMAIN grants[k] :
        i + 2 * max <= Len(grants[k]) =>
            \E a, b \in i..(i + 2 * max) :
                a < b /\ grants[k][b] - grants[k][a] >= window

(* A call is refused only to a caller that spent its own budget, and not for *)
(* longer than a window: max calls were granted to it, and the first of the  *)
(* last max of them is less than a window older than the refused one.  No    *)
(* other caller's traffic and no earlier refusal prolongs it.                *)
RefusedOnlyWhenSpent ==
    refused # None =>
        LET mine == grants[refused.key] IN
        /\ Len(mine) >= max
        /\ refused.now - mine[Len(mine) - max + 1] < window
=============================================================================
