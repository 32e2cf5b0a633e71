------------------------------- MODULE Match -------------------------------
(***************************************************************************)
(* Open-set matching (fpm/match.py): one query against the centroids of a  *)
(* workspace, as centroids come, move and go.                              *)
(*                                                                         *)
(* A cosine is an integer number of ticks; embedding, normalising and the  *)
(* display confidence are left out.  classify sorts by score, and the sort *)
(* of equal scores follows the insertion order of a dict: here the best    *)
(* centroid is any one with the highest score.                             *)
(***************************************************************************)
EXTENDS Integers

CONSTANTS
    Vid,
    None,               \* no centroid under this id; no match
    Score,              \* the cosines, in ticks
    Floor,              \* -1.0: the runner-up when there is none
    MATCH_REJECT, MATCH_ACCEPT, AMBIGUOUS_MARGIN

ASSUME MatchAssumption ==
    /\ Score \subseteq Int
    /\ \A x \in Score : Floor <= x
    /\ {Floor, MATCH_REJECT, MATCH_ACCEPT, AMBIGUOUS_MARGIN} \subseteq Int
    /\ MATCH_REJECT <= MATCH_ACCEPT /\ AMBIGUOUS_MARGIN > 0
    /\ Floor + AMBIGUOUS_MARGIN <= MATCH_REJECT
    /\ None \notin Vid /\ None \notin Score

VARIABLES
    centroids,          \* vid -> cosine of its centroid with the query, or None
    result              \* what classify answers now

matchVars == <<centroids, result>>

Enrolled(c) == {v \in Vid : c[v] # None}
Result == [decision : {"MATCH", "AMBIGUOUS", "LOW", "UNKNOWN"}, vid : Vid \cup {None}]
Rejected(decision) == [decision |-> decision, vid |-> None]

\* The possible heads of the sorted list, and the score of the runner-up.
Best(c) == {v \in Enrolled(c) : \A w \in Enrolled(c) : c[w] <= c[v]}
Second(c, v) ==
    LET rest == Enrolled(c) \ {v} IN
    IF rest = {} THEN Floor
    ELSE c[CHOOSE w \in rest : \A u \in rest : c[u] <= c[w]]

\* Mutant: acceptance is tested before the margin.
Tier_AcceptFirst(best, second) ==
    IF best < MATCH_REJECT THEN "UNKNOWN"
    ELSE IF best >= MATCH_ACCEPT THEN "MATCH"
    ELSE IF best < second + AMBIGUOUS_MARGIN THEN "AMBIGUOUS"
    ELSE "LOW"

Tier(best, second) ==
    IF best < MATCH_REJECT THEN "UNKNOWN"
    ELSE IF best < second + AMBIGUOUS_MARGIN THEN "AMBIGUOUS"
    ELSE IF best >= MATCH_ACCEPT THEN "MATCH"
    ELSE "LOW"

\* The answers classify may give, by the order of equal scores.
classify(c) ==
    IF Enrolled(c) = {} THEN {Rejected("UNKNOWN")}
    ELSE {LET tier == Tier(c[v], Second(c, v)) IN
          [decision |-> tier, vid |-> IF tier = "MATCH" THEN v ELSE None] : v \in Best(c)}

-----------------------------------------------------------------------------
MatchInit ==
    /\ centroids = [v \in Vid |-> None]
    /\ result \in classify(centroids)

\* A centroid is enrolled, recomputed or erased, and the query classified again.
Change(v, x) ==
    /\ centroids' = [centroids EXCEPT ![v] = x]
    /\ result' \in classify(centroids')

MatchNext == \E v \in Vid, x \in Score \cup {None} : Change(v, x)

MatchSpec == MatchInit /\ [][MatchNext]_matchVars

-----------------------------------------------------------------------------
(* The centroids are scores and the result is a MatchResult.                 *)
MatchTypeOK ==
    /\ centroids \in [Vid -> Score \cup {None}]
    /\ result \in Result
    /\ result.vid # None <=> result.decision = "MATCH"

(* Equal scores never let the order of a dict decide: one answer only.       *)
OneAnswer == \A r \in classify(centroids) : r = result

(* A name never moves by an erasure or an enrolment elsewhere: changing the  *)
(* centroid of one voiceprint cannot turn a match with a second into a match *)
(* with a third.                                                             *)
NoStolenMatch ==
    [][\A v \in Vid :
          (\A w \in Vid \ {v} : centroids'[w] = centroids[w])
             /\ result.vid \notin {None, v} /\ result'.vid # None
          => result'.vid \in {result.vid, v}]_matchVars
=============================================================================
