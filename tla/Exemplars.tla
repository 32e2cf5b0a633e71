------------------------------ MODULE Exemplars ------------------------------
(***************************************************************************)
(* One voiceprint's exemplars and centroid (fpm/store/models.py) through   *)
(* enrolment with its consistency gate, minting, export, forget and import. *)
(*                                                                         *)
(* An embedding is an integer vector; all have the same length, so their   *)
(* cosines are those of the unit vectors of the code.  The centroid is     *)
(* kept as the sum of the exemplars, which has the direction of their      *)
(* normalized mean: the gate and the eviction depend on nothing else.      *)
(* Sums are recursive functions, so that theorems can be proved of them.   *)
(***************************************************************************)
EXTENDS Integers, Sequences

CONSTANTS Dim,            \* the embedder's dimension
          Embeddings,     \* vectors of equal length
          MAX_EXEMPLARS,
          MaxSteps,       \* bound on operations
          NoProfile, NoCentroid, NoClip

Vectors == [1 .. Dim -> Int]

\* f[1] + ... + f[n].
Sigma(f, n) == LET s[k \in 0 .. n] == IF k = 0 THEN 0 ELSE s[k - 1] + f[k]
               IN  s[n]
Dot(a, b) == Sigma([d \in 1 .. Dim |-> a[d] * b[d]], Dim)

ASSUME ExemplarsAssumption ==
  /\ Dim \in Nat \ {0} /\ MAX_EXEMPLARS \in Nat \ {0} /\ MaxSteps \in Nat
  /\ Embeddings \subseteq Vectors
  /\ \A a, b \in Embeddings : Dot(a, a) = Dot(b, b) /\ Dot(a, a) > 0
  /\ NoCentroid \notin Vectors
  /\ NoProfile \notin [exemplars : Seq(Vectors), centroid : Vectors]

VARIABLES profile,  \* the stored voiceprint: exemplars and centroid, or NoProfile
          file,     \* the signed export the owner keeps, or NoProfile
          built,    \* minted, enrolled (ids of their own), or merged with a file
          last,     \* the last operation and its clip
          steps

exemplarVars == <<profile, file, built, last, steps>>

----------------------------------------------------------------------------
(* Voiceprint. *)

New == [exemplars |-> <<>>, centroid |-> NoCentroid]

\* recompute_centroid: derived from all the exemplars.
Total(es) ==
  [d \in 1 .. Dim |-> Sigma([i \in 1 .. Len(es) |-> es[i][d]], Len(es))]
recompute_centroid(vp) ==
  IF vp.exemplars = <<>> THEN vp ELSE [vp EXCEPT !.centroid = Total(vp.exemplars)]

\* argmax of the similarities to the centroid, the first of equals.
MostRedundant(vp) ==
  CHOOSE i \in DOMAIN vp.exemplars :
    \A j \in DOMAIN vp.exemplars :
      LET si == Dot(vp.exemplars[i], vp.centroid)
          sj == Dot(vp.exemplars[j], vp.centroid)
      IN  si > sj \/ (si = sj /\ i <= j)

\* Mutant: the newest is put in front.
add_exemplar_Front(vp, e) ==
  [vp EXCEPT !.exemplars = IF Len(@) < MAX_EXEMPLARS THEN <<e>> \o @ ELSE <<e>> \o Tail(@)]

\* add_exemplar, against the centroid as it was last computed.
add_exemplar(vp, e) ==
  IF Len(vp.exemplars) < MAX_EXEMPLARS THEN [vp EXCEPT !.exemplars = Append(@, e)]
  ELSE IF vp.centroid = NoCentroid THEN vp
  ELSE [vp EXCEPT !.exemplars[MostRedundant(vp)] = e]

\* The loops over add_exemplar: no centroid is computed in between.
AddAll(vp, es) ==
  LET added[n \in 0 .. Len(es)] ==
        IF n = 0 THEN vp ELSE add_exemplar(added[n - 1], es[n])
  IN  added[Len(es)]
from_exemplars(es) == recompute_centroid(AddAll(New, es))

\* ENROLL_QUALITY_MIN = 0.5: the cosine of clip and centroid is at least that.
Consistent(vp, e) ==
  LET d == Dot(e, vp.centroid)
  IN  d > 0 /\ 4 * d * d >= Dot(e, e) * Dot(vp.centroid, vp.centroid)

----------------------------------------------------------------------------
Did(kind, clip) == /\ steps < MaxSteps
                   /\ steps' = steps + 1
                   /\ last' = [op |-> kind, clip |-> clip]

\* Mutant: the centroid is computed before the clip is added.
Strengthened_Early(e) == add_exemplar(recompute_centroid(profile), e)
Strengthened(e) == recompute_centroid(add_exemplar(profile, e))

\* Mutant: no consistency gate.
Enroll_NoGate(e) ==
  /\ built # "minted"
  /\ Did("enroll", e)
  /\ profile' = IF profile = NoProfile THEN from_exemplars(<<e>>) ELSE Strengthened(e)
  /\ UNCHANGED <<file, built>>

\* enroll: the first clip creates, a consistent one strengthens, another is
\* rejected and changes nothing.
Enroll(e) ==
  \/ /\ built # "minted" /\ profile = NoProfile
     /\ Did("enroll", e)
     /\ profile' = from_exemplars(<<e>>)
     /\ UNCHANGED <<file, built>>
  \/ /\ built # "minted" /\ profile # NoProfile /\ Consistent(profile, e)
     /\ Did("enroll", e)
     /\ profile' = Strengthened(e)
     /\ UNCHANGED <<file, built>>

\* A session mints with the exemplars of one unknown speaker.
Mint ==
  \E es \in UNION {[1 .. n -> Embeddings] : n \in 1 .. MAX_EXEMPLARS} :
    /\ built = "minted" /\ profile = NoProfile /\ last.op = "none"
    /\ Did("mint", es[1])
    /\ profile' = from_exemplars(es)
    /\ UNCHANGED <<file, built>>

\* The file has the exemplars and no centroid.
Export ==
  /\ profile # NoProfile
  /\ Did("export", NoClip)
  /\ file' = profile
  /\ UNCHANGED <<profile, built>>

Forget ==
  /\ profile # NoProfile
  /\ Did("forget", NoClip)
  /\ profile' = NoProfile
  /\ UNCHANGED <<file, built>>

\* _import_one: created anew, or merged into what is there.
Import ==
  /\ file # NoProfile
  /\ Did("import", NoClip)
  /\ IF profile = NoProfile
     THEN /\ profile' = from_exemplars(file.exemplars)
          /\ UNCHANGED built
     ELSE /\ profile' = recompute_centroid(AddAll(profile, file.exemplars))
          /\ built' = IF built = "enrolled" THEN "merged" ELSE built
  /\ UNCHANGED file

ExemplarsInit ==
  /\ profile = NoProfile /\ file = NoProfile
  /\ last = [op |-> "none", clip |-> NoClip] /\ steps = 0
  /\ built \in {"minted", "enrolled"}

ExemplarsNext ==
  \/ \E e \in Embeddings : Enroll(e)
  \/ Mint \/ Export \/ Forget \/ Import

ExemplarsSpec == ExemplarsInit /\ [][ExemplarsNext]_exemplarVars

----------------------------------------------------------------------------
(* Properties.                                                             *)

\* The centroid everything is matched against is that of the exemplars stored
\* beside it, also after evictions and merges that ran on an older one.
CentroidIsDerived == profile # NoProfile => profile.centroid = Total(profile.exemplars)

\* A clip that was just accepted is accepted again: a caller that missed the
\* answer of an enrolment and retries it is not rejected as inconsistent,
\* though the accepted clip may have evicted another.  (A merge is not gated: a
\* profile merged with a file of another voice is outside the claim.)
RetryAccepted ==
  last.op = "enroll" /\ built = "enrolled" => Consistent(profile, last.clip)

\* Forgetting after an export and importing the file gives back the profile
\* as it was exported, its exemplars in their order.
RestoreIsExact ==
  [][profile = NoProfile /\ last'.op = "import" => profile' = file]_exemplarVars
=============================================================================
