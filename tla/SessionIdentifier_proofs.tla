---------------------- MODULE SessionIdentifier_proofs ----------------------
(***************************************************************************)
(* Theorems of SessionIdentifier, for any number of sessions, speakers and *)
(* voiceprints, any vote floor and exemplar cap, and recordings of any     *)
(* length.                                                                 *)
(*                                                                         *)
(* A lock takes several store calls, and everything may change between     *)
(* them.  InFlight says what of the decision still stands when the label   *)
(* is written: the speaker is not locked, the votes still lead to that     *)
(* candidate.  MintedLocked says that a minted voiceprint is the label of  *)
(* the speaker it was minted for, so that an id tells how its speaker came *)
(* to be locked.                                                           *)
(***************************************************************************)
EXTENDS SessionIdentifier, FiniteSetTheorems, SequenceTheorems, TLAPS

Decision == Outcome \cup {"LOCKED", "PENDING", "RELABELED", "MATCH", "ANON"}
ChunkType == [spk : Speaker, vid : Vid \cup {None}, name : Name \cup {None},
              decision : Decision]

SessionTypeOK ==
    /\ rows \in [Vid -> Row \cup {None}]
    /\ used \subseteq Vid
    /\ minted \in [Vid -> Origin \cup {None}]
    /\ ledger \in Seq([by : Session, vid : Vid])
    /\ readOnly \in [Session -> BOOLEAN]
    /\ votes \in [Session -> [Speaker -> [Candidate -> Nat]]]
    /\ exemplars \in [Session -> [Speaker -> Seq(Candidate)]]
    /\ locked \in [Session -> [Speaker -> Label \cup {None}]]
    /\ history \in [Session -> Seq(ChunkType)]
    /\ sealed \in [Session -> BOOLEAN]
    /\ span \in [Session -> Span \cup {None}]

\* Where one session's entry for one speaker is set.
LEMMA Cell ==
    ASSUME NEW S, NEW f \in [Session -> [Speaker -> S]], NEW s \in Session,
           NEW spk \in Speaker, NEW e \in S, NEW g, g = [f EXCEPT ![s][spk] = e]
    PROVE  /\ g \in [Session -> [Speaker -> S]] /\ g[s][spk] = e
           /\ \A k \in Speaker : k # spk => g[s][k] = f[s][k]
           /\ \A t \in Session : t # s => g[t] = f[t]
OBVIOUS

\* Where one session's entry is set.
LEMMA Entry ==
    ASSUME NEW S, NEW f \in [Session -> S], NEW s \in Session, NEW e \in S,
           NEW g, g = [f EXCEPT ![s] = e]
    PROVE  /\ g \in [Session -> S] /\ g[s] = e
           /\ \A t \in Session : t # s => g[t] = f[t]
OBVIOUS

LEMMA Nones ==
    /\ None \notin Row /\ None \notin Label /\ None \notin Origin /\ None \notin Span
    /\ None \notin Vid /\ None \notin Name /\ Unknown \notin Vid
BY SessionAssumption

-----------------------------------------------------------------------------
(* What a span's steps do to the transcript and to the locks *)

LEMMA EmitEffect ==
    ASSUME SessionTypeOK, NEW s \in Session, NEW chunk \in ChunkType, Emit(s, chunk)
    PROVE  /\ history' \in [Session -> Seq(ChunkType)] /\ span' \in [Session -> Span \cup {None}]
           /\ history'[s] = Append(history[s], chunk) /\ span'[s] = None
           /\ \A t \in Session : t # s => history'[t] = history[t] /\ span'[t] = span[t]
<1> DEFINE longer == Append(history[s], chunk)
<1>1. longer \in Seq(ChunkType) /\ history' = [history EXCEPT ![s] = longer]
  BY DEF SessionTypeOK, Emit
<1>2. span' = [span EXCEPT ![s] = None]
  BY DEF Emit
<1> HIDE DEF longer
<1>3. /\ history' \in [Session -> Seq(ChunkType)] /\ history'[s] = longer
      /\ \A t \in Session : t # s => history'[t] = history[t]
  BY <1>1, Entry DEF SessionTypeOK
<1> QED BY <1>2, <1>3 DEF SessionTypeOK, longer

LEMMA RelabelType ==
    ASSUME SessionTypeOK, NEW s \in Session, NEW spk, NEW label \in Label
    PROVE  /\ Relabel(s, spk, label) \in Seq(ChunkType)
           /\ Len(Relabel(s, spk, label)) = Len(history[s])
           /\ \A i \in DOMAIN history[s] :
                 LET old == history[s][i]
                     new == Relabel(s, spk, label)[i]
                 IN  /\ new.spk = old.spk
                     /\ sealed[s] \/ old.spk # spk => new = old
                     /\ ~sealed[s] /\ old.spk = spk => new.vid = label.vid
<1> DEFINE h == history[s]
           new(i) == IF ~sealed[s] /\ h[i].spk = spk /\ h[i].vid # label.vid
                     THEN [h[i] EXCEPT !.vid = label.vid, !.name = label.name,
                                       !.decision = "RELABELED"]
                     ELSE h[i]
<1>1. h \in Seq(ChunkType)
  BY DEF SessionTypeOK
<1>2. ASSUME NEW i \in 1 .. Len(h)
      PROVE  /\ new(i) \in ChunkType /\ new(i).spk = h[i].spk
             /\ sealed[s] \/ h[i].spk # spk => new(i) = h[i]
             /\ ~sealed[s] /\ h[i].spk = spk => new(i).vid = label.vid
  <2>1. h[i] \in ChunkType
    BY <1>1
  <2> HIDE DEF h
  <2> QED BY <2>1 DEF ChunkType, Decision, Label
<1>3. Relabel(s, spk, label) = [i \in 1 .. Len(h) |-> new(i)]
  BY <1>1 DEF Relabel
<1> HIDE DEF new
<1>4. Len(h) \in Nat /\ DOMAIN h = 1 .. Len(h)
  BY <1>1
<1>5. [i \in 1 .. Len(h) |-> new(i)] \in Seq(ChunkType)
  BY <1>2, <1>4
<1> QED BY <1>2, <1>3, <1>4, <1>5

LEMMA LockEffect ==
    ASSUME SessionTypeOK, NEW s \in Session, span[s] # None, NEW label \in Label,
           Lock(s, label)
    PROVE  LET spk == span[s].spk IN
           /\ spk \in Speaker
           /\ locked' \in [Session -> [Speaker -> Label \cup {None}]]
           /\ locked'[s][spk] = label
           /\ \A k \in Speaker : k # spk => locked'[s][k] = locked[s][k]
           /\ history' \in [Session -> Seq(ChunkType)]
           /\ history'[s] = Append(Relabel(s, spk, label), Chunk(spk, label, "LOCKED"))
           /\ span' \in [Session -> Span \cup {None}] /\ span'[s] = None
           /\ \A t \in Session : t # s => /\ locked'[t] = locked[t] /\ span'[t] = span[t]
                                          /\ history'[t] = history[t]
           /\ UNCHANGED <<readOnly, votes, exemplars, sealed>>
<1> DEFINE spk == span[s].spk
           chunk == Chunk(spk, label, "LOCKED")
           longer == Append(Relabel(s, spk, label), chunk)
<1>1. spk \in Speaker
  BY DEF SessionTypeOK, Span
<1>2. chunk \in ChunkType
  BY <1>1 DEF Chunk, ChunkType, Decision, Label
<1>3. longer \in Seq(ChunkType)
  <2> HIDE DEF chunk
  <2> QED BY <1>2, RelabelType
<1>4. /\ locked' = [locked EXCEPT ![s][spk] = label]
      /\ history' = [history EXCEPT ![s] = longer]
      /\ span' = [span EXCEPT ![s] = None]
      /\ UNCHANGED <<readOnly, votes, exemplars, sealed>>
  BY DEF Lock
<1>5. /\ history' \in [Session -> Seq(ChunkType)] /\ history'[s] = longer
      /\ \A t \in Session : t # s => history'[t] = history[t]
  <2> HIDE DEF longer
  <2> QED BY <1>3, <1>4, Entry DEF SessionTypeOK
<1>6. /\ locked' \in [Session -> [Speaker -> Label \cup {None}]]
      /\ locked'[s][spk] = label
      /\ \A k \in Speaker : k # spk => locked'[s][k] = locked[s][k]
      /\ \A t \in Session : t # s => locked'[t] = locked[t]
  <2> HIDE DEF spk
  <2> QED BY <1>1, <1>4, Cell DEF SessionTypeOK
<1> HIDE DEF longer
<1> QED BY <1>1, <1>4, <1>5, <1>6 DEF SessionTypeOK, longer

-----------------------------------------------------------------------------
(* What a vote decides *)

\* c has the votes that a lock needs.
Leads(tally, c) ==
    tally[c] >= LOCK_MIN_VOTES /\ \A d \in Candidate \ {c} : tally[d] < tally[c]

\* A tally has one leader at most, and a leader that is not "unknown" is a
\* voiceprint.
LEMMA OneLeader ==
    ASSUME NEW tally \in [Candidate -> Nat]
    PROVE  /\ \A c \in Leaders(tally) : c \in Candidate /\ Leads(tally, c)
           /\ \A c, d \in Leaders(tally) : c = d
           /\ Leaders(tally) \notin {{}, {Unknown}} =>
                 LET c == CHOOSE c \in Leaders(tally) : TRUE
                 IN  c \in Vid /\ Leads(tally, c)
<1>1. \A c \in Candidate : tally[c] \in Nat
  OBVIOUS
<1>2. \A c \in Leaders(tally) : c \in Candidate /\ Leads(tally, c)
  BY <1>1 DEF Leaders, Leads
<1>3. ASSUME NEW c \in Leaders(tally), NEW d \in Leaders(tally), c # d
      PROVE  FALSE
  <2>1. /\ tally[d] < tally[c] /\ tally[c] < tally[d]
        /\ tally[c] \in Nat /\ tally[d] \in Nat
    BY <1>1, <1>2, <1>3 DEF Leads
  <2> QED BY <2>1
<1>4. ASSUME Leaders(tally) \notin {{}, {Unknown}}
      PROVE  LET c == CHOOSE c \in Leaders(tally) : TRUE
             IN  c \in Vid /\ Leads(tally, c)
  <2> DEFINE c == CHOOSE c \in Leaders(tally) : TRUE
  <2>1. c \in Leaders(tally)
    BY <1>4
  <2> HIDE DEF c
  <2>2. c # Unknown
    BY <1>3, <1>4, <2>1
  <2> QED BY <1>2, <2>1, <2>2 DEF Candidate, c
<1> QED BY <1>2, <1>3, <1>4

-----------------------------------------------------------------------------
(* What of a decision still stands at each of its store calls *)

InFlight(s) ==
    span[s] # None => LET p == span[s] IN
        /\ locked[s][p.spk] = None
        /\ p.call = "mint" => ~readOnly[s] /\ exemplars[s][p.spk] # <<>>
        /\ p.call \in {"mint", "anon"} => p.locks /\ Leads(votes[s][p.spk], Unknown)
        /\ p.call = "emit" => ~p.locks
        /\ p.call = "log" => p.locks
        /\ p.call \in {"log", "flag", "row"} =>
              p.vid \in Vid /\ (p.locks => Leads(votes[s][p.spk], p.vid))

ExemplarsCapped ==
    \A s \in Session, spk \in Speaker : Len(exemplars[s][spk]) <= MAX_EXEMPLARS

Base == SessionTypeOK /\ (\A s \in Session : InFlight(s)) /\ ExemplarsCapped

\* What Classify makes of a tally and the exemplars.
Plan(s, spk, outcome, tally, samples) ==
    LET leaders == Leaders(tally)
        call == NextCall(s, leaders, samples, outcome)
    IN  [spk |-> spk, outcome |-> outcome, call |-> call,
         vid |-> IF call = "log" THEN CHOOSE c \in leaders : TRUE
                 ELSE IF call = "flag" THEN outcome ELSE None,
         locks |-> call \in {"anon", "mint", "log"}]

\* The call of a span just classified, with what it was decided from.
LEMMA Decided ==
    ASSUME NEW s \in Session, readOnly[s] \in BOOLEAN, NEW outcome \in Outcome,
           NEW tally \in [Candidate -> Nat], NEW samples, NEW spk \in Speaker,
           NEW p, p = Plan(s, spk, outcome, tally, samples)
    PROVE  /\ p \in Span /\ p.spk = spk
           /\ p.call = "mint" => ~readOnly[s] /\ samples # <<>>
           /\ p.call \in {"mint", "anon"} => p.locks /\ Leads(tally, Unknown)
           /\ p.call = "emit" => ~p.locks
           /\ p.call = "log" => p.locks
           /\ p.call \in {"log", "flag", "row"} =>
                 p.vid \in Vid /\ (p.locks => Leads(tally, p.vid))
           /\ p.call \in {"anon", "mint", "log", "flag", "emit"}
           /\ p.call = "flag" => ~p.locks
<1> DEFINE leaders == Leaders(tally)
           call == NextCall(s, leaders, samples, outcome)
           chosen == CHOOSE c \in leaders : TRUE
           vid == IF call = "log" THEN chosen ELSE IF call = "flag" THEN outcome ELSE None
           locks == call \in {"anon", "mint", "log"}
<1>1. /\ leaders = {Unknown} => Leads(tally, Unknown)
      /\ leaders \notin {{}, {Unknown}} => chosen \in Vid /\ Leads(tally, chosen)
  BY OneLeader
<1>2. /\ call \in {"anon", "mint", "log", "flag", "emit"}
      /\ call = "anon" => leaders = {Unknown}
      /\ call = "mint" => leaders = {Unknown} /\ ~readOnly[s] /\ samples # <<>>
      /\ call = "log" => leaders \notin {{}, {Unknown}}
      /\ call = "flag" => outcome \in Vid
  BY DEF NextCall
<1>3. p = [spk |-> spk, outcome |-> outcome, call |-> call, vid |-> vid, locks |-> locks]
  BY DEF Plan
<1> HIDE DEF leaders, call, chosen
<1>4. /\ vid \in Vid \cup {None}
      /\ call \in {"log", "flag"} => vid \in Vid
      /\ call = "log" => Leads(tally, vid)
  BY <1>1, <1>2
<1>5. locks \in BOOLEAN /\ (locks <=> call \in {"anon", "mint", "log"})
  OBVIOUS
<1> HIDE DEF vid, locks
<1>6. p.spk = spk /\ p.call = call /\ p.vid = vid /\ (p.locks <=> locks)
  BY <1>3
<1>7. ASSUME NEW l \in BOOLEAN, NEW c \in {"anon", "mint", "log", "flag", "row", "emit"},
             NEW v \in Vid \cup {None}
      PROVE  [spk |-> spk, outcome |-> outcome, call |-> c, vid |-> v, locks |-> l] \in Span
  BY DEF Span
<1>8. call \in {"anon", "mint", "log", "flag", "row", "emit"}
  BY <1>2
<1>9. p \in Span
  BY <1>3, <1>4, <1>5, <1>7, <1>8, Zenon
<1> QED BY <1>1, <1>2, <1>4, <1>5, <1>6, <1>9

LEMMA ClassifyEffect ==
    ASSUME SessionTypeOK, ExemplarsCapped, NEW s \in Session, NEW spk \in Speaker,
           NEW outcome \in Outcome, NEW long \in BOOLEAN, Classify(s, spk, outcome, long)
    PROVE  /\ SessionTypeOK' /\ ExemplarsCapped' /\ InFlight(s)'
           /\ span'[s] \in Span /\ span'[s].spk = spk
           /\ span'[s].locks => span'[s].call \in {"anon", "mint", "log"}
           /\ \A k \in Speaker \ {spk} : votes'[s][k] = votes[s][k]
           /\ \A t \in Session \ {s} : /\ votes'[t] = votes[t] /\ span'[t] = span[t]
                                       /\ exemplars'[t] = exemplars[t]
<1> DEFINE b == Ballot(outcome)
           tally == [votes[s][spk] EXCEPT ![b] = @ + 1]
           old == exemplars[s][spk]
           new == IF long /\ outcome # "AMBIGUOUS" /\ Len(old) < MAX_EXEMPLARS
                  THEN Append(old, b) ELSE old
<1>1. b \in Candidate
  BY DEF Ballot, Candidate
<1>2. votes[s] \in [Speaker -> [Candidate -> Nat]] /\ votes[s][spk] \in [Candidate -> Nat]
  BY DEF SessionTypeOK
<1>3. tally \in [Candidate -> Nat] /\ votes' = [votes EXCEPT ![s][spk] = tally]
  BY <1>1, <1>2 DEF Classify, SessionTypeOK
<1>4. /\ votes' \in [Session -> [Speaker -> [Candidate -> Nat]]] /\ votes'[s][spk] = tally
      /\ \A k \in Speaker \ {spk} : votes'[s][k] = votes[s][k]
      /\ \A t \in Session \ {s} : votes'[t] = votes[t]
  <2> HIDE DEF tally
  <2> QED BY <1>3, Cell DEF SessionTypeOK
<1>5. old \in Seq(Candidate) /\ Len(old) <= MAX_EXEMPLARS /\ MAX_EXEMPLARS \in Nat
  BY SessionAssumption DEF SessionTypeOK, ExemplarsCapped
<1>6. exemplars' = [exemplars EXCEPT ![s][spk] = new]
  BY DEF Classify, SessionTypeOK
<1>7. new \in Seq(Candidate) /\ Len(new) <= MAX_EXEMPLARS
  <2> HIDE DEF old, b
  <2> QED BY <1>1, <1>5
<1>8. /\ exemplars' \in [Session -> [Speaker -> Seq(Candidate)]] /\ exemplars'[s][spk] = new
      /\ \A k \in Speaker \ {spk} : exemplars'[s][k] = exemplars[s][k]
      /\ \A t \in Session \ {s} : exemplars'[t] = exemplars[t]
  <2> HIDE DEF new
  <2> QED BY <1>6, <1>7, Cell DEF SessionTypeOK
<1>9. ExemplarsCapped'
  <2> HIDE DEF new
  <2> QED BY <1>7, <1>8 DEF ExemplarsCapped
<1> DEFINE p == Plan(s, spk, outcome, tally, new)
<1>10. span' = [span EXCEPT ![s] = p]
  <2>1. span' = [span EXCEPT ![s] =
                     Plan(s, spk, outcome, votes'[s][spk], exemplars'[s][spk])]
    BY DEF Classify, Plan
  <2> HIDE DEF tally, new
  <2> QED BY <2>1, <1>4, <1>8
<1>11. readOnly[s] \in BOOLEAN
  BY DEF SessionTypeOK
<1>12. /\ p \in Span /\ p.spk = spk
       /\ p.call = "mint" => ~readOnly[s] /\ new # <<>>
       /\ p.call \in {"mint", "anon"} => p.locks /\ Leads(tally, Unknown)
       /\ p.call = "emit" => ~p.locks
       /\ p.call = "log" => p.locks
       /\ p.call \in {"log", "flag", "row"} =>
             p.vid \in Vid /\ (p.locks => Leads(tally, p.vid))
       /\ p.call \in {"anon", "mint", "log", "flag", "emit"}
       /\ p.call = "flag" => ~p.locks
  <2> HIDE DEF tally, new, p
  <2>1. p = Plan(s, spk, outcome, tally, new)
    BY DEF p
  <2> QED BY <1>3, <1>11, <2>1, Decided
<1> HIDE DEF p, tally, new
<1>13. /\ span' \in [Session -> Span \cup {None}] /\ span'[s] = p
       /\ \A t \in Session \ {s} : span'[t] = span[t]
  BY <1>10, <1>12, Entry DEF SessionTypeOK
<1>14. /\ UNCHANGED <<rows, used, minted, ledger, readOnly, locked, history, sealed>>
       /\ locked[s][spk] = None
  BY DEF Classify, store
<1>15. SessionTypeOK'
  BY <1>4, <1>8, <1>13, <1>14 DEF SessionTypeOK
<1>16. InFlight(s)'
  BY <1>4, <1>8, <1>12, <1>13, <1>14 DEF InFlight
<1> QED BY <1>4, <1>8, <1>9, <1>12, <1>13, <1>15, <1>16

\* The store call of a span in hand moves on.
LEMMA NextCallEffect ==
    ASSUME SessionTypeOK, NEW s \in Session, span[s] # None,
           NEW c \in {"anon", "mint", "log", "flag", "row", "emit"},
           span' = [span EXCEPT ![s].call = c]
    PROVE  /\ span' \in [Session -> Span \cup {None}]
           /\ span'[s] \in Span /\ span'[s] # None /\ span'[s].call = c
           /\ span'[s].spk = span[s].spk /\ span'[s].vid = span[s].vid
           /\ span'[s].locks <=> span[s].locks
           /\ \A t \in Session \ {s} : span'[t] = span[t]
<1> DEFINE p == [span[s] EXCEPT !.call = c]
<1>1. span[s] \in Span
  BY DEF SessionTypeOK
<1>2. /\ p \in Span /\ p.call = c /\ p.spk = span[s].spk /\ p.vid = span[s].vid
      /\ p.locks <=> span[s].locks
  BY <1>1 DEF Span
<1>3. span' = [span EXCEPT ![s] = p] /\ p \in Span \cup {None}
  BY <1>1, <1>2 DEF SessionTypeOK, Span
<1> HIDE DEF p
<1>4. /\ span' \in [Session -> Span \cup {None}] /\ span'[s] = p
      /\ \A t \in Session \ {s} : span'[t] = span[t]
  BY <1>3 DEF SessionTypeOK
<1> QED BY <1>2, <1>4, Nones

-----------------------------------------------------------------------------
(* The kinds of step *)

\* A chunk that decides nothing joins the transcript.
Says(s) ==
    \E chunk \in ChunkType :
        /\ Emit(s, chunk)
        /\ locked[s][chunk.spk] # None => chunk.vid = locked[s][chunk.spk].vid
        /\ span[s] # None => ~span[s].locks /\ span[s].call \in {"emit", "flag", "row"}
        /\ UNCHANGED <<store, readOnly, votes, exemplars, locked, sealed>>

\* A lock to a known voiceprint gets its name.
Names(s) ==
    \E name \in Name \cup {None} :
        /\ span[s] # None /\ span[s].call \in {"flag", "row"} /\ span[s].locks
        /\ Lock(s, [vid |-> span[s].vid, name |-> name])
        /\ UNCHANGED store

\* Another request changes the rows.
Meddles ==
    /\ rows' \in [Vid -> Row \cup {None}] /\ used \subseteq used' /\ used' \subseteq Vid
    /\ UNCHANGED <<minted, ledger, readOnly, session>>

SessionStep(s) ==
    \/ Says(s)
    \/ \E spk \in Speaker, outcome \in Outcome, long \in BOOLEAN :
            Classify(s, spk, outcome, long)
    \/ LockAnonymous(s)
    \/ \E vid \in Vid : Mint(s, vid)
    \/ LogIdentify(s)
    \/ Names(s)
    \/ ReadFlag(s)
    \/ Seal(s)

LEMMA Settles ==
    ASSUME Base, NEW s \in Session, span[s] # None, span[s].call \in {"flag", "row"},
           NEW name \in Name \cup {None}, Settle(s, name)
    PROVE  Says(s) \/ Names(s)
<1> DEFINE label == [vid |-> span[s].vid, name |-> name]
           chunk == Chunk(span[s].spk, label, IF name # None THEN "MATCH" ELSE "ANON")
<1>1. /\ span[s].spk \in Speaker /\ span[s].locks \in BOOLEAN
      /\ span[s].vid \in Vid /\ locked[s][span[s].spk] = None
  BY DEF Base, SessionTypeOK, InFlight, Span
<1>2. UNCHANGED store
  BY DEF Settle
<1>3. CASE span[s].locks
  <2>1. Lock(s, label)
    BY <1>3 DEF Settle
  <2> QED BY <1>2, <1>3, <2>1 DEF Names
<1>4. CASE ~span[s].locks
  <2>1. Emit(s, chunk) /\ UNCHANGED <<readOnly, votes, exemplars, locked, sealed>>
    BY <1>4 DEF Settle
  <2>2. chunk \in ChunkType /\ chunk.spk = span[s].spk
    BY <1>1 DEF Chunk, ChunkType, Decision
  <2> HIDE DEF chunk
  <2> QED BY <1>1, <1>2, <1>4, <2>1, <2>2 DEF Says
<1> QED BY <1>1, <1>3, <1>4

LEMMA StepKinds ==
    ASSUME Base, Next
    PROVE  (\E s \in Session : SessionStep(s)) \/ Meddles
<1>1. ASSUME NEW s \in Session, Hear(s)
      PROVE  SessionStep(s)
  <2>1. ASSUME NEW spk \in Speaker, EmitLocked(s, spk)
        PROVE  Says(s)
    <3> DEFINE chunk == Chunk(spk, locked[s][spk], "LOCKED")
    <3>1. locked[s][spk] \in Label
      BY <2>1 DEF Base, SessionTypeOK, EmitLocked
    <3>2. /\ chunk \in ChunkType /\ chunk.spk = spk
          /\ chunk.vid = locked[s][spk].vid
      BY <3>1 DEF Chunk, ChunkType, Label, Decision
    <3>3. /\ Emit(s, chunk) /\ span[s] = None
          /\ UNCHANGED <<store, readOnly, votes, exemplars, locked, sealed>>
      BY <2>1 DEF EmitLocked
    <3> HIDE DEF chunk
    <3> QED BY <3>2, <3>3 DEF Says
  <2>2. ASSUME NEW spk \in Speaker, EmitPending(s, spk)
        PROVE  Says(s)
    <3> DEFINE chunk == Chunk(spk, Nobody, "PENDING")
    <3>1. chunk \in ChunkType /\ chunk.spk = spk
      BY DEF Chunk, ChunkType, Nobody, Decision
    <3>2. /\ Emit(s, chunk) /\ span[s] = None /\ locked[s][spk] = None
          /\ UNCHANGED <<store, readOnly, votes, exemplars, locked, sealed>>
      BY <2>2 DEF EmitPending
    <3> HIDE DEF chunk
    <3> QED BY <3>1, <3>2 DEF Says
  <2> QED BY <1>1, <2>1, <2>2 DEF Hear, SessionStep
<1>2. ASSUME NEW s \in Session, Work(s)
      PROVE  SessionStep(s)
  <2>1. ASSUME EmitUndecided(s)
        PROVE  Says(s)
    <3> DEFINE chunk == Chunk(span[s].spk, Nobody, span[s].outcome)
    <3>1. /\ span[s].spk \in Speaker /\ span[s].outcome \in Outcome
          /\ locked[s][span[s].spk] = None /\ ~span[s].locks
      BY <2>1 DEF Base, SessionTypeOK, InFlight, Span, EmitUndecided
    <3>2. chunk \in ChunkType /\ chunk.spk = span[s].spk
      BY <3>1 DEF Chunk, ChunkType, Nobody, Decision
    <3>3. /\ Emit(s, chunk) /\ span[s].call = "emit"
          /\ UNCHANGED <<store, readOnly, votes, exemplars, locked, sealed>>
      BY <2>1 DEF EmitUndecided
    <3> HIDE DEF chunk
    <3> QED BY <3>1, <3>2, <3>3 DEF Says
  <2>2. ASSUME WithholdName(s)
        PROVE  Says(s) \/ Names(s)
    BY <2>2, Settles DEF WithholdName
  <2>3. ASSUME ReadName(s)
        PROVE  Says(s) \/ Names(s)
    <3> DEFINE name == IF Stored(span[s].vid) THEN rows[span[s].vid].name ELSE None
    <3>1. span[s] # None /\ span[s].call = "row" /\ Settle(s, name)
      BY <2>3 DEF ReadName
    <3>2. span[s].vid \in Vid
      BY <3>1 DEF Base, InFlight
    <3>3. name \in Name \cup {None}
      BY <3>2 DEF Base, SessionTypeOK, Stored, Row
    <3> HIDE DEF name
    <3> QED BY <3>1, <3>3, Settles
  <2> QED BY <1>2, <2>1, <2>2, <2>3 DEF Work, SessionStep
<1>3. ASSUME OtherRequests
      PROVE  Meddles
  <2>1. rows \in [Vid -> Row \cup {None}] /\ used \subseteq Vid
    BY DEF Base, SessionTypeOK
  <2>2. ASSUME NEW vid \in Vid, NEW name \in Name, Bind(vid, name)
        PROVE  Meddles
    <3>1. [name |-> name, on |-> On(vid)] \in Row
      BY <2>1 DEF On, Stored, Row
    <3> QED BY <2>1, <2>2, <3>1 DEF Bind, Changing, Meddles
  <2>3. ASSUME NEW vid \in Vid, NEW on \in BOOLEAN, SetFlag(vid, on)
        PROVE  Meddles
    <3>1. [rows[vid] EXCEPT !.on = on] \in Row
      BY <2>1, <2>3 DEF SetFlag, Stored, Row
    <3> QED BY <2>1, <2>3, <3>1 DEF SetFlag, Changing, Meddles
  <2>4. ASSUME NEW vid \in Vid, Forget(vid)
        PROVE  Meddles
    BY <2>1, <2>4 DEF Forget, Changing, Meddles
  <2> QED BY <1>3, <2>2, <2>3, <2>4 DEF OtherRequests
<1> QED BY <1>1, <1>2, <1>3 DEF Next, SessionStep

-----------------------------------------------------------------------------
(* Types and decisions in flight *)

LEMMA BaseInit ==
    ASSUME Init
    PROVE  Base
<1>1. /\ rows \in [Vid -> Row \cup {None}] /\ used \subseteq Vid
      /\ minted \in [Vid -> Origin \cup {None}]
      /\ ledger \in Seq([by : Session, vid : Vid])
      /\ readOnly \in [Session -> BOOLEAN] /\ sealed \in [Session -> BOOLEAN]
  BY SessionAssumption DEF Init
<1>2. /\ votes \in [Session -> [Speaker -> [Candidate -> Nat]]]
      /\ locked \in [Session -> [Speaker -> Label \cup {None}]]
      /\ history \in [Session -> Seq(ChunkType)]
      /\ span \in [Session -> Span \cup {None}]
      /\ exemplars \in [Session -> [Speaker -> Seq(Candidate)]]
  BY DEF Init
<1>3. ExemplarsCapped
  BY SessionAssumption DEF Init, ExemplarsCapped
<1>4. \A s \in Session : InFlight(s)
  BY DEF Init, InFlight
<1> QED BY <1>1, <1>2, <1>3, <1>4 DEF Base, SessionTypeOK

\* A session that no step touches keeps its decision.
LEMMA Undisturbed ==
    ASSUME NEW t \in Session, InFlight(t), span'[t] = span[t], locked'[t] = locked[t],
           readOnly'[t] = readOnly[t], exemplars'[t] = exemplars[t], votes'[t] = votes[t]
    PROVE  InFlight(t)'
BY DEF InFlight

\* A step that ends a session's span and touches no other session keeps Base.
LEMMA SpanEnds ==
    ASSUME Base, NEW s \in Session, span'[s] = None,
           span' \in [Session -> Span \cup {None}],
           locked' \in [Session -> [Speaker -> Label \cup {None}]],
           history' \in [Session -> Seq(ChunkType)],
           \A t \in Session : t # s => span'[t] = span[t] /\ locked'[t] = locked[t],
           rows' \in [Vid -> Row \cup {None}], used' \subseteq Vid,
           minted' \in [Vid -> Origin \cup {None}],
           UNCHANGED <<ledger, readOnly, votes, exemplars, sealed>>
    PROVE  Base'
<1>1. SessionTypeOK' /\ ExemplarsCapped'
  BY DEF Base, SessionTypeOK, ExemplarsCapped
<1>2. ASSUME NEW t \in Session
      PROVE  InFlight(t)'
  <2>1. CASE t = s
    BY <2>1 DEF InFlight
  <2>2. CASE t # s
    BY <2>2, Undisturbed DEF Base
  <2> QED BY <2>1, <2>2
<1> QED BY <1>1, <1>2 DEF Base

LEMMA LabelTypes ==
    /\ Nobody \in Label /\ Nobody.vid = None
    /\ \A vid \in Vid, name \in Name \cup {None} :
          [vid |-> vid, name |-> name] \in Label /\ [vid |-> vid, name |-> name].vid = vid
BY DEF Nobody, Label

\* A new voiceprint's row and origin.
LEMMA MintEffect ==
    ASSUME Base, NEW s \in Session, NEW vid \in Vid, Mint(s, vid)
    PROVE  /\ rows' \in [Vid -> Row \cup {None}] /\ minted' \in [Vid -> Origin \cup {None}]
           /\ used' = used \cup {vid} /\ vid \notin used
           /\ minted'[vid] # None /\ minted'[vid].by = s /\ minted'[vid].spk = span[s].spk
           /\ minted'[vid].from = exemplars[s][span[s].spk]
           /\ \A v \in Vid \ {vid} : minted'[v] = minted[v]
<1> DEFINE spk == span[s].spk
           origin == [by |-> s, spk |-> spk, from |-> exemplars[s][spk]]
           row == [name |-> None, on |-> TRUE]
<1>1. spk \in Speaker /\ exemplars[s][spk] \in Seq(Candidate)
  BY DEF Mint, Base, SessionTypeOK, Span
<1>2. /\ origin \in Origin /\ origin.by = s /\ origin.spk = spk
      /\ origin.from = exemplars[s][spk] /\ row \in Row
  BY <1>1 DEF Origin, Row
<1>3. /\ minted' = [minted EXCEPT ![vid] = origin] /\ rows' = [rows EXCEPT ![vid] = row]
      /\ used' = used \cup {vid} /\ vid \notin used
  BY DEF Mint
<1>4. minted \in [Vid -> Origin \cup {None}] /\ rows \in [Vid -> Row \cup {None}]
  BY DEF Base, SessionTypeOK
<1> HIDE DEF origin, row, spk
<1> QED BY <1>2, <1>3, <1>4, Nones DEF spk

LEMMA BaseStep ==
    ASSUME Base, (\E s \in Session : SessionStep(s)) \/ Meddles
    PROVE  Base'
<1>1. ASSUME NEW s \in Session, Says(s)
      PROVE  Base'
  <2>1. PICK chunk \in ChunkType :
            /\ Emit(s, chunk)
            /\ UNCHANGED <<store, readOnly, votes, exemplars, locked, sealed>>
    BY <1>1 DEF Says
  <2>2. /\ history' \in [Session -> Seq(ChunkType)] /\ span' \in [Session -> Span \cup {None}]
        /\ span'[s] = None /\ \A t \in Session : t # s => span'[t] = span[t]
    BY <2>1, EmitEffect DEF Base
  <2> QED BY <2>1, <2>2, SpanEnds DEF Base, SessionTypeOK, store
<1>2. ASSUME NEW s \in Session, NEW spk \in Speaker, NEW outcome \in Outcome,
             NEW long \in BOOLEAN, Classify(s, spk, outcome, long)
      PROVE  Base'
  <2>1. SessionTypeOK' /\ ExemplarsCapped' /\ InFlight(s)'
    BY <1>2, ClassifyEffect DEF Base
  <2>2. ASSUME NEW t \in Session, t # s
        PROVE  InFlight(t)'
    <3>1. votes'[t] = votes[t] /\ span'[t] = span[t] /\ exemplars'[t] = exemplars[t]
      BY <1>2, <2>2, ClassifyEffect DEF Base
    <3>2. UNCHANGED <<readOnly, locked>>
      BY <1>2 DEF Classify
    <3> QED BY <3>1, <3>2, Undisturbed DEF Base
  <2> QED BY <2>1, <2>2 DEF Base
<1>3. ASSUME NEW s \in Session, LockAnonymous(s)
      PROVE  Base'
  <2>1. span[s] # None /\ Lock(s, Nobody) /\ UNCHANGED store
    BY <1>3 DEF LockAnonymous
  <2> QED BY <2>1, LabelTypes, LockEffect, SpanEnds DEF Base, SessionTypeOK, store
<1>4. ASSUME NEW s \in Session, NEW vid \in Vid, Mint(s, vid)
      PROVE  Base'
  <2>1. span[s] # None /\ Lock(s, [vid |-> vid, name |-> None]) /\ UNCHANGED ledger
    BY <1>4 DEF Mint
  <2>2. used' \subseteq Vid
    BY <1>4, MintEffect DEF Base, SessionTypeOK
  <2> QED BY <1>4, <2>1, <2>2, LabelTypes, LockEffect, MintEffect, SpanEnds DEF Base
<1>5. ASSUME NEW s \in Session, NEW c \in {"flag", "row"}, span[s] # None,
             span[s].call \in {"log", "flag"},
             span' = [span EXCEPT ![s].call = c],
             ledger' \in Seq([by : Session, vid : Vid]),
             UNCHANGED <<rows, used, minted, readOnly, votes, exemplars, locked, history, sealed>>
      PROVE  Base'
  <2>1. /\ span' \in [Session -> Span \cup {None}] /\ span'[s] # None /\ span'[s].call = c
        /\ span'[s].spk = span[s].spk /\ span'[s].vid = span[s].vid
        /\ span'[s].locks <=> span[s].locks
        /\ \A t \in Session \ {s} : span'[t] = span[t]
    BY <1>5, NextCallEffect DEF Base
  <2>2. SessionTypeOK' /\ ExemplarsCapped'
    BY <1>5, <2>1 DEF Base, SessionTypeOK, ExemplarsCapped
  <2>3. InFlight(s)'
    BY <1>5, <2>1 DEF Base, InFlight
  <2>4. ASSUME NEW t \in Session, t # s
        PROVE  InFlight(t)'
    BY <1>5, <2>1, <2>4, Undisturbed DEF Base
  <2> QED BY <2>2, <2>3, <2>4 DEF Base
<1>6. ASSUME NEW s \in Session, LogIdentify(s)
      PROVE  Base'
  <2>1. [by |-> s, vid |-> span[s].vid] \in [by : Session, vid : Vid]
    BY <1>6 DEF LogIdentify, Base, InFlight
  <2>2. ledger' \in Seq([by : Session, vid : Vid])
    <3> DEFINE r == [by |-> s, vid |-> span[s].vid]
    <3>1. r \in [by : Session, vid : Vid] /\ ledger' = Append(ledger, r)
      BY <1>6, <2>1 DEF LogIdentify
    <3> HIDE DEF r
    <3> QED BY <3>1 DEF Base, SessionTypeOK
  <2> QED BY <1>5, <1>6, <2>2 DEF LogIdentify
<1>7. ASSUME NEW s \in Session, Names(s)
      PROVE  Base'
  <2>1. PICK name \in Name \cup {None} :
            /\ span[s] # None /\ span[s].call \in {"flag", "row"}
            /\ Lock(s, [vid |-> span[s].vid, name |-> name]) /\ UNCHANGED store
    BY <1>7 DEF Names
  <2>2. span[s].vid \in Vid
    BY <2>1 DEF Base, InFlight
  <2> QED BY <2>1, <2>2, LabelTypes, LockEffect, SpanEnds DEF Base, SessionTypeOK, store
<1>8. ASSUME NEW s \in Session, ReadFlag(s)
      PROVE  Base'
  <2>1. ledger' \in Seq([by : Session, vid : Vid])
    BY <1>8 DEF ReadFlag, store, Base, SessionTypeOK
  <2> QED BY <1>5, <1>8, <2>1 DEF ReadFlag, store
<1>9. ASSUME NEW s \in Session, Seal(s)
      PROVE  Base'
  <2>1. SessionTypeOK' /\ ExemplarsCapped'
    BY <1>9 DEF Seal, store, Base, SessionTypeOK, ExemplarsCapped
  <2>2. UNCHANGED <<span, locked, readOnly, exemplars, votes>>
    BY <1>9 DEF Seal
  <2> QED BY <2>1, <2>2, Undisturbed DEF Base
<1>10. ASSUME Meddles
       PROVE  Base'
  <2>1. SessionTypeOK' /\ ExemplarsCapped'
    BY <1>10 DEF Meddles, session, Base, SessionTypeOK, ExemplarsCapped
  <2>2. UNCHANGED <<span, locked, readOnly, exemplars, votes>>
    BY <1>10 DEF Meddles, session
  <2> QED BY <2>1, <2>2, Undisturbed DEF Base
<1> QED BY <1>1, <1>2, <1>3, <1>4, <1>6, <1>7, <1>8, <1>9, <1>10 DEF SessionStep

-----------------------------------------------------------------------------
(* The locks *)

MintedLocked ==
    \A vid \in Vid : minted[vid] # None =>
        /\ vid \in used
        /\ locked[minted[vid].by][minted[vid].spk] # None
        /\ locked[minted[vid].by][minted[vid].spk].vid = vid

\* vid was minted, by table, for this speaker of this session.
Own(table, s, spk, vid) ==
    vid # None /\ table[vid] # None /\ table[vid].by = s /\ table[vid].spk = spk

\* A label is what the tally led to.
Earned(label, table, tally, s, spk) ==
    label # None =>
        Leads(tally, IF label.vid = None \/ Own(table, s, spk, label.vid)
                     THEN Unknown ELSE label.vid)

LocksEarned ==
    \A s \in Session, spk \in Speaker :
        Earned(locked[s][spk], minted, votes[s][spk], s, spk)

LEMMA MajorityIsEarned ==
    LockHasMajority <=> LocksEarned
BY DEF LockHasMajority, LocksEarned, Earned, Own, Leads

LockInv == MintedLocked /\ LocksEarned /\ MintIsGated

\* A step that leaves the locks, their votes and the mints alone.
LEMMA LocksKept ==
    ASSUME Base, LockInv, UNCHANGED <<minted, locked, readOnly>>, used \subseteq used',
           \A s \in Session, spk \in Speaker :
              locked[s][spk] # None => votes'[s][spk] = votes[s][spk]
    PROVE  LockInv'
<1>1. MintedLocked' /\ MintIsGated'
  BY DEF LockInv, MintedLocked, MintIsGated
<1>2. LocksEarned'
  BY DEF LockInv, LocksEarned, Earned
<1> QED BY <1>1, <1>2 DEF LockInv

\* A lock to a label its votes led to, with nothing minted.
LEMMA LockKeeps ==
    ASSUME Base, LockInv, NEW s \in Session, NEW label \in Label,
           span[s] # None, Lock(s, label), UNCHANGED <<minted, used>>,
           label.vid = None => Leads(votes[s][span[s].spk], Unknown),
           label.vid # None => label.vid \in Vid /\ Leads(votes[s][span[s].spk], label.vid)
    PROVE  LockInv'
<1> DEFINE spk == span[s].spk
<1>0. /\ spk \in Speaker /\ locked[s][spk] = None /\ locked'[s][spk] = label
      /\ \A k \in Speaker : k # spk => locked'[s][k] = locked[s][k]
      /\ \A t \in Session : t # s => locked'[t] = locked[t]
      /\ UNCHANGED <<readOnly, votes>>
      /\ label.vid = None => Leads(votes[s][spk], Unknown)
      /\ label.vid # None => label.vid \in Vid /\ Leads(votes[s][spk], label.vid)
  BY LockEffect DEF Base, InFlight
<1> HIDE DEF spk
<1>1. minted \in [Vid -> Origin \cup {None}]
  BY DEF Base, SessionTypeOK
<1>2. MintedLocked'
  <2>1. ASSUME NEW vid \in Vid, minted[vid] # None
        PROVE  LET by == minted[vid].by
                   k == minted[vid].spk
               IN  /\ vid \in used /\ locked'[by][k] = locked[by][k]
                   /\ locked[by][k] # None /\ locked[by][k].vid = vid
    <3>1. minted[vid].by \in Session /\ minted[vid].spk \in Speaker
      BY <1>1, <2>1 DEF Origin
    <3>2. /\ vid \in used /\ locked[minted[vid].by][minted[vid].spk] # None
          /\ locked[minted[vid].by][minted[vid].spk].vid = vid
      BY <2>1 DEF LockInv, MintedLocked
    <3> QED BY <1>0, <3>1, <3>2
  <2> QED BY <2>1 DEF MintedLocked
<1>3. MintIsGated'
  BY <1>0 DEF LockInv, MintIsGated
<1>4. label.vid # None => ~Own(minted, s, spk, label.vid)
  BY <1>0 DEF LockInv, MintedLocked, Own
<1>5. ASSUME NEW t \in Session, NEW k \in Speaker
      PROVE  Earned(locked'[t][k], minted, votes[t][k], t, k)
  <2>1. CASE t = s /\ k = spk
    BY <1>0, <1>4, <2>1 DEF Earned
  <2>2. CASE ~(t = s /\ k = spk)
    <3>1. locked'[t][k] = locked[t][k]
      BY <1>0, <2>2
    <3> QED BY <3>1 DEF LockInv, LocksEarned
  <2> QED BY <2>1, <2>2
<1>6. LocksEarned'
  BY <1>0, <1>5 DEF LocksEarned
<1> QED BY <1>2, <1>3, <1>6 DEF LockInv

LEMMA MintKeeps ==
    ASSUME Base, LockInv, NEW s \in Session, NEW vid \in Vid, Mint(s, vid)
    PROVE  LockInv'
<1> DEFINE spk == span[s].spk
           label == [vid |-> vid, name |-> None]
           origin == minted'[vid]
<1>1. /\ used' = used \cup {vid} /\ vid \notin used
      /\ origin # None /\ origin.by = s /\ origin.spk = spk /\ origin.from = exemplars[s][spk]
      /\ \A v \in Vid \ {vid} : minted'[v] = minted[v]
  BY MintEffect
<1>2. /\ span[s] # None /\ span[s].call = "mint" /\ Lock(s, label)
      /\ label \in Label /\ label.vid = vid
  BY LabelTypes DEF Mint
<1>3. /\ spk \in Speaker /\ locked'[s][spk] = label
      /\ \A k \in Speaker : k # spk => locked'[s][k] = locked[s][k]
      /\ \A t \in Session : t # s => locked'[t] = locked[t]
      /\ UNCHANGED <<readOnly, votes>>
  BY <1>2, LockEffect DEF Base
<1>4. /\ locked[s][spk] = None /\ ~readOnly[s]
      /\ exemplars[s][spk] # <<>> /\ Leads(votes[s][spk], Unknown)
  BY <1>2 DEF Base, InFlight
<1>5. label # None /\ minted[vid] = None
  BY <1>1, <1>2, Nones DEF LockInv, MintedLocked
<1>6. minted \in [Vid -> Origin \cup {None}]
  BY DEF Base, SessionTypeOK
<1> HIDE DEF spk, label, origin
<1>7. MintedLocked'
  <2>1. ASSUME NEW v \in Vid, v # vid, minted[v] # None
        PROVE  LET by == minted[v].by
                   k == minted[v].spk
               IN  /\ v \in used' /\ locked'[by][k] = locked[by][k]
                   /\ locked[by][k] # None /\ locked[by][k].vid = v
    <3>1. minted[v].by \in Session /\ minted[v].spk \in Speaker
      BY <1>6, <2>1 DEF Origin
    <3>2. /\ v \in used /\ locked[minted[v].by][minted[v].spk] # None
          /\ locked[minted[v].by][minted[v].spk].vid = v
      BY <2>1 DEF LockInv, MintedLocked
    <3> QED BY <1>1, <1>3, <1>4, <3>1, <3>2
  <2> QED BY <1>1, <1>2, <1>3, <1>5, <2>1 DEF MintedLocked, origin
<1>8. MintIsGated'
  <2>1. Len(exemplars[s][spk]) \in 1 .. MAX_EXEMPLARS
    <3>1. /\ exemplars[s][spk] \in Seq(Candidate) /\ Len(exemplars[s][spk]) <= MAX_EXEMPLARS
          /\ MAX_EXEMPLARS \in Nat
      BY <1>3, SessionAssumption DEF Base, SessionTypeOK, ExemplarsCapped
    <3> QED BY <1>4, <3>1
  <2>2. ASSUME NEW v \in Vid, v # vid, minted[v] # None
        PROVE  ~readOnly[minted[v].by] /\ Len(minted[v].from) \in 1 .. MAX_EXEMPLARS
    BY <2>2 DEF LockInv, MintIsGated
  <2> QED BY <1>1, <1>3, <1>4, <2>1, <2>2 DEF MintIsGated, origin
<1>9. ASSUME NEW t \in Session, NEW k \in Speaker
      PROVE  Earned(locked'[t][k], minted', votes[t][k], t, k)
  <2>1. CASE t = s /\ k = spk
    BY <1>1, <1>2, <1>3, <1>4, <2>1, Nones DEF Earned, Own, origin
  <2>2. CASE ~(t = s /\ k = spk)
    <3>1. locked'[t][k] = locked[t][k] /\ Earned(locked[t][k], minted, votes[t][k], t, k)
      BY <1>3, <2>2 DEF LockInv, LocksEarned
    <3>2. ASSUME locked[t][k] # None, locked[t][k].vid # None
          PROVE  Own(minted', t, k, locked[t][k].vid) <=> Own(minted, t, k, locked[t][k].vid)
      <4>1. locked[t][k].vid \in Vid
        BY <3>2 DEF Base, SessionTypeOK, Label
      <4> QED BY <1>1, <1>5, <2>2, <4>1 DEF Own, origin
    <3> QED BY <3>1, <3>2 DEF Earned
  <2> QED BY <2>1, <2>2
<1>10. LocksEarned'
  BY <1>3, <1>9 DEF LocksEarned
<1> QED BY <1>7, <1>8, <1>10 DEF LockInv

LEMMA LockStep ==
    ASSUME Base, LockInv, (\E s \in Session : SessionStep(s)) \/ Meddles
    PROVE  LockInv'
<1>1. ASSUME UNCHANGED <<minted, locked, readOnly, votes>>, used \subseteq used'
      PROVE  LockInv'
  BY <1>1, LocksKept
<1>2. ASSUME NEW s \in Session, NEW spk \in Speaker, NEW outcome \in Outcome,
             NEW long \in BOOLEAN, Classify(s, spk, outcome, long)
      PROVE  LockInv'
  <2>1. /\ \A k \in Speaker \ {spk} : votes'[s][k] = votes[s][k]
        /\ \A t \in Session \ {s} : votes'[t] = votes[t]
    BY <1>2, ClassifyEffect DEF Base
  <2>2. locked[s][spk] = None /\ UNCHANGED <<minted, locked, readOnly, used>>
    BY <1>2 DEF Classify, store
  <2> QED BY <2>1, <2>2, LocksKept
<1>3. ASSUME NEW s \in Session, LockAnonymous(s)
      PROVE  LockInv'
  <2>1. /\ span[s] # None /\ span[s].call = "anon" /\ Lock(s, Nobody)
        /\ UNCHANGED <<minted, used>>
    BY <1>3 DEF LockAnonymous, store
  <2>2. locked[s][span[s].spk] = None /\ Leads(votes[s][span[s].spk], Unknown)
    BY <2>1 DEF Base, InFlight
  <2> QED BY <2>1, <2>2, LabelTypes, LockKeeps
<1>4. ASSUME NEW s \in Session, Names(s)
      PROVE  LockInv'
  <2>1. PICK name \in Name \cup {None} :
            /\ span[s] # None /\ span[s].call \in {"flag", "row"} /\ span[s].locks
            /\ Lock(s, [vid |-> span[s].vid, name |-> name])
            /\ UNCHANGED <<minted, used>>
    BY <1>4 DEF Names, store
  <2>2. /\ locked[s][span[s].spk] = None /\ span[s].vid \in Vid
        /\ Leads(votes[s][span[s].spk], span[s].vid)
    BY <2>1 DEF Base, InFlight
  <2>3. [vid |-> span[s].vid, name |-> name] \in Label
    BY <2>2 DEF Label
  <2>4. [vid |-> span[s].vid, name |-> name].vid = span[s].vid /\ span[s].vid # None
    BY <2>2, Nones
  <2> QED BY <2>1, <2>2, <2>3, <2>4, LockKeeps
<1>5. ASSUME NEW s \in Session, Says(s) \/ LogIdentify(s) \/ ReadFlag(s) \/ Seal(s)
      PROVE  LockInv'
  BY <1>1, <1>5 DEF Says, LogIdentify, ReadFlag, Seal, store
<1>6. ASSUME Meddles
      PROVE  LockInv'
  BY <1>1, <1>6 DEF Meddles, session
<1> QED BY <1>2, <1>3, <1>4, <1>5, <1>6, MintKeeps DEF SessionStep

-----------------------------------------------------------------------------
(* The transcript *)

\* A step of session s that writes its transcript anew, to a longer one whose
\* chunks follow the locks after it.
LEMMA FollowsAnew ==
    ASSUME TranscriptFollowsLock, NEW s \in Session,
           UNCHANGED sealed,
           \A t \in Session : t # s => locked'[t] = locked[t] /\ history'[t] = history[t],
           ~sealed[s] => \A i \in DOMAIN history'[s] :
               locked'[s][history'[s][i].spk] # None =>
                   history'[s][i].vid = locked'[s][history'[s][i].spk].vid
    PROVE  TranscriptFollowsLock'
<1> SUFFICES ASSUME NEW t \in Session, ~sealed[t], NEW i \in DOMAIN history'[t],
                    locked'[t][history'[t][i].spk] # None
             PROVE  history'[t][i].vid = locked'[t][history'[t][i].spk].vid
  BY DEF TranscriptFollowsLock
<1>1. CASE t = s
  BY <1>1
<1>2. CASE t # s
  BY <1>2 DEF TranscriptFollowsLock
<1> QED BY <1>1, <1>2

LEMMA LockFollows ==
    ASSUME Base, TranscriptFollowsLock, NEW s \in Session, span[s] # None,
           NEW label \in Label, Lock(s, label)
    PROVE  TranscriptFollowsLock'
<1> DEFINE spk == span[s].spk
           h == history[s]
           r == Relabel(s, spk, label)
           chunk == Chunk(spk, label, "LOCKED")
<1>1. /\ spk \in Speaker /\ locked'[s][spk] = label /\ history'[s] = Append(r, chunk)
      /\ \A k \in Speaker : k # spk => locked'[s][k] = locked[s][k]
      /\ \A t \in Session : t # s => locked'[t] = locked[t] /\ history'[t] = history[t]
      /\ UNCHANGED sealed
  BY LockEffect DEF Base
<1>2. /\ h \in Seq(ChunkType) /\ r \in Seq(ChunkType) /\ Len(r) = Len(h)
      /\ chunk.spk = spk /\ chunk.vid = label.vid
  BY RelabelType DEF Base, SessionTypeOK, Chunk
<1>3. ASSUME ~sealed[s], NEW i \in 1 .. Len(h), locked'[s][r[i].spk] # None
      PROVE  r[i].vid = locked'[s][r[i].spk].vid
  <2>0. h[i] \in ChunkType /\ DOMAIN history[s] = 1 .. Len(h)
    BY <1>2
  <2>1. h[i].spk \in Speaker
    BY <2>0 DEF ChunkType
  <2>2. /\ r[i].spk = h[i].spk
        /\ h[i].spk # spk => r[i] = h[i]
        /\ h[i].spk = spk => r[i].vid = label.vid
    BY <1>3, <2>0, RelabelType DEF Base
  <2> HIDE DEF spk, r
  <2>3. CASE h[i].spk = spk
    BY <1>1, <2>2, <2>3
  <2>4. CASE h[i].spk # spk
    BY <1>1, <1>3, <2>0, <2>1, <2>2, <2>4 DEF TranscriptFollowsLock
  <2> QED BY <2>3, <2>4
<1> HIDE DEF spk, h, r, chunk
<1>4. ASSUME ~sealed[s], NEW i \in DOMAIN history'[s],
             locked'[s][history'[s][i].spk] # None
      PROVE  history'[s][i].vid = locked'[s][history'[s][i].spk].vid
  <2>1. i \in 1 .. Len(h) + 1
    BY <1>1, <1>2, <1>4
  <2>2. CASE i = Len(h) + 1
    BY <1>1, <1>2, <2>2
  <2>3. CASE i \in 1 .. Len(h)
    <3>1. history'[s][i] = r[i]
      BY <1>1, <1>2, <2>3
    <3> QED BY <1>3, <1>4, <2>3, <3>1
  <2> QED BY <1>2, <2>1, <2>2, <2>3
<1> QED BY <1>1, <1>4, FollowsAnew

LEMMA SaysFollows ==
    ASSUME Base, TranscriptFollowsLock, NEW s \in Session, Says(s)
    PROVE  TranscriptFollowsLock'
<1>1. PICK chunk \in ChunkType :
          /\ Emit(s, chunk)
          /\ locked[s][chunk.spk] # None => chunk.vid = locked[s][chunk.spk].vid
          /\ UNCHANGED <<locked, sealed>>
  BY DEF Says
<1> DEFINE h == history[s]
<1>2. /\ history'[s] = Append(h, chunk) /\ h \in Seq(ChunkType)
      /\ \A t \in Session : t # s => history'[t] = history[t]
  BY <1>1, EmitEffect DEF Base, SessionTypeOK
<1>3. ASSUME ~sealed[s], NEW i \in 1 .. Len(h), locked[s][h[i].spk] # None
      PROVE  h[i].vid = locked[s][h[i].spk].vid
  BY <1>2, <1>3 DEF TranscriptFollowsLock
<1> HIDE DEF h
<1>4. ASSUME ~sealed[s], NEW i \in DOMAIN history'[s],
             locked[s][history'[s][i].spk] # None
      PROVE  history'[s][i].vid = locked[s][history'[s][i].spk].vid
  <2>1. i \in 1 .. Len(h) + 1
    BY <1>2, <1>4
  <2>2. CASE i = Len(h) + 1
    BY <1>1, <1>2, <1>4, <2>2
  <2>3. CASE i \in 1 .. Len(h)
    <3>1. history'[s][i] = h[i]
      BY <1>2, <2>3
    <3> QED BY <1>3, <1>4, <2>3, <3>1
  <2> QED BY <1>2, <2>1, <2>2, <2>3
<1> QED BY <1>1, <1>2, <1>4, FollowsAnew

\* Every lock of a session is a Lock to a label.
LEMMA Locking ==
    ASSUME Base, NEW s \in Session,
           LockAnonymous(s) \/ (\E vid \in Vid : Mint(s, vid)) \/ Names(s)
    PROVE  span[s] # None /\ \E label \in Label : Lock(s, label)
<1>1. CASE LockAnonymous(s)
  BY <1>1, LabelTypes DEF LockAnonymous
<1>2. CASE \E vid \in Vid : Mint(s, vid)
  BY <1>2, LabelTypes DEF Mint
<1>3. CASE Names(s)
  <2>1. PICK name \in Name \cup {None} :
            /\ span[s] # None /\ span[s].call \in {"flag", "row"}
            /\ Lock(s, [vid |-> span[s].vid, name |-> name])
    BY <1>3 DEF Names
  <2>2. span[s].vid \in Vid
    BY <2>1 DEF Base, InFlight
  <2> QED BY <2>1, <2>2, LabelTypes
<1> QED BY <1>1, <1>2, <1>3

LEMMA TranscriptStep ==
    ASSUME Base, TranscriptFollowsLock, (\E s \in Session : SessionStep(s)) \/ Meddles
    PROVE  TranscriptFollowsLock'
<1>1. ASSUME UNCHANGED <<history, locked, sealed>>
      PROVE  TranscriptFollowsLock'
  BY <1>1 DEF TranscriptFollowsLock
<1>2. ASSUME NEW s \in Session,
             LockAnonymous(s) \/ (\E vid \in Vid : Mint(s, vid)) \/ Names(s)
      PROVE  TranscriptFollowsLock'
  BY <1>2, Locking, LockFollows
<1>3. ASSUME NEW s \in Session, Seal(s)
      PROVE  TranscriptFollowsLock'
  <2>1. /\ UNCHANGED <<history, locked>>
        /\ \A t \in Session : ~sealed'[t] => ~sealed[t]
    BY <1>3 DEF Seal, Base, SessionTypeOK
  <2> QED BY <2>1 DEF TranscriptFollowsLock
<1>4. ASSUME NEW s \in Session,
             \/ LogIdentify(s) \/ ReadFlag(s)
             \/ \E spk \in Speaker, outcome \in Outcome, long \in BOOLEAN :
                   Classify(s, spk, outcome, long)
      PROVE  TranscriptFollowsLock'
  BY <1>1, <1>4 DEF LogIdentify, ReadFlag, Classify
<1>5. ASSUME Meddles
      PROVE  TranscriptFollowsLock'
  BY <1>1, <1>5 DEF Meddles, session
<1> QED BY <1>2, <1>3, <1>4, <1>5, SaysFollows DEF SessionStep

-----------------------------------------------------------------------------
(* The identify rows *)

RowsOf(log, s, vid) == {i \in DOMAIN log : log[i] = [by |-> s, vid |-> vid]}

\* The speakers of s whose label is vid, by labels, and was not minted for them.
LockedTo(labels, table, s, vid) ==
    {spk \in Speaker : labels[s][spk] # None /\ labels[s][spk].vid = vid
                         /\ ~(table[vid] # None /\ table[vid].by = s /\ table[vid].spk = spk)}

\* A row is written, the lock not yet.
Owed(p, vid) ==
    IF p # None /\ p.locks /\ p.vid = vid /\ p.call \in {"flag", "row"} THEN 1 ELSE 0

Counted(log, labels, table, p, s, vid) ==
    /\ IsFiniteSet(LockedTo(labels, table, s, vid))
    /\ Cardinality(RowsOf(log, s, vid)) =
          Cardinality(LockedTo(labels, table, s, vid)) + Owed(p, vid)

LedgerInv ==
    \A s \in Session, vid \in Vid : Counted(ledger, locked, minted, span[s], s, vid)

LEMMA CountedMatches ==
    ASSUME LedgerInv
    PROVE  LedgerMatchesLocks
<1> SUFFICES ASSUME NEW s \in Session, NEW vid \in Vid
             PROVE  Cardinality(RowsOf(ledger, s, vid)) =
                       Cardinality(LockedTo(locked, minted, s, vid))
                     + (IF span[s] # None /\ span[s].locks /\ span[s].vid = vid
                           /\ span[s].call \in {"flag", "row"} THEN 1 ELSE 0)
  BY DEF LedgerMatchesLocks, RowsOf, LockedTo
<1>1. Counted(ledger, locked, minted, span[s], s, vid)
  BY DEF LedgerInv
<1> QED BY <1>1 DEF Counted, Owed

LEMMA CountedInit ==
    ASSUME Init
    PROVE  LedgerInv
<1> SUFFICES ASSUME NEW s \in Session, NEW vid \in Vid
             PROVE  Counted(ledger, locked, minted, span[s], s, vid)
  BY DEF LedgerInv
<1>1. RowsOf(ledger, s, vid) = {} /\ LockedTo(locked, minted, s, vid) = {}
  BY DEF Init, RowsOf, LockedTo
<1>2. Owed(span[s], vid) = 0
  BY DEF Init, Owed
<1> QED BY <1>1, <1>2, FS_EmptySet DEF Counted

\* A log's rows of one voiceprint are a finite set that a further row extends.
LEMMA RowAppended ==
    ASSUME NEW S, NEW log \in Seq(S), NEW row \in S, NEW s, NEW vid
    PROVE  /\ row = [by |-> s, vid |-> vid] =>
                 Cardinality(RowsOf(Append(log, row), s, vid)) =
                    Cardinality(RowsOf(log, s, vid)) + 1
           /\ row # [by |-> s, vid |-> vid] =>
                 RowsOf(Append(log, row), s, vid) = RowsOf(log, s, vid)
<1> DEFINE longer == Append(log, row)
           last == Len(log) + 1
           before == RowsOf(log, s, vid)
<1>1. /\ Len(log) \in Nat /\ DOMAIN log = 1 .. Len(log) /\ DOMAIN longer = 1 .. last
      /\ longer[last] = row /\ \A i \in 1 .. Len(log) : longer[i] = log[i]
  <2>1. /\ longer \in Seq(S) /\ Len(longer) = last /\ longer[last] = row
        /\ \A i \in 1 .. Len(log) : longer[i] = log[i]
    BY AppendProperties
  <2> HIDE DEF longer
  <2> QED BY <2>1
<1> HIDE DEF longer
<1>2. before \subseteq 1 .. Len(log) /\ last \notin before
  BY <1>1 DEF RowsOf
<1>3. IsFiniteSet(before)
  <2> HIDE DEF before
  <2>1. IsFiniteSet(1 .. Len(log))
    BY <1>1, FS_Interval
  <2> QED BY <1>2, <2>1, FS_Subset
<1>4. CASE row = [by |-> s, vid |-> vid]
  <2>1. RowsOf(longer, s, vid) = before \cup {last}
    BY <1>1, <1>4 DEF RowsOf
  <2> HIDE DEF before, last
  <2> QED BY <1>2, <1>3, <1>4, <2>1, FS_AddElement DEF before, longer
<1>5. CASE row # [by |-> s, vid |-> vid]
  <2>1. RowsOf(longer, s, vid) = before
    BY <1>1, <1>5 DEF RowsOf
  <2> QED BY <1>5, <2>1 DEF longer
<1> QED BY <1>4, <1>5

\* A step that changes no row and no lock keeps the count if it keeps what is
\* owed.
LEMMA CountKept ==
    ASSUME LedgerInv, UNCHANGED <<ledger, locked, minted>>,
           \A t \in Session, v \in Vid : Owed(span'[t], v) = Owed(span[t], v)
    PROVE  LedgerInv'
BY DEF LedgerInv, Counted

LEMMA LogCounts ==
    ASSUME Base, LedgerInv, NEW s \in Session, LogIdentify(s)
    PROVE  LedgerInv'
<1> DEFINE row == [by |-> s, vid |-> span[s].vid]
<1>1. /\ span[s] # None /\ span[s].call = "log" /\ span[s].locks /\ span[s].vid \in Vid
      /\ ledger' = Append(ledger, row) /\ UNCHANGED <<locked, minted>>
      /\ span' = [span EXCEPT ![s].call = "flag"]
  BY DEF LogIdentify, Base, InFlight
<1>2. /\ span'[s] # None /\ span'[s].call = "flag" /\ span'[s].vid = span[s].vid
      /\ span'[s].locks /\ \A t \in Session \ {s} : span'[t] = span[t]
  BY <1>1, NextCallEffect DEF Base
<1> DEFINE Rows == [by : Session, vid : Vid]
<1>3. row \in Rows /\ ledger \in Seq(Rows)
  BY <1>1 DEF Base, SessionTypeOK
<1> HIDE DEF Rows
<1> SUFFICES ASSUME NEW t \in Session, NEW v \in Vid
             PROVE  Counted(ledger', locked', minted', span'[t], t, v)
  BY DEF LedgerInv
<1>4. Counted(ledger, locked, minted, span[t], t, v)
  BY DEF LedgerInv
<1>5. Cardinality(LockedTo(locked, minted, t, v)) \in Nat
  BY <1>4, FS_CardinalityType DEF Counted
<1>6. CASE t = s /\ v = span[s].vid
  <2>1. Owed(span[t], v) = 0 /\ Owed(span'[t], v) = 1
    BY <1>1, <1>2, <1>6 DEF Owed
  <2>2. row = [by |-> t, vid |-> v]
    BY <1>6
  <2> HIDE DEF row
  <2>3. Cardinality(RowsOf(ledger', t, v)) = Cardinality(RowsOf(ledger, t, v)) + 1
    BY <1>1, <1>3, <2>2, RowAppended
  <2> QED BY <1>1, <1>4, <1>5, <2>1, <2>3 DEF Counted
<1>7. CASE ~(t = s /\ v = span[s].vid)
  <2>1. Owed(span'[t], v) = Owed(span[t], v)
    BY <1>1, <1>2, <1>7 DEF Owed
  <2>2. row # [by |-> t, vid |-> v]
    BY <1>7
  <2> HIDE DEF row
  <2>3. RowsOf(ledger', t, v) = RowsOf(ledger, t, v)
    BY <1>1, <1>3, <2>2, RowAppended
  <2> QED BY <1>1, <1>4, <2>1, <2>3 DEF Counted
<1> QED BY <1>6, <1>7

\* A lock with nothing minted: the speaker joins the ones locked to the label.
LEMMA LockCounts ==
    ASSUME Base, MintedLocked, LedgerInv, NEW s \in Session, span[s] # None,
           NEW label \in Label, Lock(s, label), UNCHANGED <<ledger, minted>>,
           \A v \in Vid : Owed(span[s], v) = IF label.vid = v THEN 1 ELSE 0
    PROVE  LedgerInv'
<1> DEFINE spk == span[s].spk
<1>1. /\ spk \in Speaker /\ locked[s][spk] = None /\ locked'[s][spk] = label
      /\ \A k \in Speaker : k # spk => locked'[s][k] = locked[s][k]
      /\ \A t \in Session : t # s => locked'[t] = locked[t] /\ span'[t] = span[t]
      /\ span'[s] = None
  BY LockEffect DEF Base, InFlight
<1> HIDE DEF spk
<1> SUFFICES ASSUME NEW t \in Session, NEW v \in Vid
             PROVE  Counted(ledger, locked', minted, span'[t], t, v)
  BY DEF LedgerInv
<1> DEFINE before == LockedTo(locked, minted, t, v)
           after == LockedTo(locked', minted, t, v)
<1>2. /\ IsFiniteSet(before)
      /\ Cardinality(RowsOf(ledger, t, v)) = Cardinality(before) + Owed(span[t], v)
  BY DEF LedgerInv, Counted
<1>3. CASE t # s
  BY <1>1, <1>2, <1>3 DEF Counted, LockedTo
<1>4. CASE t = s /\ label.vid # v
  <2>1. after = before
    BY <1>1, <1>4 DEF LockedTo
  <2>2. Owed(span[t], v) = 0 /\ Owed(span'[t], v) = 0
    BY <1>1, <1>4 DEF Owed
  <2> QED BY <1>2, <2>1, <2>2 DEF Counted
<1>5. CASE t = s /\ label.vid = v
  <2>1. ~(minted[v] # None /\ minted[v].by = s /\ minted[v].spk = spk)
    BY <1>1 DEF MintedLocked
  <2>2. label # None
    BY Nones
  <2>3. after = before \cup {spk} /\ spk \notin before
    BY <1>1, <1>5, <2>1, <2>2 DEF LockedTo
  <2>4. Owed(span[t], v) = 1 /\ Owed(span'[t], v) = 0
    BY <1>1, <1>5 DEF Owed
  <2> HIDE DEF before, after
  <2>5. /\ IsFiniteSet(after) /\ Cardinality(after) = Cardinality(before) + 1
        /\ Cardinality(before) \in Nat
    BY <1>2, <2>3, FS_AddElement, FS_CardinalityType
  <2> QED BY <1>2, <2>4, <2>5 DEF Counted, before, after
<1> QED BY <1>3, <1>4, <1>5

LEMMA MintCounts ==
    ASSUME Base, MintedLocked, LedgerInv, NEW s \in Session, NEW vid \in Vid, Mint(s, vid)
    PROVE  LedgerInv'
<1> DEFINE spk == span[s].spk
           label == [vid |-> vid, name |-> None]
           origin == minted'[vid]
<1>1. /\ vid \notin used /\ origin # None /\ origin.by = s /\ origin.spk = spk
      /\ \A v \in Vid \ {vid} : minted'[v] = minted[v]
  BY MintEffect
<1>2. /\ span[s] # None /\ span[s].call = "mint" /\ Lock(s, label) /\ UNCHANGED ledger
      /\ label \in Label /\ label.vid = vid
  BY LabelTypes DEF Mint
<1>3. /\ spk \in Speaker /\ locked[s][spk] = None /\ locked'[s][spk] = label
      /\ \A k \in Speaker : k # spk => locked'[s][k] = locked[s][k]
      /\ \A t \in Session : t # s => locked'[t] = locked[t] /\ span'[t] = span[t]
      /\ span'[s] = None
  BY <1>2, LockEffect DEF Base, InFlight
<1>4. minted[vid] = None
  BY <1>1 DEF MintedLocked
<1> SUFFICES ASSUME NEW t \in Session, NEW v \in Vid
             PROVE  Counted(ledger', locked', minted', span'[t], t, v)
  BY DEF LedgerInv
<1>5. Counted(ledger, locked, minted, span[t], t, v)
  BY DEF LedgerInv
<1>6. Owed(span'[t], v) = Owed(span[t], v)
  BY <1>2, <1>3 DEF Owed
<1> HIDE DEF spk, label, origin
<1>7. LockedTo(locked', minted', t, v) = LockedTo(locked, minted, t, v)
  <2>1. CASE v = vid
    BY <1>1, <1>2, <1>3, <1>4, <2>1 DEF LockedTo, origin
  <2>2. CASE v # vid
    BY <1>1, <1>2, <1>3, <2>2 DEF LockedTo
  <2> QED BY <2>1, <2>2
<1> QED BY <1>2, <1>5, <1>6, <1>7 DEF Counted

LEMMA LedgerStep ==
    ASSUME Base, MintedLocked, LedgerInv, (\E s \in Session : SessionStep(s)) \/ Meddles
    PROVE  LedgerInv'
<1>1. ASSUME NEW s \in Session, Says(s)
      PROVE  LedgerInv'
  <2>1. PICK chunk \in ChunkType : Emit(s, chunk) /\ UNCHANGED <<ledger, locked, minted>>
    BY <1>1 DEF Says, store
  <2>2. span'[s] = None /\ \A t \in Session : t # s => span'[t] = span[t]
    BY <2>1, EmitEffect DEF Base
  <2>3. span[s] # None => ~span[s].locks
    BY <1>1 DEF Says
  <2> QED BY <2>1, <2>2, <2>3, CountKept DEF Owed
<1>2. ASSUME NEW s \in Session, NEW spk \in Speaker, NEW outcome \in Outcome,
             NEW long \in BOOLEAN, Classify(s, spk, outcome, long)
      PROVE  LedgerInv'
  <2>1. span[s] = None /\ UNCHANGED <<ledger, locked, minted>>
    BY <1>2 DEF Classify, store
  <2>2. /\ span'[s].locks => span'[s].call \in {"anon", "mint", "log"}
        /\ \A t \in Session \ {s} : span'[t] = span[t]
    BY <1>2, ClassifyEffect DEF Base
  <2> QED BY <2>1, <2>2, CountKept DEF Owed
<1>3. ASSUME NEW s \in Session, LockAnonymous(s)
      PROVE  LedgerInv'
  <2>1. /\ span[s] # None /\ span[s].call = "anon" /\ Lock(s, Nobody)
        /\ UNCHANGED <<ledger, minted>>
    BY <1>3 DEF LockAnonymous, store
  <2>2. \A v \in Vid : Owed(span[s], v) = 0 /\ Nobody.vid # v
    BY <2>1, LabelTypes, Nones DEF Owed
  <2> QED BY <2>1, <2>2, LabelTypes, LockCounts
<1>4. ASSUME NEW s \in Session, Names(s)
      PROVE  LedgerInv'
  <2>1. PICK name \in Name \cup {None} :
            /\ span[s] # None /\ span[s].call \in {"flag", "row"} /\ span[s].locks
            /\ Lock(s, [vid |-> span[s].vid, name |-> name])
            /\ UNCHANGED <<ledger, minted>>
    BY <1>4 DEF Names, store
  <2> DEFINE label == [vid |-> span[s].vid, name |-> name]
  <2>2. span[s].vid \in Vid
    BY <2>1 DEF Base, InFlight
  <2>3. label \in Label /\ label.vid = span[s].vid
    BY <2>2 DEF Label
  <2>4. Lock(s, label)
    BY <2>1
  <2> HIDE DEF label
  <2>5. \A v \in Vid : Owed(span[s], v) = IF label.vid = v THEN 1 ELSE 0
    BY <2>1, <2>3 DEF Owed
  <2> QED BY <2>1, <2>3, <2>4, <2>5, LockCounts
<1>5. ASSUME NEW s \in Session, ReadFlag(s)
      PROVE  LedgerInv'
  <2>1. /\ span[s] # None /\ span[s].call = "flag" /\ UNCHANGED <<ledger, locked, minted>>
        /\ span' = [span EXCEPT ![s].call = "row"]
    BY <1>5 DEF ReadFlag, store
  <2>2. /\ span'[s] # None /\ span'[s].call = "row" /\ span'[s].vid = span[s].vid
        /\ span'[s].locks <=> span[s].locks
        /\ \A t \in Session \ {s} : span'[t] = span[t]
    BY <2>1, NextCallEffect DEF Base
  <2> QED BY <2>1, <2>2, CountKept DEF Owed
<1>6. ASSUME NEW s \in Session, Seal(s)
      PROVE  LedgerInv'
  BY <1>6, CountKept DEF Seal, store
<1>7. ASSUME Meddles
      PROVE  LedgerInv'
  BY <1>7, CountKept DEF Meddles, session
<1> QED BY <1>1, <1>2, <1>3, <1>4, <1>5, <1>6, <1>7, LogCounts, MintCounts DEF SessionStep

-----------------------------------------------------------------------------
SessionInv == Base /\ LockInv /\ TranscriptFollowsLock /\ LedgerInv

LEMMA SessionInvStep ==
    ASSUME SessionInv, [Next]_vars
    PROVE  SessionInv'
<1>1. CASE Next
  <2>1. (\E s \in Session : SessionStep(s)) \/ Meddles
    BY <1>1, StepKinds DEF SessionInv
  <2> QED BY <2>1, BaseStep, LockStep, TranscriptStep, LedgerStep DEF SessionInv, LockInv
<1>2. CASE UNCHANGED vars
  <2>1. Base'
    BY <1>2 DEF SessionInv, Base, SessionTypeOK, InFlight, ExemplarsCapped, vars, store, session
  <2>2. LockInv' /\ TranscriptFollowsLock' /\ LedgerInv'
    BY <1>2 DEF SessionInv, LockInv, MintedLocked, LocksEarned, MintIsGated,
                TranscriptFollowsLock, LedgerInv, vars, store, session
  <2> QED BY <2>1, <2>2 DEF SessionInv
<1> QED BY <1>1, <1>2

LEMMA SessionInvHolds == Spec => []SessionInv
<1>1. Init => SessionInv
  <2> SUFFICES ASSUME Init PROVE SessionInv
    OBVIOUS
  <2>1. LockInv /\ TranscriptFollowsLock
    BY DEF Init, LockInv, MintedLocked, LocksEarned, Earned, MintIsGated,
           TranscriptFollowsLock
  <2> QED BY <2>1, BaseInit, CountedInit DEF SessionInv
<1>2. SessionInv /\ [Next]_vars => SessionInv'
  BY SessionInvStep
<1> QED BY <1>1, <1>2, PTL DEF Spec

(* The variables keep their types, whatever the interleaving of the store    *)
(* calls of a span with the requests that change the store: the id of a      *)
(* label is a voiceprint's, a vote is for a candidate, and a span never      *)
(* looks a voiceprint up that is none.                                       *)
THEOREM SessionTypes == Spec => []SessionTypeOK
<1>1. SessionInv => SessionTypeOK
  BY DEF SessionInv, Base
<1> QED BY <1>1, SessionInvHolds, PTL

(* A lock is never a coin toss, for any vote floor: the votes a locked       *)
(* speaker holds still have one strict leader over the floor, and it is what *)
(* the label says.  The votes of a locked speaker stand still, the check and *)
(* the write of a lock may be several store calls apart, and no erasure or   *)
(* rename in between changes what was decided (_maybe_lock).                 *)
THEOREM LocksHaveMajority == Spec => []LockHasMajority
<1>1. SessionInv => LockHasMajority
  BY MajorityIsEarned DEF SessionInv, LockInv
<1> QED BY <1>1, SessionInvHolds, PTL

(* A voiceprint is minted by an offline session only, from at least one      *)
(* exemplar that passed the quality gate and at most MAX_EXEMPLARS, for any  *)
(* cap (_mint_anonymous and the _passes_gate of _identify).                  *)
THEOREM MintsAreGated == Spec => []MintIsGated
<1>1. SessionInv => MintIsGated
  BY DEF SessionInv, LockInv
<1> QED BY <1>1, SessionInvHolds, PTL

(* One speaker, one voiceprint: until it is sealed, a transcript of any      *)
(* length carries the voiceprint of the lock in every chunk of a locked      *)
(* speaker, earlier and later ones alike (_relabel_history, _consume).       *)
THEOREM TranscriptsFollowLocks == Spec => []TranscriptFollowsLock
<1>1. SessionInv => TranscriptFollowsLock
  BY DEF SessionInv
<1> QED BY <1>1, SessionInvHolds, PTL

(* The subject's trail is exact: each session's identify rows of a           *)
(* voiceprint are as many as the speakers it locked to it without minting,   *)
(* plus one while a lock is between its row and its label (log_usage comes   *)
(* before _name_of in _maybe_lock).                                          *)
THEOREM LedgersMatchLocks == Spec => []LedgerMatchesLocks
<1>1. SessionInv => LedgerMatchesLocks
  BY CountedMatches DEF SessionInv
<1> QED BY <1>1, SessionInvHolds, PTL

=============================================================================
