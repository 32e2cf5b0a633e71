------------------------- MODULE SessionIdentifier -------------------------
(***************************************************************************)
(* The identify sessions (fpm/identify.py, fpm/identify_spans.py): several *)
(* requests, each with its own SessionIdentifier, put identity on the      *)
(* spans of a recording against one workspace of the shared store.         *)
(*                                                                         *)
(* A span is classified against a copy of the centroids and votes for its  *)
(* local speaker; a clear leader locks the speaker to a voiceprint, minting*)
(* one when the leader is "unknown", and the transcript is relabelled.     *)
(* Between the copy, the ledger row, the flag and the row that a lock      *)
(* reads, other requests may opt a voiceprint out, rename or erase it: each*)
(* store call of a span is a step of its own.                              *)
(*                                                                         *)
(* Abstractions.  Audio and cosines are the outcome of classify, which may *)
(* be any outcome the stored centroids allow (Match has the thresholds).   *)
(* An exemplar is the outcome its span was classified with.  The store is  *)
(* its rows: VoiceprintStore's CacheCoherent relates the caches to them.   *)
(***************************************************************************)
EXTENDS Naturals, Sequences, FiniteSets, SequencesExt

CONSTANTS
    Session,
    Speaker,        \* diarizer labels, local to a session
    Vid,
    Name,           \* display names, without the empty one
    None,           \* Python's None: no voiceprint, no name, nothing in flight
    Unknown,        \* _UNKNOWN, the vote for "not in the store"
    LOCK_MIN_VOTES,
    MAX_EXEMPLARS,
    Initially,      \* what the store may hold under an id to begin with
    Rejection,      \* the answers of classify other than a match
    MaxSpans,       \* bound on the spans of all sessions
    MaxChanges      \* bound on the changes other requests make to the store

Candidate == Vid \cup {Unknown}
Outcome == Vid \cup Rejection
Row == [name : Name \cup {None}, on : BOOLEAN]
Label == [vid : Vid \cup {None}, name : Name \cup {None}]     \* of a locked speaker
Origin == [by : Session, spk : Speaker, from : Seq(Candidate)]
Span == [spk : Speaker, outcome : Outcome, vid : Vid \cup {None}, locks : BOOLEAN,
         call : {"anon", "mint", "log", "flag", "row", "emit"}]

ASSUME SessionAssumption ==
    /\ Initially \subseteq Row \cup {None}
    /\ Rejection \subseteq {"AMBIGUOUS", "LOW", "UNKNOWN"} /\ Rejection \cap Vid = {}
    /\ None \notin Row \cup Label \cup Origin \cup Span
    /\ LOCK_MIN_VOTES \in Nat \ {0} /\ MAX_EXEMPLARS \in Nat \ {0}
    /\ MaxSpans \in Nat /\ MaxChanges \in Nat
    /\ Unknown \notin Vid /\ None \notin Vid \cup Name

VARIABLES
    rows,           \* vid -> [name, on], or None: what the store holds
    used,           \* ids ever stored; a minted id is a fresh random one
    minted,         \* vid -> its Origin: who minted it, from which exemplars; or None
    ledger,         \* the identify rows, in order
    changes,        \* the changes other requests made so far
    readOnly,       \* _read_only: the session serves tag=live
    votes,          \* _votes
    exemplars,      \* _exemplars
    locked,         \* _locked: [vid, name] of a locked speaker, or None
    history,        \* _history: the chunks [spk, vid, name, decision]
    sealed,         \* _sealed
    span            \* the span each session is working on, or None

store == <<rows, used, minted, ledger>>
session == <<votes, exemplars, locked, history, sealed, span>>
vars == <<store, changes, readOnly, session>>

-----------------------------------------------------------------------------
(* What other requests do to the store meanwhile: enrol, import or name a  *)
(* voiceprint, switch its identify flag, erase it.                         *)

Stored(vid) == rows[vid] # None
On(vid) == IF Stored(vid) THEN rows[vid].on ELSE TRUE   \* identify_allowed

Changing(vid, row) ==
    /\ changes < MaxChanges /\ changes' = changes + 1
    /\ rows' = [rows EXCEPT ![vid] = row]
    /\ UNCHANGED <<minted, ledger, readOnly, session>>

Bind(vid, name) ==
    Changing(vid, [name |-> name, on |-> On(vid)]) /\ used' = used \cup {vid}
SetFlag(vid, on) ==
    Stored(vid) /\ Changing(vid, [rows[vid] EXCEPT !.on = on]) /\ UNCHANGED used
Forget(vid) == Stored(vid) /\ Changing(vid, None) /\ UNCHANGED used

-----------------------------------------------------------------------------
(* One span of session s. *)

Chunk(spk, label, decision) ==
    [spk |-> spk, vid |-> label.vid, name |-> label.name, decision |-> decision]

\* The span is done: it joins the transcript.
Emit(s, chunk) ==
    /\ history' = [history EXCEPT ![s] = Append(@, chunk)]
    /\ span' = [span EXCEPT ![s] = None]

Heard(s) == Len(history[s]) + (IF span[s] = None THEN 0 ELSE 1)
Room == FoldFunctionOnSet(+, 0, [s \in Session |-> Heard(s)], Session) < MaxSpans

\* A span of an already locked speaker: the label stands, nothing is decided.
EmitLocked(s, spk) ==
    /\ span[s] = None /\ Room
    /\ locked[s][spk] # None
    /\ Emit(s, Chunk(spk, locked[s][spk], "LOCKED"))
    /\ UNCHANGED <<store, changes, readOnly, votes, exemplars, locked, sealed>>

Nobody == [vid |-> None, name |-> None]

\* Too little audio to embed.
EmitPending(s, spk) ==
    /\ span[s] = None /\ Room
    /\ locked[s][spk] = None
    /\ Emit(s, Chunk(spk, Nobody, "PENDING"))
    /\ UNCHANGED <<store, changes, readOnly, votes, exemplars, locked, sealed>>

\* What classify may answer for the centroids stored now.
Possible(outcome) ==
    CASE outcome = "UNKNOWN"   -> TRUE
      [] outcome = "LOW"       -> \E vid \in Vid : Stored(vid)
      [] outcome = "AMBIGUOUS" -> \E v, w \in Vid : v # w /\ Stored(v) /\ Stored(w)
      [] OTHER                 -> Stored(outcome)

Ballot(outcome) == IF outcome \in Vid THEN outcome ELSE Unknown

\* Candidates a tally locks to: the vote floor, and no tie with the runner-up.
\* Mutant: a tie is no obstacle.
Leaders_Ties(tally) ==
    {c \in Candidate : /\ tally[c] >= LOCK_MIN_VOTES
                       /\ \A d \in Candidate : tally[c] >= tally[d]}

Leaders(tally) ==
    {c \in Candidate : /\ tally[c] >= LOCK_MIN_VOTES
                       /\ \A d \in Candidate \ {c} : tally[c] > tally[d]}

\* The store call the span makes next, for the leaders and the exemplars so far.
\* Mutant: it mints without an exemplar.
Next_MintsBare(s, leaders, samples, outcome) ==
    IF leaders = {Unknown} THEN IF readOnly[s] THEN "anon" ELSE "mint"
    ELSE IF leaders # {} THEN "log"
    ELSE IF outcome \in Vid THEN "flag" ELSE "emit"

NextCall(s, leaders, samples, outcome) ==
    IF leaders = {Unknown} /\ readOnly[s] THEN "anon"
    ELSE IF leaders = {Unknown} /\ samples # <<>> THEN "mint"
    ELSE IF leaders \notin {{}, {Unknown}} THEN "log"
    ELSE IF outcome \in Vid THEN "flag" ELSE "emit"

\* The span is embedded and classified, votes, and, if it passes the quality
\* gate (long enough and not ambiguous), leaves an exemplar.
Classify(s, spk, outcome, long) ==
    /\ span[s] = None /\ Room
    /\ locked[s][spk] = None
    /\ Possible(outcome)
    /\ votes' = [votes EXCEPT ![s][spk][Ballot(outcome)] = @ + 1]
    /\ exemplars' = [exemplars EXCEPT ![s][spk] =
                        IF long /\ outcome # "AMBIGUOUS" /\ Len(@) < MAX_EXEMPLARS
                        THEN Append(@, Ballot(outcome)) ELSE @]
    /\ LET leaders == Leaders(votes'[s][spk])
           call == NextCall(s, leaders, exemplars'[s][spk], outcome)
       IN  span' = [span EXCEPT ![s] =
                [spk |-> spk, outcome |-> outcome, call |-> call,
                 vid |-> IF call = "log" THEN CHOOSE c \in leaders : TRUE
                         ELSE IF call = "flag" THEN outcome ELSE None,
                 locks |-> call \in {"anon", "mint", "log"}]]
    /\ UNCHANGED <<store, changes, readOnly, locked, history, sealed>>

\* Neither a lock nor a match.
EmitUndecided(s) ==
    /\ span[s] # None /\ span[s].call = "emit"
    /\ Emit(s, Chunk(span[s].spk, Nobody, span[s].outcome))
    /\ UNCHANGED <<store, changes, readOnly, votes, exemplars, locked, sealed>>

\* _relabel_history, and a mutant: it corrects only the chunks that had no
\* voiceprint.
Relabel_OnlyBlank(s, spk, label) ==
    [i \in DOMAIN history[s] |->
        IF ~sealed[s] /\ history[s][i].spk = spk /\ history[s][i].vid = None
        THEN [history[s][i] EXCEPT !.vid = label.vid, !.name = label.name,
                                   !.decision = "RELABELED"]
        ELSE history[s][i]]

Relabel(s, spk, label) ==
    [i \in DOMAIN history[s] |->
        IF ~sealed[s] /\ history[s][i].spk = spk /\ history[s][i].vid # label.vid
        THEN [history[s][i] EXCEPT !.vid = label.vid, !.name = label.name,
                                   !.decision = "RELABELED"]
        ELSE history[s][i]]

Lock(s, label) ==
    LET spk == span[s].spk IN
    /\ locked' = [locked EXCEPT ![s][spk] = label]
    /\ history' = [history EXCEPT ![s] =
           Append(Relabel(s, spk, label), Chunk(spk, label, "LOCKED"))]
    /\ span' = [span EXCEPT ![s] = None]
    /\ UNCHANGED <<changes, readOnly, votes, exemplars, sealed>>

\* A read-only session locks an unknown speaker to no voiceprint.
LockAnonymous(s) ==
    /\ span[s] # None /\ span[s].call = "anon"
    /\ Lock(s, Nobody)
    /\ UNCHANGED store

\* _mint_anonymous: a new row under a fresh id, from the exemplars.
Mint(s, vid) ==
    /\ span[s] # None /\ span[s].call = "mint" /\ vid \notin used
    /\ rows' = [rows EXCEPT ![vid] = [name |-> None, on |-> TRUE]]
    /\ used' = used \cup {vid}
    /\ minted' = [minted EXCEPT ![vid] =
                    [by |-> s, spk |-> span[s].spk, from |-> exemplars[s][span[s].spk]]]
    /\ Lock(s, [vid |-> vid, name |-> None])
    /\ UNCHANGED ledger

\* Mutant: a live session does not log.
LogIdentify_NotLive(s) ==
    /\ span[s] # None /\ span[s].call = "log"
    /\ ledger' = IF readOnly[s] THEN ledger
                 ELSE Append(ledger, [by |-> s, vid |-> span[s].vid])
    /\ span' = [span EXCEPT ![s].call = "flag"]
    /\ UNCHANGED <<rows, used, minted, changes, readOnly, votes, exemplars, locked, history, sealed>>

\* The identify row of a lock to a known voiceprint.
LogIdentify(s) ==
    /\ span[s] # None /\ span[s].call = "log"
    /\ ledger' = Append(ledger, [by |-> s, vid |-> span[s].vid])
    /\ span' = [span EXCEPT ![s].call = "flag"]
    /\ UNCHANGED <<rows, used, minted, changes, readOnly, votes, exemplars, locked, history, sealed>>

\* The name is known: lock, or emit the provisional label.
Settle(s, name) ==
    LET label == [vid |-> span[s].vid, name |-> name] IN
    /\ IF span[s].locks THEN Lock(s, label)
       ELSE /\ Emit(s, Chunk(span[s].spk, label,
                              IF name # None THEN "MATCH" ELSE "ANON"))
            /\ UNCHANGED <<changes, readOnly, votes, exemplars, locked, sealed>>
    /\ UNCHANGED store

\* _name_of: the flag first; if it withholds the name, the row is not read.
WithholdName(s) ==
    /\ span[s] # None /\ span[s].call = "flag" /\ ~On(span[s].vid)
    /\ Settle(s, None)

ReadFlag(s) ==
    /\ span[s] # None /\ span[s].call = "flag" /\ On(span[s].vid)
    /\ span' = [span EXCEPT ![s].call = "row"]
    /\ UNCHANGED <<store, changes, readOnly, votes, exemplars, locked, history, sealed>>

ReadName(s) ==
    /\ span[s] # None /\ span[s].call = "row"
    /\ Settle(s, IF Stored(span[s].vid) THEN rows[span[s].vid].name ELSE None)

\* The stream is drained and corrections end.
Seal(s) ==
    /\ span[s] = None /\ ~sealed[s]
    /\ sealed' = [sealed EXCEPT ![s] = TRUE]
    /\ UNCHANGED <<store, changes, readOnly, votes, exemplars, locked, history, span>>

-----------------------------------------------------------------------------
Init ==
    /\ rows \in [Vid -> Initially]
    /\ used = {vid \in Vid : Stored(vid)}
    /\ minted = [vid \in Vid |-> None]
    /\ ledger = <<>> /\ changes = 0
    /\ readOnly \in [Session -> BOOLEAN]
    /\ votes = [s \in Session |-> [spk \in Speaker |-> [c \in Candidate |-> 0]]]
    /\ exemplars = [s \in Session |-> [spk \in Speaker |-> <<>>]]
    /\ locked = [s \in Session |-> [spk \in Speaker |-> None]]
    /\ history = [s \in Session |-> <<>>]
    /\ sealed = [s \in Session |-> FALSE]
    /\ span = [s \in Session |-> None]

Hear(s) ==
    \E spk \in Speaker :
        \/ EmitLocked(s, spk)
        \/ EmitPending(s, spk)
        \/ \E outcome \in Outcome, long \in BOOLEAN : Classify(s, spk, outcome, long)

Work(s) ==
    \/ EmitUndecided(s) \/ LockAnonymous(s) \/ (\E vid \in Vid : Mint(s, vid))
    \/ LogIdentify(s) \/ WithholdName(s) \/ ReadFlag(s) \/ ReadName(s)

OtherRequests ==
    \E vid \in Vid :
        \/ \E name \in Name : Bind(vid, name)
        \/ \E on \in BOOLEAN : SetFlag(vid, on)
        \/ Forget(vid)

Next == (\E s \in Session : Hear(s) \/ Work(s) \/ Seal(s)) \/ OtherRequests

Spec == Init /\ [][Next]_vars

-----------------------------------------------------------------------------

(* One speaker, one voiceprint: until the transcript is sealed, every chunk  *)
(* of a locked speaker carries the voiceprint of the lock, the chunks before *)
(* the lock, the one that caused it and the later ones alike                 *)
(* (_relabel_history and the append order of _consume).                      *)
TranscriptFollowsLock ==
    \A s \in Session : ~sealed[s] =>
        \A i \in DOMAIN history[s] :
            LET chunk == history[s][i] IN
            locked[s][chunk.spk] # None => chunk.vid = locked[s][chunk.spk].vid

(* A lock is never a coin toss: the votes that a locked speaker holds have   *)
(* one strict leader over the floor, and it is the voiceprint of the lock,   *)
(* or "unknown" for a speaker that was minted or left anonymous.             *)
LockHasMajority ==
    \A s \in Session, spk \in Speaker :
        LET label == locked[s][spk]
            own == label.vid # None /\ minted[label.vid] # None
                     /\ minted[label.vid].by = s /\ minted[label.vid].spk = spk
            cand == IF label.vid = None \/ own THEN Unknown ELSE label.vid
            tally == votes[s][spk]
        IN  label # None =>
                /\ tally[cand] >= LOCK_MIN_VOTES
                /\ \A d \in Candidate \ {cand} : tally[d] < tally[cand]

(* The subject's trail is exact: a session writes one identify row for each  *)
(* speaker it locks to a voiceprint it did not just mint -- live sessions    *)
(* included, and erased voiceprints too -- and no other.                     *)
LedgerMatchesLocks ==
    \A s \in Session, vid \in Vid :
        LET rowsOf == {i \in DOMAIN ledger : ledger[i] = [by |-> s, vid |-> vid]}
            lockedTo == {spk \in Speaker :
                            /\ locked[s][spk] # None /\ locked[s][spk].vid = vid
                            /\ ~(minted[vid] # None /\ minted[vid].by = s
                                   /\ minted[vid].spk = spk)}
            locking == span[s] # None /\ span[s].locks
                         /\ span[s].vid = vid /\ span[s].call \in {"flag", "row"}
        IN  Cardinality(rowsOf) = Cardinality(lockedTo) + (IF locking THEN 1 ELSE 0)

(* A minted voiceprint is built from what it should be: at least one span    *)
(* that passed the quality gate and at most MAX_EXEMPLARS, and never by a    *)
(* live session.                                                             *)
MintIsGated ==
    \A vid \in Vid : minted[vid] # None =>
        /\ ~readOnly[minted[vid].by]
        /\ Len(minted[vid].from) \in 1..MAX_EXEMPLARS
=============================================================================
