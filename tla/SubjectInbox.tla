---------------------------- MODULE SubjectInbox ----------------------------
(***************************************************************************)
(* What a data subject is told and what the dashboard lists for them: the  *)
(* notification mails (notify.py), the pending tags, the recognitions, the *)
(* deletion receipts and the owned voiceprints of consent_api.py.          *)
(*                                                                         *)
(* An address has a person and a spelling.  Sign-in, propose and the       *)
(* recognitions write addresses in lower case, enrolment writes the roster *)
(* identity as it came, and a mail goes to the address as it was given.    *)
(*                                                                         *)
(* The machine-to-machine handlers run one at a time on EventLoop, the     *)
(* dashboard's on Worker; a handler's store calls interleave with the      *)
(* other's, and the process may stop between any two of them.              *)
(***************************************************************************)
EXTENDS Naturals, Sequences, FiniteSets

CONSTANTS People, Vid,
          RosterId,     \* the roster identity whose hash is the id, or NoOwner (minted)
          EventLoop, Worker,
          Limit,        \* list_recognitions_for_email's limit
          MaxRequests,  \* bound on requests served
          MaxCrashes,   \* bound on restarts of the process
          Nobody, NoRow

VARIABLES rows,         \* vid -> owner and identify_allowed, or NoRow
          proposals,    \* vid -> proposed_email -> status, "none" when never tagged
          recognitions, \* recognitions, oldest first
          forgets,      \* the ledger's forget rows: vid and who asked
          receipts,     \* deletion_receipts
          job,          \* what each thread is doing
          served, crashes,
          answers,      \* history: the tags that were settled, and who by
          mails,        \* the mails sent
          handed        \* the receipts handed out

told == <<answers, mails, handed>>
vars == <<rows, proposals, recognitions, forgets, receipts, job, served, crashes, told>>

Address == [who : People, form : {"lower", "mixed"}]
NoOwner == [who |-> Nobody, form |-> "lower"]
lower(a) == [a EXCEPT !.form = "lower"]
Session(p) == [who |-> p, form |-> "lower"]

ASSUME InboxAssumption == /\ RosterId \in [Vid -> Address \cup {NoOwner}]
                          /\ Limit \in Nat \ {0}
                          /\ {MaxRequests, MaxCrashes} \subseteq Nat
                          /\ EventLoop # Worker /\ Nobody \notin People

NoJob == [do |-> "none"]
Then(t, j) == job' = [job EXCEPT ![t] = j] /\ UNCHANGED <<served, crashes>>
Accept(t, j) == /\ job[t] = NoJob /\ served < MaxRequests
                /\ job' = [job EXCEPT ![t] = j]
                /\ served' = served + 1
                /\ UNCHANGED crashes

----------------------------------------------------------------------------
(* What the dashboard answers. *)

\* _owned_or_403: whom the controls of a voiceprint obey.
Owned(p, v) == rows[v] # NoRow /\ rows[v].owner.who = p

\* deletion_receipts_for_hash, of the hash of the signed-in address.
my_deletion_receipts(p) == {r \in receipts : r.owner = Session(p)}

\* list_pending_for_email: the tags that wait for this person's answer.
my_pending(p) == {v \in Vid : proposals[v][Session(p)] = "pending"}

\* Mutant: ordered the other way.
my_recognitions_OldestFirst(p) ==
  LET mine == {i \in 1 .. Len(recognitions) : recognitions[i].owner = Session(p)}
  IN  {i \in mine : Cardinality({j \in mine : j < i}) < Limit}

\* list_recognitions_for_email: the newest of them, up to the limit.
my_recognitions(p) ==
  LET mine == {i \in 1 .. Len(recognitions) : recognitions[i].owner = Session(p)}
  IN  {i \in mine : Cardinality({j \in mine : j > i}) < Limit}

----------------------------------------------------------------------------
(* Machine-to-machine requests. *)

\* identify mints an anonymous voiceprint.
Mint(v) ==
  /\ RosterId[v] = NoOwner /\ rows[v] = NoRow
  /\ rows' = [rows EXCEPT ![v] = [owner |-> NoOwner, identify |-> TRUE]]
  /\ Accept(EventLoop, NoJob)
  /\ UNCHANGED <<proposals, recognitions, forgets, receipts, told>>

\* enroll reads the row and writes it back whole.
Enroll(v) ==
  /\ RosterId[v] # NoOwner
  /\ Accept(EventLoop, [do |-> "upsert", vid |-> v,
             row |-> IF rows[v] = NoRow THEN [owner |-> RosterId[v], identify |-> TRUE]
                     ELSE IF rows[v].owner = NoOwner THEN [rows[v] EXCEPT !.owner = RosterId[v]]
                     ELSE rows[v]])
  /\ UNCHANGED <<rows, proposals, recognitions, forgets, receipts, told>>

Upsert ==
  LET j == job[EventLoop] IN
  /\ j.do = "upsert"
  /\ rows' = [rows EXCEPT ![j.vid] = j.row]
  /\ Then(EventLoop, NoJob)
  /\ UNCHANGED <<proposals, recognitions, forgets, receipts, told>>

\* Mutant: a tag is filed under the address as it was given.
filed_AsSpelled(a) == a

\* A tag is filed under the lowered address.
filed(a) == lower(a)

\* store.propose keeps a proposal that exists.
propose(v, email) ==
  proposals' = [proposals EXCEPT ![v][email] = IF @ = "none" THEN "pending" ELSE @]

\* confirm_proposal of the tag, on behalf of a person or of a caller (Nobody).
Confirming(v, email, by) == [do |-> "load", vid |-> v, email |-> email, by |-> by]

\* What follows a tag by somebody else: the store's confirmation if propose
\* found it confirmed, or a mail to the target, to whom the tag is new,
\* pending, or denied long ago.
Propose(v, a) ==
  LET email == filed(a)
  IN  /\ rows[v] # NoRow
      /\ propose(v, email)
      /\ Accept(EventLoop, IF proposals[v][email] = "confirmed" THEN Confirming(v, email, Nobody)
                           ELSE [do |-> "mail", to |-> a, vid |-> v, about |-> "tag"])
      /\ UNCHANGED <<rows, recognitions, forgets, receipts, told>>

\* A self-tag, and an email-bearing binding of /v1/knowledge: proposed, then
\* confirmed by the store, whatever propose found.
BindEmail(v, a) ==
  /\ rows[v] # NoRow
  /\ propose(v, filed(a))
  /\ Accept(EventLoop, Confirming(v, filed(a), Nobody))
  /\ UNCHANGED <<rows, recognitions, forgets, receipts, told>>

Recognize(v) ==
  /\ rows[v] # NoRow /\ rows[v].owner # NoOwner /\ rows[v].identify
  /\ Accept(EventLoop, [do |-> "record", vid |-> v, owner |-> rows[v].owner])
  /\ UNCHANGED <<rows, proposals, recognitions, forgets, receipts, told>>

\* add_recognition, before anybody is told of it.
Record ==
  LET j == job[EventLoop] IN
  /\ j.do = "record"
  /\ recognitions' = Append(recognitions, [vid |-> j.vid, owner |-> lower(j.owner)])
  /\ Then(EventLoop, [do |-> "mail", to |-> j.owner, vid |-> j.vid, about |-> "recognition",
                      rid |-> Len(recognitions) + 1])
  /\ UNCHANGED <<rows, proposals, forgets, receipts, told>>

\* notify: the mail goes out, or is only logged, or SMTP raises; the record
\* stands in any case.
Notify ==
  LET j == job[EventLoop] IN
  /\ j.do = "mail"
  /\ mails' \in {mails, mails \cup {[j EXCEPT !.do = "mailed"]}}
  /\ Then(EventLoop, NoJob)
  /\ UNCHANGED <<rows, proposals, recognitions, forgets, receipts, answers, handed>>

----------------------------------------------------------------------------
(* confirm_proposal, on either thread: the status is read once more, then  *)
(* claim_owner, then the status is written.                                *)

LoadProposal(t) ==
  LET j == job[t] IN
  /\ j.do = "load"
  /\ Then(t, IF proposals[j.vid][j.email] = "confirmed" THEN NoJob ELSE [j EXCEPT !.do = "claim"])
  /\ UNCHANGED <<rows, proposals, recognitions, forgets, receipts, told>>

Claim(t) ==
  LET j == job[t] IN
  /\ j.do = "claim"
  /\ rows' = IF rows[j.vid] = NoRow THEN rows ELSE [rows EXCEPT ![j.vid].owner = j.email]
  /\ Then(t, [j EXCEPT !.do = "confirm"])
  /\ UNCHANGED <<proposals, recognitions, forgets, receipts, told>>

\* A tag is settled: the status, and who settled it.
Settle(v, email, status, by) ==
  /\ proposals' = [proposals EXCEPT ![v][email] = status]
  /\ answers' = answers \cup {[vid |-> v, email |-> email, by |-> by]}

MarkConfirmed(t) ==
  LET j == job[t] IN
  /\ j.do = "confirm"
  /\ Settle(j.vid, j.email, "confirmed", j.by)
  /\ Then(t, NoJob)
  /\ UNCHANGED <<rows, recognitions, forgets, receipts, mails, handed>>

----------------------------------------------------------------------------
(* Requests of the dashboard. *)

\* _target_proposal_or_error: the tag exists and is the signed-in person's.
Target(v, email, p) == proposals[v][email] # "none" /\ lower(email) = Session(p)

Confirm(v, email, p) ==
  /\ Target(v, email, p)
  /\ Accept(Worker, Confirming(v, email, p))
  /\ UNCHANGED <<rows, proposals, recognitions, forgets, receipts, told>>

Deny(v, email, p) ==
  /\ Target(v, email, p) /\ proposals[v][email] # "denied"
  /\ Accept(Worker, NoJob)
  /\ Settle(v, email, "denied", p)
  /\ UNCHANGED <<rows, recognitions, forgets, receipts, mails, handed>>

SetIdentify(v, p, on) ==
  /\ Owned(p, v)
  /\ Accept(Worker, NoJob)
  /\ rows' = [rows EXCEPT ![v].identify = on]
  /\ UNCHANGED <<proposals, recognitions, forgets, receipts, told>>

Forget(v, p) ==
  /\ Owned(p, v)
  /\ Accept(Worker, [do |-> "delete", vid |-> v, who |-> p])
  /\ UNCHANGED <<rows, proposals, recognitions, forgets, receipts, told>>

\* store.delete: the row goes and its forget row stays; a miss writes neither.
Delete ==
  LET j == job[Worker]
      hit == rows[j.vid] # NoRow
  IN  /\ j.do = "delete"
      /\ rows' = [rows EXCEPT ![j.vid] = NoRow]
      /\ forgets' = IF hit THEN Append(forgets, [vid |-> j.vid, by |-> j.who])
                    ELSE forgets
      /\ Then(Worker, IF hit THEN [do |-> "receipt", who |-> j.who,
                                   receipt |-> [vid |-> j.vid, owner |-> lower(Session(j.who)),
                                                row |-> Len(forgets) + 1]]
                      ELSE NoJob)
      /\ UNCHANGED <<proposals, recognitions, receipts, told>>

\* Mutant: the receipt is sent first and stored after.
AddReceipt_AfterAnswer ==
  LET j == job[Worker] IN
  \/ /\ j.do = "receipt"
     /\ handed' = handed \cup {[to |-> j.who, receipt |-> j.receipt]}
     /\ Then(Worker, [j EXCEPT !.do = "hand"])
     /\ UNCHANGED <<rows, proposals, recognitions, forgets, receipts, answers, mails>>
  \/ /\ j.do = "hand"
     /\ receipts' = receipts \cup {j.receipt}
     /\ Then(Worker, NoJob)
     /\ UNCHANGED <<rows, proposals, recognitions, forgets, told>>

\* add_deletion_receipt, and then the answer that carries the receipt.
AddReceipt ==
  LET j == job[Worker] IN
  \/ /\ j.do = "receipt"
     /\ receipts' = receipts \cup {j.receipt}
     /\ Then(Worker, [j EXCEPT !.do = "hand"])
     /\ UNCHANGED <<rows, proposals, recognitions, forgets, told>>
  \/ /\ j.do = "hand"
     /\ handed' = handed \cup {[to |-> j.who, receipt |-> j.receipt]}
     /\ Then(Worker, NoJob)
     /\ UNCHANGED <<rows, proposals, recognitions, forgets, receipts, answers, mails>>

\* The process stops and starts again: what is committed stays.
Crash ==
  /\ crashes < MaxCrashes
  /\ crashes' = crashes + 1
  /\ job' = [t \in {EventLoop, Worker} |-> NoJob]
  /\ UNCHANGED <<rows, proposals, recognitions, forgets, receipts, served, told>>

Init ==
  /\ rows = [v \in Vid |-> NoRow]
  /\ proposals = [v \in Vid |-> [email \in Address |-> "none"]]
  /\ recognitions = <<>> /\ forgets = <<>> /\ receipts = {}
  /\ job = [t \in {EventLoop, Worker} |-> NoJob]
  /\ served = 0 /\ crashes = 0
  /\ answers = {} /\ mails = {} /\ handed = {}

Next ==
  \/ \E v \in Vid : Mint(v) \/ Enroll(v) \/ Recognize(v)
  \/ \E v \in Vid, a \in Address : Propose(v, a) \/ BindEmail(v, a)
  \/ \E v \in Vid, p \in People :
        \/ \E email \in Address : Confirm(v, email, p) \/ Deny(v, email, p)
        \/ Forget(v, p)
        \/ \E on \in BOOLEAN : SetIdentify(v, p, on)
  \/ \E t \in {EventLoop, Worker} : LoadProposal(t) \/ Claim(t) \/ MarkConfirmed(t)
  \/ Upsert \/ Record \/ Notify \/ Delete \/ AddReceipt \/ Crash

Spec == Init /\ [][Next]_vars

----------------------------------------------------------------------------
(* Properties.                                                             *)

\* What a mail speaks of its reader finds after signing in, however the
\* address is spelled and wherever the process stopped.  A recognition is in
\* the reader's list unless Limit newer ones are.  A tag waits in the reader's
\* pending list until the reader has answered it, or a caller has bound the
\* reader's address to the voiceprint -- before the mail, too: a tag that was
\* denied is mailed again with every propose, and then waits in no list.
SettledFor(v, p) ==
  \E x \in answers : x.vid = v /\ x.email = Session(p) /\ x.by \in {p, Nobody}
MailIsBacked ==
  \A m \in mails :
    IF m.about = "tag" THEN m.vid \in my_pending(m.to.who) \/ SettledFor(m.vid, m.to.who)
    ELSE \/ m.rid \in my_recognitions(m.to.who)
         \/ /\ recognitions[m.rid].owner = Session(m.to.who)
            /\ \A i \in my_recognitions(m.to.who) : i > m.rid

\* A receipt that reached a subject is listed for that subject ever after,
\* stands for one forget of that voiceprint which the subject asked for, and
\* shares its ledger row with no other receipt.
ReceiptsListed ==
  \A h \in handed :
    /\ h.receipt \in my_deletion_receipts(h.to)
    /\ forgets[h.receipt.row].vid = h.receipt.vid /\ forgets[h.receipt.row].by = h.to
    /\ \A r \in receipts \ {h.receipt} : r.row # h.receipt.row
=============================================================================
