---------------------------- MODULE ConsentPlane ----------------------------
(***************************************************************************)
(* The HTTP handlers of main.py and consent_api.py over one shared         *)
(* VoiceprintStore.                                                        *)
(*                                                                         *)
(* The machine-to-machine endpoints are `async def`: their bodies never    *)
(* await after the request is read, so they run one at a time on the event *)
(* loop, here the thread EventLoop.  The dashboard endpoints are `def` and *)
(* run in the thread pool, here Worker; so does the generator behind       *)
(* /v1/identify-spans.  Handlers on different threads interleave between   *)
(* any two store calls, and a handler keeps what it read until it ends.    *)
(*                                                                         *)
(* A request is a chain of jobs.  job[t] is what thread t does next and    *)
(* the values it has already read; each action does one store call (or one *)
(* lock-free read) and hands on the next job.  A request refused before it *)
(* changes anything (404, 403, a closed consistency gate) is left out.     *)
(***************************************************************************)
EXTENDS VoiceprintStore

CONSTANTS
    EventLoop, Worker,
    Identity,           \* the roster identity whose hash is the id, or NoEmail (minted)
    SignIn,             \* emails with a dashboard session
    NameOf,             \* the display name a host gives a person in a tag
    Service,            \* the M2M caller, as an actor
    CONSENT_AUTOCONFIRM,
    Traffic             \* the mixes of requests a run exercises

ASSUME PlaneAssumption ==
    /\ Caller = Worker \cup {EventLoop} /\ EventLoop \notin Worker
    /\ Identity \in [Vid -> Email \cup {NoEmail}]
    /\ SignIn \subseteq Email /\ Email \subseteq Name
    /\ NameOf \in [Email -> Name]
    /\ Service \in Actor /\ CONSENT_AUTOCONFIRM \in BOOLEAN
    /\ \A m \in Traffic : /\ m.stored \subseteq Vid
                          /\ m.requests \in Nat /\ m.crashes \in Nat

VARIABLES
    mix,        \* the endpoints called, which voiceprints the database may hold at
                \* the start, and the bounds on requests served and on restarts
    job,        \* what each thread is doing
    exports,    \* the signed voiceprint files users have downloaded
    served,     \* requests accepted so far
    crashes,    \* restarts so far
    (* History: what the users did, for the properties to compare with. *)
    heard,      \* clips already enrolled, so that each enrolment brings a new one
    erased,     \* vid -> the clips its forget requests erased and nobody restored
    chosen,     \* vid -> the flags its subject last chose
    late,       \* the flags chosen, since the enrolment on the event loop read the
                \* row, for the voiceprint it has in hand
    undone      \* <<vid, flag>> whose last choice such an enrolment has written over

consent == <<chosen, late, undone>>
history == <<heard, erased, consent>>
planeVars == <<storeVars, mix, job, exports, served, crashes, history>>

None == [do |-> "none"]

\* Thread t accepts a request of an enabled kind, whose first job is j.
Accept(t, kind, j) ==
    /\ kind \in mix.kinds /\ job[t] = None /\ served < mix.requests
    /\ job' = [job EXCEPT ![t] = j]
    /\ served' = served + 1
    /\ UNCHANGED <<crashes, mix>>

Then(t, j) == job' = [job EXCEPT ![t] = j] /\ UNCHANGED <<served, crashes, mix>>
Doing(t, what) == job[t].do = what

-----------------------------------------------------------------------------
(* Where a request starts: its checks and its first read. *)

\* enroll.py: the row is read, changed in memory and written back whole.
Enroll(vid, clip) ==
    LET existing == get(Home[vid], vid)
        fresh == [ws |-> Home[vid], name |-> Identity[vid], owner |-> Identity[vid],
                  flags |-> DefaultFlags, exemplars |-> {clip}]
        stronger == [existing EXCEPT !.exemplars = @ \cup {clip}, !.name = Identity[vid],
                                     !.owner = IF @ = NoEmail THEN Identity[vid] ELSE @]
    IN  /\ Identity[vid] # NoEmail /\ clip \notin heard
        /\ existing # NoRow => existing.flags.enroll
        /\ Accept(EventLoop, "enroll",
                  [do |-> "upsert", vid |-> vid, brings |-> {clip}, event |-> "enroll",
                   vp |-> IF existing = NoRow THEN fresh ELSE stronger, actor |-> Service])
        /\ heard' = heard \cup {clip}
        /\ UNCHANGED <<storeVars, exports, erased, consent>>

Owns(email, vid) == Stored(Home[vid], vid) /\ rows[vid].owner = email

SetMyFlags(t, email, vid, want) ==
    /\ Owns(email, vid) /\ Chosen(want) # {}
    /\ Accept(t, "flags", [do |-> "set_flags", vid |-> vid, want |-> want, actor |-> email])
    /\ UNCHANGED <<storeVars, exports, history>>

ForgetMe(t, email, vid) ==
    /\ Owns(email, vid)
    /\ Accept(t, "forget", [do |-> "delete", vid |-> vid, actor |-> email])
    /\ UNCHANGED <<storeVars, exports, history>>

Export(t, email, vid) ==
    /\ Owns(email, vid)
    /\ exports' = exports \cup {[vid |-> vid, vp |-> rows[vid]]}
    /\ Accept(t, "export", [do |-> "log_usage", vid |-> vid, event |-> "export",
                            actor |-> email])
    /\ UNCHANGED <<storeVars, history>>

\* _import_one: create, or merge into a row the session still owns.
Import(t, email, file) ==
    LET existing == get(Home[file.vid], file.vid)
        merged == [existing EXCEPT !.exemplars = @ \cup file.vp.exemplars,
                                   !.name = file.vp.name, !.flags = file.vp.flags]
    IN  /\ file.vp.owner = email
        /\ existing # NoRow => existing.owner = email
        /\ Accept(t, "import",
                  [do |-> "upsert", vid |-> file.vid, brings |-> file.vp.exemplars,
                   event |-> "import", vp |-> IF existing = NoRow THEN file.vp ELSE merged,
                   actor |-> email])
        /\ UNCHANGED <<storeVars, exports, history>>

\* Only the tagged target may confirm or deny; confirm_proposal and
\* deny_proposal begin by reading the status.
\* (Mutant first: anyone signed in may confirm.)
Confirm_AnyTarget(t, email, pid) ==
    /\ Accept(t, "confirm", [do |-> "gate", pid |-> pid, status |-> proposals[pid].status,
                             actor |-> email])
    /\ UNCHANGED <<storeVars, exports, history>>

Confirm(t, email, pid) ==
    /\ proposals[pid].email = email
    /\ Accept(t, "confirm", [do |-> "gate", pid |-> pid, status |-> proposals[pid].status,
                             actor |-> email])
    /\ UNCHANGED <<storeVars, exports, history>>

Deny(t, email, pid) ==
    /\ proposals[pid].email = email /\ proposals[pid].status # "denied"
    /\ Accept(t, "deny", [do |-> "set_status", pid |-> pid, status |-> "denied"])
    /\ UNCHANGED <<storeVars, exports, history>>

\* A host tags a voiceprint; `self` when it tags itself or autoconfirm is on.
ProposeTag(vid, email, self) ==
    /\ Stored(Home[vid], vid)
    /\ Accept(EventLoop, "propose",
              [do |-> "propose", vid |-> vid, email |-> email, actor |-> email,
               auto |-> self \/ CONSENT_AUTOCONFIRM])
    /\ UNCHANGED <<storeVars, exports, history>>

\* An email-bearing binding is a self-confirmed proposal.
BindEmail(vid, email) ==
    /\ Stored(Home[vid], vid)
    /\ Accept(EventLoop, "knowledge",
              [do |-> "propose", vid |-> vid, email |-> email, actor |-> Service,
               auto |-> TRUE])
    /\ UNCHANGED <<storeVars, exports, history>>

\* A bare-name binding.
BindName(vid, name) ==
    /\ Accept(EventLoop, "rename", None)
    /\ set_name(EventLoop, Home[vid], vid, name, Service)
    /\ UNCHANGED <<exports, history>>

\* The clip matched vid's cached centroid.
Identify(t, vid) ==
    /\ printCache[Home[vid]][vid] # NoEntry
    /\ Accept(t, "identify", [do |-> "read_flag", vid |-> vid])
    /\ UNCHANGED <<storeVars, exports, history>>

RecordRecognition(vid) ==
    /\ Stored(Home[vid], vid) /\ rows[vid].owner # NoEmail /\ rows[vid].flags.identify
    /\ Accept(EventLoop, "recognize",
              [do |-> "add_recognition", vid |-> vid, owner |-> rows[vid].owner])
    /\ UNCHANGED <<storeVars, exports, history>>

-----------------------------------------------------------------------------
(* One store call, or one read, further. *)

Field == {"enroll", "identify"}

\* Only enrolments upsert on the event loop; imports run on the pool threads.
EnrolHolds(vid) == Doing(EventLoop, "upsert") /\ job[EventLoop].vid = vid

\* The subject sets the given fields, so that the flags are now `to`.
Chooses(vid, fields, to) ==
    /\ chosen' = [chosen EXCEPT ![vid] = to]
    /\ undone' = undone \ ({vid} \X fields)
    /\ late' = IF EnrolHolds(vid) THEN late \cup fields ELSE late

\* An enrolment writes the flags it read: a new row starts with them, in an old
\* one they go over whatever was chosen since.
WritesBack(vid, read) ==
    /\ late' = {}
    /\ IF rows[vid] = NoRow
       THEN chosen' = [chosen EXCEPT ![vid] = read] /\ undone' = undone \ ({vid} \X Field)
       ELSE undone' = undone \cup ({vid} \X late) /\ UNCHANGED chosen

\* Mutant of DoUpsert: the import is not ledgered.
Upserting(t, next) ==
    LET j == job[t] IN
    /\ Doing(t, "upsert")
    /\ upsert(t, Home[j.vid], j.vid, j.vp)
    /\ Then(t, next)
    /\ erased' = [erased EXCEPT ![j.vid] = @ \ j.brings]
    /\ Chooses(j.vid, Field, j.vp.flags)
    /\ UNCHANGED <<exports, heard>>
DoUpsert_NoLedger(t) == Upserting(t, [do |-> "refresh", then |-> None])

DoUpsert(t) ==
    LET j == job[t] IN
    /\ Doing(t, "upsert")
    /\ upsert(t, Home[j.vid], j.vid, j.vp)
    /\ Then(t, [do |-> "refresh", then |-> [do |-> "log_usage", vid |-> j.vid,
                                            event |-> j.event, actor |-> j.actor]])
    /\ erased' = [erased EXCEPT ![j.vid] = @ \ j.brings]
    /\ IF j.event = "import" THEN Chooses(j.vid, Field, j.vp.flags)
       ELSE WritesBack(j.vid, j.vp.flags)
    /\ UNCHANGED <<exports, heard>>

DoRefreshPrint(t) ==
    /\ Doing(t, "refresh") /\ RefreshPrint(t)
    /\ UNCHANGED <<mix, job, exports, served, crashes, history>>

DoRefreshFlags(t) ==
    /\ Doing(t, "refresh") /\ RefreshFlags(t)
    /\ Then(t, job[t].then)
    /\ UNCHANGED <<exports, history>>

DoLogUsage(t) ==
    LET j == job[t] IN
    /\ Doing(t, "log_usage")
    /\ log_usage(t, Home[j.vid], j.vid, j.event, j.actor)
    /\ Then(t, None)
    /\ UNCHANGED <<exports, history>>

DoSetFlags(t) ==
    LET j == job[t]
        hit == Stored(Home[j.vid], j.vid)
    IN  /\ Doing(t, "set_flags")
        /\ set_flags(t, Home[j.vid], j.vid, j.want, j.actor)
        /\ Then(t, IF hit THEN [do |-> "refresh", then |-> None] ELSE None)
        /\ IF hit THEN Chooses(j.vid, Chosen(j.want), Apply(chosen[j.vid], j.want))
           ELSE UNCHANGED consent
        /\ UNCHANGED <<exports, heard, erased>>

\* Mutants of DoDelete, by the receipt job that follows the deletion.
Deleting(t, receipt(_)) ==
    LET j == job[t]
        hit == Stored(Home[j.vid], j.vid)
        signing(lid) == [do |-> "add_receipt", vid |-> j.vid, actor |-> j.actor, lid |-> lid]
    IN  /\ Doing(t, "delete")
        /\ delete(t, Home[j.vid], j.vid, j.actor)
        /\ Then(t, [do |-> "refresh",
                    then |-> IF receipt(hit) = 0 THEN None ELSE signing(receipt(hit))])
        /\ erased' = IF hit THEN [erased EXCEPT ![j.vid] = @ \cup rows[j.vid].exemplars]
                     ELSE erased
        /\ chosen' = [chosen EXCEPT ![j.vid] = DefaultFlags]
        /\ UNCHANGED <<exports, heard, late, undone>>
DoDelete_LastRow(t) == Deleting(t, LAMBDA hit : IF hit THEN Len(ledger) ELSE 0)
DoDelete_ReceiptAnyway(t) ==
    Deleting(t, LAMBDA hit : IF hit THEN Len(ledger) + 1 ELSE Len(ledger))

\* A receipt is signed only if a row was deleted; it names the ledger row.
DoDelete(t) ==
    LET j == job[t]
        hit == Stored(Home[j.vid], j.vid)
    IN  /\ Doing(t, "delete")
        /\ delete(t, Home[j.vid], j.vid, j.actor)
        /\ Then(t, [do |-> "refresh",
                    then |-> IF hit THEN [do |-> "add_receipt", vid |-> j.vid,
                                          actor |-> j.actor, lid |-> Len(ledger) + 1]
                             ELSE None])
        /\ erased' = IF hit THEN [erased EXCEPT ![j.vid] = @ \cup rows[j.vid].exemplars]
                     ELSE erased
        /\ chosen' = [chosen EXCEPT ![j.vid] = DefaultFlags]
        /\ UNCHANGED <<exports, heard, late, undone>>

\* Mutants: the receipt waits until nobody has enrolled the voiceprint again; it
\* is inserted without the lock.
DoAddReceipt_WaitsGone(t) ==
    LET j == job[t] IN
    /\ Doing(t, "add_receipt")
    /\ IF Stored(Home[j.vid], j.vid) THEN UNCHANGED <<storeVars, mix, job, served, crashes>>
       ELSE /\ add_deletion_receipt(t, [ws |-> Home[j.vid], vid |-> j.vid, actor |-> j.actor,
                                        lid |-> j.lid])
            /\ Then(t, None)
    /\ UNCHANGED <<exports, history>>

DoAddReceipt_Unlocked(t) ==
    LET j == job[t] IN
    /\ Doing(t, "add_receipt")
    /\ receipts' = Append(receipts, [ws |-> Home[j.vid], vid |-> j.vid,
                                     actor |-> j.actor, lid |-> j.lid])
    /\ Then(t, None)
    /\ UNCHANGED <<rows, proposals, audit, ledger, recognitions, caches, lock, refresh>>
    /\ UNCHANGED <<exports, history>>

DoAddReceipt(t) ==
    LET j == job[t] IN
    /\ Doing(t, "add_receipt")
    /\ add_deletion_receipt(t, [ws |-> Home[j.vid], vid |-> j.vid, actor |-> j.actor,
                                lid |-> j.lid])
    /\ Then(t, None)
    /\ UNCHANGED <<exports, history>>

\* propose returns the row it found or made; an automatic confirmation follows.
DoPropose(t) ==
    LET j == job[t]
        found == Matching(Home[j.vid], j.vid, j.email)
        pid == IF found = {} THEN Len(proposals) + 1 ELSE CHOOSE i \in found : TRUE
        confirmed == found # {} /\ proposals[pid].status = "confirmed"
    IN  /\ Doing(t, "propose")
        /\ propose(t, Home[j.vid], j.vid, j.email, NameOf[j.email])
        /\ Then(t, IF confirmed \/ j.auto
                   THEN [do |-> "load", pid |-> pid, actor |-> j.actor] ELSE None)
        /\ UNCHANGED <<exports, history>>

\* confirm_proposal reads the proposal ...
DoLoad(t) ==
    /\ Doing(t, "load")
    /\ Then(t, [do |-> "gate", pid |-> job[t].pid, actor |-> job[t].actor,
                status |-> proposals[job[t].pid].status])
    /\ UNCHANGED <<storeVars, exports, history>>

\* Mutants of DoGate: straight to the name; a confirm of a subject who stays
\* anonymous is tried again until it is allowed.
Gating(t, next) ==
    /\ Doing(t, "gate")
    /\ Then(t, IF job[t].status = "confirmed" THEN None ELSE next)
    /\ UNCHANGED <<storeVars, exports, history>>
DoGate_NoClaim(t) == Gating(t, [do |-> "set_name", pid |-> job[t].pid, actor |-> job[t].actor])
DoGate_Retries(t) ==
    LET p == proposals[job[t].pid] IN
    Gating(t, IF identify_allowed(p.ws, p.vid)
              THEN [do |-> "claim_owner", pid |-> job[t].pid, actor |-> job[t].actor,
                    allowed |-> TRUE]
              ELSE job[t])

\* ... then the consent flag, from the cache.
DoGate(t) ==
    LET p == proposals[job[t].pid] IN
    /\ Doing(t, "gate")
    /\ Then(t, IF job[t].status = "confirmed" THEN None
               ELSE [do |-> "claim_owner", pid |-> job[t].pid, actor |-> job[t].actor,
                     allowed |-> identify_allowed(p.ws, p.vid)])
    /\ UNCHANGED <<storeVars, exports, history>>

Marking(j) == [do |-> "set_status", pid |-> j.pid, status |-> "confirmed"]

DoClaimOwner(t) ==
    LET j == job[t]
        p == proposals[j.pid]
    IN  /\ Doing(t, "claim_owner")
        /\ claim_owner(t, p.ws, p.vid, p.email)
        /\ Then(t, IF j.allowed THEN [do |-> "set_name", pid |-> j.pid, actor |-> j.actor]
                   ELSE Marking(j))
        /\ UNCHANGED <<exports, history>>

DoSetName(t) ==
    LET p == proposals[job[t].pid] IN
    /\ Doing(t, "set_name")
    /\ set_name(t, p.ws, p.vid, p.name, job[t].actor)
    /\ Then(t, Marking(job[t]))
    /\ UNCHANGED <<exports, history>>

DoSetStatus(t) ==
    /\ Doing(t, "set_status")
    /\ set_status(t, job[t].pid, job[t].status)
    /\ Then(t, None)
    /\ UNCHANGED <<exports, history>>

\* The gate of /v1/identify and of _name_of: the flag from the cache first, the
\* name from the row afterwards.  `shown` is the name in the response.
DoReadFlag(t) ==
    LET vid == job[t].vid IN
    /\ Doing(t, "read_flag")
    /\ Then(t, IF identify_allowed(Home[vid], vid) THEN [do |-> "read_name", vid |-> vid]
               ELSE [do |-> "log_usage", vid |-> vid, event |-> "identify",
                     actor |-> Service])
    /\ UNCHANGED <<storeVars, exports, history>>

DoReadName(t) ==
    LET vid == job[t].vid
        row == get(Home[vid], vid)
    IN  /\ Doing(t, "read_name")
        /\ Then(t, [do |-> "log_usage", vid |-> vid, event |-> "identify", actor |-> Service,
                    shown |-> IF row = NoRow THEN NoName ELSE row.name])
        /\ UNCHANGED <<storeVars, exports, history>>

DoAddRecognition(t) ==
    LET j == job[t] IN
    /\ Doing(t, "add_recognition")
    /\ add_recognition(t, Home[j.vid], j.vid, j.owner)
    /\ Then(t, None)
    /\ UNCHANGED <<exports, history>>

\* The process is killed and restarted: requests in flight are lost.
Crash ==
    /\ crashes < mix.crashes
    /\ Reopen
    /\ job' = [t \in Caller |-> None]
    /\ crashes' = crashes + 1
    /\ late' = {}
    /\ UNCHANGED <<mix, exports, served, heard, erased, chosen, undone>>

-----------------------------------------------------------------------------
\* What a database may hold when the service starts: no row, or the voiceprint
\* enrolled under its roster identity, or one minted anonymous.  Whoever owns
\* one may have exported it before.
InitialRow(vid) ==
    [ws |-> Home[vid], name |-> IF Identity[vid] = NoEmail THEN NoName ELSE Identity[vid],
     owner |-> Identity[vid], flags |-> DefaultFlags, exemplars |-> heard]

PlaneInit ==
    /\ mix \in Traffic
    /\ \E clip \in Clip : heard = {clip}
    /\ \E present \in SUBSET mix.stored :
          rows = [vid \in Vid |-> IF vid \in present THEN InitialRow(vid) ELSE NoRow]
    /\ exports \in SUBSET {[vid |-> vid, vp |-> InitialRow(vid)] :
                               vid \in {v \in mix.stored : Identity[v] # NoEmail
                                                          /\ "import" \in mix.kinds}}
    /\ Loaded(printCache, flagCache)
    /\ lock = Free /\ refresh = Idle
    /\ proposals = <<>> /\ audit = <<>> /\ ledger = <<>>
    /\ receipts = <<>> /\ recognitions = <<>>
    /\ job = [t \in Caller |-> None]
    /\ served = 0 /\ crashes = 0
    /\ erased = [vid \in Vid |-> {}]
    /\ chosen = [vid \in Vid |-> DefaultFlags]
    /\ late = {} /\ undone = {}

\* A dashboard request reaches a pool thread.
Dashboard(t) ==
    \E email \in SignIn :
        \/ \E vid \in Vid, want \in Want : SetMyFlags(t, email, vid, want)
        \/ \E vid \in Vid : ForgetMe(t, email, vid) \/ Export(t, email, vid)
        \/ \E file \in exports : Import(t, email, file)
        \/ \E pid \in DOMAIN proposals : Confirm(t, email, pid) \/ Deny(t, email, pid)

\* A machine-to-machine request reaches the event loop.
MachineToMachine ==
    \E vid \in Vid :
        \/ \E clip \in Clip : Enroll(vid, clip)
        \/ \E email \in Email, self \in BOOLEAN : ProposeTag(vid, email, self)
        \/ \E email \in Email : BindEmail(vid, email)
        \/ \E name \in Name : BindName(vid, name)
        \/ Identify(EventLoop, vid)
        \/ RecordRecognition(vid)

Continue(t) ==
    \/ DoUpsert(t) \/ DoRefreshPrint(t) \/ DoRefreshFlags(t) \/ DoLogUsage(t)
    \/ DoSetFlags(t) \/ DoDelete(t) \/ DoAddReceipt(t) \/ DoPropose(t)
    \/ DoLoad(t) \/ DoGate(t) \/ DoClaimOwner(t) \/ DoSetName(t) \/ DoSetStatus(t)
    \/ DoReadFlag(t) \/ DoReadName(t) \/ DoAddRecognition(t)

\* Nothing is in flight and no request comes: the only place the service may rest.
Quiet == lock = Free /\ \A t \in Caller : job[t] = None
Rest == Quiet /\ UNCHANGED planeVars

PlaneNext ==
    \/ MachineToMachine
    \/ \E t \in Worker : Dashboard(t) \/ (\E vid \in Vid : Identify(t, vid))
    \/ \E t \in Caller : Continue(t)
    \/ Crash
    \/ Rest

PlaneSpec == PlaneInit /\ [][PlaneNext]_planeVars

(* A thread with a request in hand keeps running: the event loop and the pool *)
(* threads are scheduled by the operating system, and whoever holds the lock  *)
(* releases it without waiting for anything.                                  *)
FairPlaneSpec == PlaneSpec /\ \A t \in Caller : WF_planeVars(Continue(t))

-----------------------------------------------------------------------------
\* What thread t does once its caches are written, and the threads that have a
\* receipt still to write.
Pending(t) == IF Doing(t, "refresh") THEN job[t].then ELSE job[t]
Owing == {t \in Caller : Pending(t).do = "add_receipt"}

Proof == INSTANCE DeletionProof WITH
    deleted <- {lid \in DOMAIN ledger : ledger[lid].event = "forget"},
    due <- {Pending(t).lid : t \in Owing},
    issued <- [i \in DOMAIN receipts |-> receipts[i].lid],
    restarts <- crashes

(* Every step of every handler is a step the store allows on its own, so    *)
(* what holds of the store under any callers holds of the service.          *)
UsesTheStore == StoreSpec

(* forget_me implements the receipt protocol: one id per deletion, at most  *)
(* one receipt for each, only for a real deletion, also when two forgets    *)
(* race, when a second finds nothing left, and across restarts.             *)
ReceiptProtocol == Proof!Spec

(* ... and a deletion that is due a receipt gets it unless the process dies *)
(* first: nothing after the deletion can refuse or block.                   *)
ReceiptsArrive == Proof!FairSpec

(* A receipt says what the surviving ledger row says: who forgot which      *)
(* voiceprint.                                                              *)
ReceiptSound ==
    \A i \in DOMAIN receipts :
        LET r == receipts[i] IN
        r.lid \in DOMAIN ledger /\ ledger[r.lid] = Record(r.ws, r.vid, "forget", r.actor)

(* A flag of a stored voiceprint, in its row and, once the write in hand is *)
(* over, in the cache every gate reads, is what its subject last chose: by  *)
(* a flag switch, by an import, or as the row was created (also when an     *)
(* enrolment brings an erased one back, as it had read it).  One exception: *)
(* enroll writes the whole row back, flags included, so a flag chosen       *)
(* between its read and its write is undone until it is chosen again.       *)
SubjectSetsFlags ==
    \A vid \in Vid, f \in Field :
        rows[vid] # NoRow /\ <<vid, f>> \notin undone =>
            /\ rows[vid].flags[f] = chosen[vid][f]
            /\ \/ flags(Home[vid], vid)[f] = chosen[vid][f]
               \/ lock # Free /\ refresh.vid = vid

(* Once a stay-anonymous request has gone through, no match is granted the  *)
(* name: the gate says yes only if the subject allows identification, if a  *)
(* write of this very voiceprint is still between commit and cache, or if   *)
(* an enrolment that had read the row before the request has written it     *)
(* back after it.                                                           *)
OptOutHonoured ==
    [][\A t \in Caller :
          Doing(t, "read_flag") /\ job'[t].do = "read_name" =>
              LET vid == job[t].vid IN
              \/ chosen[vid].identify
              \/ lock # Free /\ refresh.vid = vid
              \/ <<vid, "identify">> \in undone]_planeVars

(* Exemplars a forget erased are not in the store again unless an import    *)
(* brings them back.                                                        *)
ErasedStaysErased ==
    \A vid \in Vid : rows[vid] # NoRow => rows[vid].exemplars \cap erased[vid] = {}

(* The owner is bound first: outside the legacy bare-name channel, a name   *)
(* is on a stored voiceprint and a proposal reads confirmed only once the   *)
(* voiceprint is claimed, also when a confirm dies half-way.                *)
OwnerFirst ==
    /\ \A vid \in Vid :
          rows[vid] # NoRow /\ rows[vid].name # NoName => rows[vid].owner # NoEmail
    /\ \A pid \in DOMAIN proposals :
          LET p == proposals[pid] IN
          p.status = "confirmed" /\ Stored(p.ws, p.vid) => rows[p.vid].owner # NoEmail

(* No third party confirms on your behalf: a name the audit trail gives to  *)
(* a signed-in subject is the name proposed to that subject.                *)
NoThirdPartyNames ==
    \A i \in DOMAIN audit :
        audit[i].actor # Service =>
            \E pid \in DOMAIN proposals :
                /\ proposals[pid].vid = audit[i].vid
                /\ proposals[pid].email = audit[i].actor
                /\ proposals[pid].name = audit[i].new

(* A voiceprint that is back after a forget has an import or an enrolment   *)
(* in the ledger after it, once nothing is in flight and unless the process *)
(* died in between.                                                         *)
RestoreIsLedgered ==
    Quiet /\ crashes = 0 => \A vid \in Vid, lid \in DOMAIN ledger :
        ledger[lid].event = "forget" /\ ledger[lid].vid = vid /\ rows[vid] # NoRow =>
            \E later \in lid + 1 .. Len(ledger) :
                ledger[later].vid = vid /\ ledger[later].event \in {"import", "enroll"}

(* Every request ends: no chain of store calls waits for itself.            *)
RequestsFinish ==
    \A t \in Caller : job[t] # None ~> job[t] = None
=============================================================================
