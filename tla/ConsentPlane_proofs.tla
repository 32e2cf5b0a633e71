------------------------- MODULE ConsentPlane_proofs -------------------------
(***************************************************************************)
(* Theorems of ConsentPlane, for any traffic, threads, people and          *)
(* voiceprints.                                                            *)
(*                                                                         *)
(* A handler acts on values it read some store calls ago.  PlaneInv says   *)
(* what of them still holds when it acts: a ledger row once written is     *)
(* there, a proposal once made keeps whom it tags, and whoever confirms in *)
(* a subject's name is that subject.  From it every handler step is a step *)
(* of the store, which brings StoreInv and TrailsGrow along.               *)
(***************************************************************************)
EXTENDS ConsentPlane, VoiceprintStore_proofs

\* What a thread may have to do once its caches are written.  A receipt job
\* names a row of the ledger, log, that says what the receipt will say.
Closing(j, log) ==
    /\ j.do \in {"none", "log_usage", "add_receipt"}
    /\ j.do # "none" => j.vid \in Vid /\ j.actor \in Actor
    /\ j.do = "log_usage" => j.event \in LoggedEvent
    /\ j.do = "add_receipt" =>
          j.lid \in DOMAIN log /\ log[j.lid] = Record(Home[j.vid], j.vid, "forget", j.actor)

\* The steps of confirm_proposal that carry a proposal id and who confirms.
Confirming == {"load", "gate", "claim_owner", "set_name"}

\* What a job may hold, given the ledger and the proposals.
Fits(j, log, tags) ==
    /\ j.do = "refresh" => Closing(j.then, log)
    /\ j.do \in {"log_usage", "add_receipt"} => Closing(j, log)
    /\ j.do \in {"upsert", "set_flags", "delete", "propose"} => j.vid \in Vid /\ j.actor \in Actor
    /\ j.do \in {"read_flag", "read_name"} => j.vid \in Vid
    /\ j.do = "upsert" => /\ j.vp \in Row /\ j.vp.owner # NoEmail
                          /\ j.event \in {"enroll", "import"}
    /\ j.do = "set_flags" => j.want \in Want /\ Chosen(j.want) # {}
    /\ j.do = "propose" => j.email \in Email /\ j.actor \in {Service, j.email}
    /\ j.do \in Confirming => /\ j.pid \in DOMAIN tags /\ j.actor \in Actor
                              /\ j.actor \in {Service, tags[j.pid].email}
    /\ j.do = "set_status" => j.pid \in DOMAIN tags /\ j.status \in {"confirmed", "denied"}
    /\ j.do = "add_recognition" => j.vid \in Vid /\ j.owner \in Email

JobsFit ==
    /\ job = [t \in Caller |-> job[t]]
    /\ \A t \in Caller : Fits(job[t], ledger, proposals)

FilesFit ==
    /\ \A file \in exports : file.vid \in Vid /\ file.vp \in Row
    /\ crashes \in Nat

PlaneInv == StoreInv /\ JobsFit /\ FilesFit

\* The emails and the service are actors; nobody's email is empty.
LEMMA People ==
    /\ SignIn \subseteq Email /\ Email \subseteq Actor /\ NoEmail \notin Email
    /\ Service \in Actor /\ EventLoop \in Caller /\ Worker \subseteq Caller
    /\ Email \subseteq Name
    /\ \A vid \in Vid : Home[vid] \in Workspace /\ Identity[vid] \in Email \cup {NoEmail}
BY StoreAssumption, PlaneAssumption

-----------------------------------------------------------------------------
(* What a job holds survives the steps of the other threads *)

LEMMA FitsLater ==
    ASSUME TrailsGrow, NEW j, Fits(j, ledger, proposals)
    PROVE  Fits(j, ledger', proposals')
<1>1. \A k : Closing(k, ledger) => Closing(k, ledger')
  BY DEF Closing, TrailsGrow
<1>2. \A pid \in DOMAIN proposals :
          pid \in DOMAIN proposals' /\ proposals'[pid].email = proposals[pid].email
  BY DEF TrailsGrow
<1> QED BY <1>1, <1>2 DEF Fits

LEMMA JobsLater ==
    ASSUME JobsFit, TrailsGrow, NEW t \in Caller, NEW j,
           job' = [job EXCEPT ![t] = j], Fits(j, ledger', proposals')
    PROVE  JobsFit'
<1>1. /\ job' = [u \in Caller |-> job'[u]]
      /\ job'[t] = j
      /\ \A u \in Caller : u # t => job'[u] = job[u]
  BY DEF JobsFit
<1>2. ASSUME NEW u \in Caller
      PROVE  Fits(job'[u], ledger', proposals')
  BY <1>1, FitsLater DEF JobsFit
<1> QED BY <1>1, <1>2 DEF JobsFit

-----------------------------------------------------------------------------
(* Requests: what a thread starts with *)

\* What a request of thread t may begin with.  An enrolment, on the event loop,
\* writes back the flags of the row it has read; an import runs on a pool thread.
Opens(t, j) ==
    /\ j.do \notin {"refresh", "add_receipt", "set_name"}
    /\ j.do = "set_status" => j.status = "denied"
    /\ j.do = "upsert" =>
          IF t = EventLoop
          THEN j.event = "enroll" /\ (rows[j.vid] # NoRow => j.vp.flags = rows[j.vid].flags)
          ELSE j.event = "import"

\* Thread t accepts a request whose first job fits.
Starts(t) ==
    /\ job[t] = None /\ UNCHANGED <<mix, crashes, consent>>
    /\ \E j : /\ job' = [job EXCEPT ![t] = j]
              /\ Fits(j, ledger, proposals) /\ Opens(t, j)

\* A file that was not there before holds a row of the store.
NewFiles ==
    \A file \in exports' :
        \/ file \in exports
        \/ \E vid \in Vid : rows[vid] # NoRow /\ file = [vid |-> vid, vp |-> rows[vid]]

LEMMA AcceptFits ==
    ASSUME NEW t, NEW kind, NEW j, Accept(t, kind, j), Fits(j, ledger, proposals), Opens(t, j),
           UNCHANGED consent
    PROVE  Starts(t)
BY DEF Accept, Starts

LEMMA StoredRow ==
    ASSUME StoreInv, NEW vid \in Vid, rows[vid] # NoRow
    PROVE  rows[vid] \in Row /\ rows[vid].ws = Home[vid] /\ Stored(Home[vid], vid)
BY DEF StoreInv, StoreTypeOK, RowsAtHome, Stored

\* What an enrolment or an import writes.
LEMMA WrittenRow ==
    ASSUME NEW vid \in Vid, NEW name \in Name, NEW owner \in Email \cup {NoEmail},
           NEW f \in Flags, NEW clips \in SUBSET Clip
    PROVE  /\ [ws |-> Home[vid], name |-> name, owner |-> owner, flags |-> f,
               exemplars |-> clips] \in Row
           /\ \A row \in Row :
                 /\ [row EXCEPT !.exemplars = @ \cup clips, !.name = name, !.owner = owner] \in Row
                 /\ [row EXCEPT !.exemplars = @ \cup clips, !.name = name, !.flags = f] \in Row
BY People DEF Row

LEMMA EnrollStarts ==
    ASSUME PlaneInv, NEW vid \in Vid, NEW clip \in Clip, Enroll(vid, clip)
    PROVE  UNCHANGED storeVars /\ Starts(EventLoop) /\ NewFiles
<1> DEFINE existing == get(Home[vid], vid)
           fresh == [ws |-> Home[vid], name |-> Identity[vid], owner |-> Identity[vid],
                     flags |-> DefaultFlags, exemplars |-> {clip}]
           owner == IF existing.owner = NoEmail THEN Identity[vid] ELSE existing.owner
           stronger == [existing EXCEPT !.exemplars = @ \cup {clip}, !.name = Identity[vid],
                                        !.owner = owner]
           vp == IF existing = NoRow THEN fresh ELSE stronger
           j == [do |-> "upsert", vid |-> vid, brings |-> {clip}, event |-> "enroll",
                 vp |-> vp, actor |-> Service]
<1>1. Identity[vid] \in Email /\ Accept(EventLoop, "enroll", j)
  BY People DEF Enroll
<1>2. vp \in Row
  <2>1. CASE existing = NoRow
    BY <1>1, <2>1, People, WrittenRow, DefaultType
  <2>2. CASE existing # NoRow
    <3>1. existing \in Row /\ owner \in Email
      BY <1>1, <2>2, StoredRow DEF get, Stored, PlaneInv, Row
    <3>2. stronger \in Row
      BY <1>1, <3>1, People, WrittenRow, DefaultType
    <3> QED BY <2>2, <3>2
  <2> QED BY <2>1, <2>2
<1>3. vp.owner # NoEmail /\ (rows[vid] # NoRow => vp.flags = rows[vid].flags)
  <2>1. CASE existing = NoRow
    <3>1. rows[vid] = NoRow
      BY <2>1, StoredRow DEF get, PlaneInv
    <3> QED BY <1>1, <2>1, <3>1, People
  <2>2. CASE existing # NoRow
    <3>1. existing \in Row /\ existing = rows[vid] /\ rows[vid] # NoRow
      BY <2>2, StoredRow DEF get, Stored, PlaneInv
    <3>2. vp.flags = rows[vid].flags /\ vp.owner = owner
      BY <2>2, <3>1 DEF Row
    <3> QED BY <1>1, <3>1, <3>2, People
  <2> QED BY <2>1, <2>2
<1>4. UNCHANGED <<storeVars, exports, consent>>
  BY DEF Enroll
<1>5. Fits(j, ledger, proposals) /\ Opens(EventLoop, j)
  <2> HIDE DEF vp
  <2> QED BY <1>2, <1>3, People DEF Fits, Confirming, Opens
<1> HIDE DEF j
<1> QED BY <1>1, <1>4, <1>5, AcceptFits DEF NewFiles

LEMMA ImportStarts ==
    ASSUME PlaneInv, NEW t \in Worker, NEW email \in SignIn, NEW file \in exports, Import(t, email, file)
    PROVE  UNCHANGED storeVars /\ Starts(t) /\ NewFiles
<1> DEFINE vid == file.vid
           existing == get(Home[vid], vid)
           merged == [existing EXCEPT !.exemplars = @ \cup file.vp.exemplars,
                                      !.name = file.vp.name, !.flags = file.vp.flags]
           vp == IF existing = NoRow THEN file.vp ELSE merged
           j == [do |-> "upsert", vid |-> vid, brings |-> file.vp.exemplars,
                 event |-> "import", vp |-> vp, actor |-> email]
<1>1. Accept(t, "import", j) /\ UNCHANGED <<storeVars, exports, consent>>
  BY DEF Import, history
<1>2. vid \in Vid /\ file.vp \in Row
  BY DEF PlaneInv, FilesFit
<1>3. vp \in Row
  <2>1. CASE existing = NoRow
    BY <1>2, <2>1
  <2>2. CASE existing # NoRow
    <3>1. existing \in Row
      BY <1>2, <2>2, StoredRow DEF get, Stored, PlaneInv
    <3>2. /\ file.vp.exemplars \in SUBSET Clip /\ file.vp.name \in Name
          /\ file.vp.flags \in Flags /\ file.vp.owner \in Email \cup {NoEmail}
      BY <1>2 DEF Row
    <3>3. merged \in Row
      BY <1>2, <3>1, <3>2, WrittenRow
    <3> QED BY <2>2, <3>3
  <2> QED BY <2>1, <2>2
<1>4. vp.owner # NoEmail /\ vp.flags = file.vp.flags
  <2>1. email # NoEmail /\ file.vp.owner = email /\ (existing # NoRow => existing.owner = email)
    BY People DEF Import
  <2>2. CASE existing = NoRow
    BY <2>1, <2>2
  <2>3. CASE existing # NoRow
    <3>1. existing \in Row
      BY <1>2, <2>3, StoredRow DEF get, Stored, PlaneInv
    <3>2. merged.owner = existing.owner /\ merged.flags = file.vp.flags
      BY <3>1 DEF Row
    <3> QED BY <2>1, <2>3, <3>2
  <2> QED BY <2>2, <2>3
<1>5. Fits(j, ledger, proposals) /\ Opens(t, j)
  <2>1. t # EventLoop
    BY PlaneAssumption
  <2> HIDE DEF vp, vid
  <2> QED BY <1>2, <1>3, <1>4, <2>1, People DEF Fits, Confirming, Opens
<1> HIDE DEF j
<1> QED BY <1>1, <1>5, AcceptFits DEF NewFiles

LEMMA DashboardStarts ==
    ASSUME PlaneInv, NEW t \in Worker, Dashboard(t)
    PROVE  UNCHANGED storeVars /\ Starts(t) /\ NewFiles
<1> PICK email \in SignIn :
        \/ \E vid \in Vid, want \in Want : SetMyFlags(t, email, vid, want)
        \/ \E vid \in Vid : ForgetMe(t, email, vid) \/ Export(t, email, vid)
        \/ \E file \in exports : Import(t, email, file)
        \/ \E pid \in DOMAIN proposals : Confirm(t, email, pid) \/ Deny(t, email, pid)
  BY DEF Dashboard
<1>1. email \in Email /\ email \in Actor
  BY People
<1>2. ASSUME NEW vid \in Vid, NEW want \in Want, SetMyFlags(t, email, vid, want)
      PROVE  UNCHANGED storeVars /\ Starts(t) /\ NewFiles
  <2> DEFINE j == [do |-> "set_flags", vid |-> vid, want |-> want, actor |-> email]
  <2>1. Fits(j, ledger, proposals) /\ Opens(t, j)
    BY <1>1, <1>2 DEF SetMyFlags, Accept, Fits, Confirming, Opens
  <2> QED BY <1>2, <2>1, AcceptFits DEF SetMyFlags, NewFiles, history
<1>3. ASSUME NEW vid \in Vid, ForgetMe(t, email, vid)
      PROVE  UNCHANGED storeVars /\ Starts(t) /\ NewFiles
  <2> DEFINE j == [do |-> "delete", vid |-> vid, actor |-> email]
  <2>1. Fits(j, ledger, proposals) /\ Opens(t, j)
    BY <1>1 DEF Fits, Confirming, Opens
  <2> QED BY <1>3, <2>1, AcceptFits DEF ForgetMe, NewFiles, history
<1>4. ASSUME NEW vid \in Vid, Export(t, email, vid)
      PROVE  UNCHANGED storeVars /\ Starts(t) /\ NewFiles
  <2> DEFINE j == [do |-> "log_usage", vid |-> vid, event |-> "export", actor |-> email]
  <2>1. Fits(j, ledger, proposals) /\ Opens(t, j)
    BY <1>1 DEF Fits, Confirming, Closing, LoggedEvent, Opens
  <2>2. Starts(t) /\ UNCHANGED storeVars
    BY <1>4, <2>1, AcceptFits DEF Export, history
  <2>3. exports' = exports \cup {[vid |-> vid, vp |-> rows[vid]]} /\ rows[vid] # NoRow
    BY <1>4 DEF Export, Owns, Stored
  <2> QED BY <2>2, <2>3 DEF NewFiles
<1>5. ASSUME NEW pid \in DOMAIN proposals, Confirm(t, email, pid)
      PROVE  UNCHANGED storeVars /\ Starts(t) /\ NewFiles
  <2>1. proposals[pid].email = email
    BY <1>5 DEF Confirm
  <2> DEFINE j == [do |-> "gate", pid |-> pid, status |-> proposals[pid].status,
                   actor |-> email]
  <2>2. Fits(j, ledger, proposals) /\ Opens(t, j)
    BY <1>1, <2>1 DEF Fits, Confirming, Opens
  <2> QED BY <1>5, <2>2, AcceptFits DEF Confirm, NewFiles, history
<1>6. ASSUME NEW pid \in DOMAIN proposals, Deny(t, email, pid)
      PROVE  UNCHANGED storeVars /\ Starts(t) /\ NewFiles
  <2> DEFINE j == [do |-> "set_status", pid |-> pid, status |-> "denied"]
  <2>1. Fits(j, ledger, proposals) /\ Opens(t, j)
    BY DEF Fits, Confirming, Opens
  <2> QED BY <1>6, <2>1, AcceptFits DEF Deny, NewFiles, history
<1> QED BY <1>2, <1>3, <1>4, <1>5, <1>6, ImportStarts

LEMMA IdentifyStarts ==
    ASSUME PlaneInv, NEW t \in Caller, NEW vid \in Vid, Identify(t, vid)
    PROVE  UNCHANGED storeVars /\ Starts(t) /\ NewFiles
<1> DEFINE j == [do |-> "read_flag", vid |-> vid]
<1>1. Fits(j, ledger, proposals) /\ Opens(t, j)
  BY DEF Fits, Confirming, Opens
<1> QED BY <1>1, AcceptFits DEF Identify, NewFiles, history

\* The one request that changes the store on arrival.
Renames ==
    /\ "rename" \in mix.kinds
    /\ \E vid \in Vid, name \in Name : set_name(EventLoop, Home[vid], vid, name, Service)

LEMMA MachineStarts ==
    ASSUME PlaneInv, MachineToMachine
    PROVE  (UNCHANGED storeVars \/ Renames) /\ Starts(EventLoop) /\ NewFiles
<1> PICK vid \in Vid :
        \/ \E clip \in Clip : Enroll(vid, clip)
        \/ \E email \in Email, self \in BOOLEAN : ProposeTag(vid, email, self)
        \/ \E email \in Email : BindEmail(vid, email)
        \/ \E name \in Name : BindName(vid, name)
        \/ Identify(EventLoop, vid)
        \/ RecordRecognition(vid)
  BY DEF MachineToMachine
<1>1. ASSUME NEW email \in Email, NEW self \in BOOLEAN, ProposeTag(vid, email, self)
      PROVE  UNCHANGED storeVars /\ Starts(EventLoop) /\ NewFiles
  <2> DEFINE j == [do |-> "propose", vid |-> vid, email |-> email, actor |-> email,
                   auto |-> self \/ CONSENT_AUTOCONFIRM]
  <2>1. Fits(j, ledger, proposals) /\ Opens(EventLoop, j)
    BY People DEF Fits, Confirming, Opens
  <2> QED BY <1>1, <2>1, AcceptFits DEF ProposeTag, NewFiles, history
<1>2. ASSUME NEW email \in Email, BindEmail(vid, email)
      PROVE  UNCHANGED storeVars /\ Starts(EventLoop) /\ NewFiles
  <2> DEFINE j == [do |-> "propose", vid |-> vid, email |-> email, actor |-> Service,
                   auto |-> TRUE]
  <2>1. Fits(j, ledger, proposals) /\ Opens(EventLoop, j)
    BY People DEF Fits, Confirming, Opens
  <2> QED BY <1>2, <2>1, AcceptFits DEF BindEmail, NewFiles, history
<1>3. ASSUME NEW name \in Name, BindName(vid, name)
      PROVE  Renames /\ Starts(EventLoop) /\ NewFiles
  <2>1. Fits(None, ledger, proposals) /\ Opens(EventLoop, None)
    BY DEF None, Fits, Confirming, Opens
  <2>2. Starts(EventLoop) /\ UNCHANGED exports
    BY <1>3, <2>1, AcceptFits DEF BindName, history
  <2>3. Renames
    BY <1>3 DEF BindName, Renames, Accept
  <2> QED BY <2>2, <2>3 DEF NewFiles
<1>4. ASSUME RecordRecognition(vid)
      PROVE  UNCHANGED storeVars /\ Starts(EventLoop) /\ NewFiles
  <2>1. rows[vid].owner \in Email
    BY <1>4, StoredRow DEF RecordRecognition, Stored, PlaneInv, Row
  <2> DEFINE j == [do |-> "add_recognition", vid |-> vid, owner |-> rows[vid].owner]
  <2>2. Fits(j, ledger, proposals) /\ Opens(EventLoop, j)
    BY <2>1 DEF Fits, Confirming, Opens
  <2> QED BY <1>4, <2>2, AcceptFits DEF RecordRecognition, NewFiles, history
<1> QED BY <1>1, <1>2, <1>3, <1>4, EnrollStarts, IdentifyStarts, People

\* A request reaches the event loop or a pool thread.
Request ==
    MachineToMachine \/ \E t \in Worker : Dashboard(t) \/ (\E vid \in Vid : Identify(t, vid))

LEMMA RequestStep ==
    ASSUME PlaneInv, Request
    PROVE  /\ UNCHANGED storeVars \/ Renames
           /\ \E t \in Caller : Starts(t)
           /\ NewFiles
BY MachineStarts, DashboardStarts, IdentifyStarts, People DEF Request

-----------------------------------------------------------------------------
(* Every step of a handler is a call of the store, or a read *)

LEMMA JobFits ==
    ASSUME PlaneInv, NEW t \in Caller
    PROVE  Fits(job[t], ledger, proposals)
BY DEF PlaneInv, JobsFit

LEMMA TypedProposal ==
    ASSUME PlaneInv, NEW pid \in DOMAIN proposals
    PROVE  proposals[pid] \in Proposal
BY DEF PlaneInv, StoreInv, StoreTypeOK

LEMMA ContinueIsCall ==
    ASSUME PlaneInv, NEW t \in Caller, Continue(t)
    PROVE  [StoreNext]_storeVars
<1> DEFINE j == job[t]
<1>1. Fits(j, ledger, proposals)
  BY JobFits
<1> HIDE DEF j
<1>2. CASE DoUpsert(t)
  <2>1. j.vid \in Vid /\ j.vp \in Row
    BY <1>1, <1>2 DEF DoUpsert, Doing, Fits, j
  <2> QED BY <1>2, <2>1 DEF DoUpsert, StoreNext, Upsert, j
<1>3. CASE DoRefreshPrint(t) \/ DoRefreshFlags(t)
  BY <1>3 DEF DoRefreshPrint, DoRefreshFlags, StoreNext
<1>4. CASE DoLogUsage(t)
  <2>1. j.vid \in Vid /\ j.event \in LoggedEvent /\ j.actor \in Actor
    BY <1>1, <1>4 DEF DoLogUsage, Doing, Fits, Closing, j
  <2>2. log_usage(t, Home[j.vid], j.vid, j.event, j.actor)
    BY <1>4 DEF DoLogUsage, j
  <2> QED BY <2>1, <2>2, People DEF StoreNext, LogUsage
<1>5. CASE DoSetFlags(t)
  <2>1. j.vid \in Vid /\ j.want \in Want /\ j.actor \in Actor
    BY <1>1, <1>5 DEF DoSetFlags, Doing, Fits, j
  <2>2. set_flags(t, Home[j.vid], j.vid, j.want, j.actor)
    BY <1>5 DEF DoSetFlags, j
  <2> QED BY <2>1, <2>2, People DEF StoreNext, SetFlags
<1>6. CASE DoDelete(t)
  <2>1. j.vid \in Vid /\ j.actor \in Actor
    BY <1>1, <1>6 DEF DoDelete, Doing, Fits, j
  <2>2. delete(t, Home[j.vid], j.vid, j.actor)
    BY <1>6 DEF DoDelete, j
  <2> QED BY <2>1, <2>2, People DEF StoreNext, Delete
<1>7. CASE DoAddReceipt(t)
  <2>1. j.vid \in Vid /\ j.actor \in Actor /\ j.lid \in DOMAIN ledger
    BY <1>1, <1>7 DEF DoAddReceipt, Doing, Fits, Closing, j
  <2>2. add_deletion_receipt(t, [ws |-> Home[j.vid], vid |-> j.vid, actor |-> j.actor,
                                 lid |-> j.lid])
    BY <1>7 DEF DoAddReceipt, j
  <2> QED BY <2>1, <2>2 DEF StoreNext, AddReceipt
<1>8. CASE DoPropose(t)
  <2>1. j.vid \in Vid /\ j.email \in Email
    BY <1>1, <1>8 DEF DoPropose, Doing, Fits, j
  <2>2. propose(t, Home[j.vid], j.vid, j.email, NameOf[j.email])
    BY <1>8 DEF DoPropose, j
  <2>3. NameOf[j.email] \in Name
    BY <2>1, PlaneAssumption
  <2> QED BY <2>1, <2>2, <2>3, People DEF StoreNext, Propose
<1>9. CASE DoLoad(t) \/ DoGate(t) \/ DoReadFlag(t) \/ DoReadName(t)
  BY <1>9 DEF DoLoad, DoGate, DoReadFlag, DoReadName
<1>10. CASE DoClaimOwner(t)
  <2> DEFINE p == proposals[j.pid]
  <2>1. p \in Proposal
    BY <1>1, <1>10, TypedProposal DEF DoClaimOwner, Doing, Fits, Confirming, j
  <2>2. claim_owner(t, p.ws, p.vid, p.email)
    BY <1>10 DEF DoClaimOwner, j
  <2> QED BY <2>1, <2>2 DEF StoreNext, ClaimOwner, Proposal
<1>11. CASE DoSetName(t)
  <2> DEFINE p == proposals[j.pid]
  <2>1. p \in Proposal /\ j.actor \in Actor
    BY <1>1, <1>11, TypedProposal DEF DoSetName, Doing, Fits, Confirming, j
  <2>2. set_name(t, p.ws, p.vid, p.name, j.actor)
    BY <1>11 DEF DoSetName, j
  <2> QED BY <2>1, <2>2 DEF StoreNext, SetName, Proposal
<1>12. CASE DoSetStatus(t)
  BY <1>1, <1>12 DEF DoSetStatus, Doing, Fits, StoreNext, SetStatus, j
<1>13. CASE DoAddRecognition(t)
  <2>1. j.vid \in Vid /\ j.owner \in Email
    BY <1>1, <1>13 DEF DoAddRecognition, Doing, Fits, j
  <2>2. add_recognition(t, Home[j.vid], j.vid, j.owner)
    BY <1>13 DEF DoAddRecognition, j
  <2> QED BY <2>1, <2>2, People DEF StoreNext, AddRecognition
<1> QED BY <1>2, <1>3, <1>4, <1>5, <1>6, <1>7, <1>8, <1>9, <1>10, <1>11, <1>12, <1>13
        DEF Continue

-----------------------------------------------------------------------------
(* What a handler carries on still fits *)

\* Thread t goes on with a job that fits.
Goes(t) == \E j : job' = [job EXCEPT ![t] = j] /\ Fits(j, ledger', proposals')

LEMMA ThenFits ==
    ASSUME NEW t, NEW j, Then(t, j), Fits(j, ledger', proposals')
    PROVE  Goes(t) /\ UNCHANGED crashes
BY DEF Then, Goes

LEMMA NoneFits == \A log, tags : Fits(None, log, tags) /\ Closing(None, log)
BY DEF Fits, Closing, None, Confirming

\* The caches come first, the rest of the request afterwards.
LEMMA RefreshFits ==
    ASSUME NEW j, NEW log, NEW tags, Closing(j, log)
    PROVE  Fits([do |-> "refresh", then |-> j], log, tags)
BY DEF Fits, Confirming

LEMMA TailFits ==
    ASSUME NEW j, NEW log, NEW tags, Closing(j, log)
    PROVE  Fits(j, log, tags)
BY DEF Fits, Closing, Confirming

LEMMA CacheStepFits ==
    ASSUME PlaneInv, TrailsGrow, NEW t \in Caller, DoRefreshPrint(t) \/ DoRefreshFlags(t)
    PROVE  JobsFit'
<1>1. CASE DoRefreshPrint(t)
  BY <1>1, FitsLater DEF DoRefreshPrint, PlaneInv, JobsFit
<1>2. CASE DoRefreshFlags(t)
  <2>1. Closing(job[t].then, ledger)
    BY <1>2, JobFits DEF DoRefreshFlags, Doing, Fits
  <2>2. Fits(job[t].then, ledger', proposals')
    BY <2>1, TailFits, FitsLater
  <2>3. job' = [job EXCEPT ![t] = job[t].then]
    BY <1>2 DEF DoRefreshFlags, Then
  <2> QED BY <2>2, <2>3, JobsLater DEF PlaneInv
<1> QED BY <1>1, <1>2

LEMMA WriteStepGoes ==
    ASSUME PlaneInv, NEW t \in Caller,
           DoUpsert(t) \/ DoSetFlags(t) \/ DoDelete(t)
    PROVE  Goes(t) /\ UNCHANGED crashes
<1> DEFINE j == job[t]
<1>1. Fits(j, ledger, proposals)
  BY JobFits
<1> HIDE DEF j
<1>2. CASE DoUpsert(t)
  <2> DEFINE k == [do |-> "log_usage", vid |-> j.vid, event |-> j.event, actor |-> j.actor]
  <2>1. Closing(k, ledger')
    BY <1>1, <1>2 DEF DoUpsert, Doing, Fits, Closing, LoggedEvent, j
  <2>2. Then(t, [do |-> "refresh", then |-> k])
    BY <1>2 DEF DoUpsert, j
  <2> HIDE DEF k
  <2> QED BY <2>1, <2>2, RefreshFits, ThenFits
<1>3. CASE DoSetFlags(t)
  BY <1>3, NoneFits, RefreshFits, ThenFits DEF DoSetFlags
<1>4. CASE DoDelete(t)
  <2> DEFINE hit == Stored(Home[j.vid], j.vid)
             k == IF hit THEN [do |-> "add_receipt", vid |-> j.vid, actor |-> j.actor,
                               lid |-> Len(ledger) + 1]
                  ELSE None
  <2>1. Then(t, [do |-> "refresh", then |-> k])
    BY <1>4 DEF DoDelete, j
  <2>2. j.vid \in Vid /\ j.actor \in Actor
    BY <1>1, <1>4 DEF DoDelete, Doing, Fits, j
  <2>3. Closing(k, ledger')
    <3>1. CASE hit
      <4> DEFINE entry == Record(Home[j.vid], j.vid, "forget", j.actor)
      <4>1. ledger' = Append(ledger, entry) /\ ledger \in Seq(LedgerEntry)
        BY <1>4, <3>1 DEF DoDelete, delete, j, PlaneInv, StoreInv, StoreTypeOK
      <4>2. entry \in LedgerEntry
        BY <2>2, RecordType, People DEF Event
      <4> HIDE DEF entry
      <4>3. Len(ledger) + 1 \in DOMAIN ledger' /\ ledger'[Len(ledger) + 1] = entry
        BY <4>1, <4>2
      <4> QED BY <2>2, <3>1, <4>3 DEF Closing, entry
    <3>2. CASE ~hit
      BY <3>2, NoneFits
    <3> QED BY <3>1, <3>2
  <2> HIDE DEF k
  <2> QED BY <2>1, <2>3, RefreshFits, ThenFits
<1> QED BY <1>2, <1>3, <1>4

\* propose returns the proposal it found or made: it tags the email asked for.
LEMMA ProposeGoes ==
    ASSUME PlaneInv, NEW t \in Caller, DoPropose(t)
    PROVE  Goes(t) /\ UNCHANGED crashes
<1> DEFINE j == job[t]
           found == Matching(Home[j.vid], j.vid, j.email)
           pid == IF found = {} THEN Len(proposals) + 1 ELSE CHOOSE i \in found : TRUE
           k == [do |-> "load", pid |-> pid, actor |-> j.actor]
<1>1. j.vid \in Vid /\ j.email \in Email /\ j.actor \in {Service, j.email}
  BY JobFits DEF DoPropose, Doing, Fits
<1>2. Then(t, k) \/ Then(t, None)
  BY DEF DoPropose
<1>3. proposals \in Seq(Proposal)
  BY DEF PlaneInv, StoreInv, StoreTypeOK
<1>4. pid \in DOMAIN proposals' /\ proposals'[pid].email = j.email
  <2>1. CASE found = {}
    <3> DEFINE new == [ws |-> Home[j.vid], vid |-> j.vid, email |-> j.email,
                       name |-> NameOf[j.email], status |-> "pending"]
    <3>1. proposals' = Append(proposals, new) /\ new.email = j.email
      BY <2>1 DEF DoPropose, propose
    <3> HIDE DEF new
    <3> QED BY <1>3, <2>1, <3>1
  <2>2. CASE found # {}
    <3>1. proposals' = proposals
      BY <2>2 DEF DoPropose, propose
    <3>2. pid \in found
      BY <2>2
    <3> QED BY <3>1, <3>2 DEF Matching
  <2> QED BY <2>1, <2>2
<1>5. Fits(k, ledger', proposals')
  <2> HIDE DEF pid, j
  <2> QED BY <1>1, <1>4, People DEF Fits, Confirming
<1> HIDE DEF k
<1> QED BY <1>2, <1>5, NoneFits, ThenFits

LEMMA ConfirmStepGoes ==
    ASSUME PlaneInv, TrailsGrow, NEW t \in Caller,
           DoLoad(t) \/ DoGate(t) \/ DoClaimOwner(t) \/ DoSetName(t) \/ DoSetStatus(t)
    PROVE  Goes(t) /\ UNCHANGED crashes
<1> DEFINE j == job[t]
<1>1. Fits(j, ledger, proposals)
  BY JobFits
<1> HIDE DEF j
<1>2. CASE DoSetStatus(t)
  BY <1>2, NoneFits, ThenFits DEF DoSetStatus
<1>3. CASE DoLoad(t) \/ DoGate(t) \/ DoClaimOwner(t) \/ DoSetName(t)
  <2>1. /\ j.pid \in DOMAIN proposals /\ j.actor \in Actor
        /\ j.actor \in {Service, proposals[j.pid].email}
    BY <1>1, <1>3 DEF DoLoad, DoGate, DoClaimOwner, DoSetName, Doing, Fits, Confirming, j
  <2>2. j.pid \in DOMAIN proposals' /\ j.actor \in {Service, proposals'[j.pid].email}
    BY <2>1 DEF TrailsGrow
  <2> DEFINE gate == [do |-> "gate", pid |-> j.pid, actor |-> j.actor,
                      status |-> proposals[j.pid].status]
             claim == [do |-> "claim_owner", pid |-> j.pid, actor |-> j.actor,
                       allowed |-> identify_allowed(proposals[j.pid].ws, proposals[j.pid].vid)]
             name == [do |-> "set_name", pid |-> j.pid, actor |-> j.actor]
  <2>3. /\ Fits(gate, ledger', proposals') /\ Fits(claim, ledger', proposals')
        /\ Fits(name, ledger', proposals') /\ Fits(Marking(j), ledger', proposals')
    BY <2>1, <2>2 DEF Fits, Confirming, Marking
  <2>4. \/ Then(t, gate) \/ Then(t, claim) \/ Then(t, name)
        \/ Then(t, Marking(j)) \/ Then(t, None)
    BY <1>3 DEF DoLoad, DoGate, DoClaimOwner, DoSetName, j
  <2> HIDE DEF gate, claim, name
  <2> QED BY <2>3, <2>4, NoneFits, ThenFits
<1> QED BY <1>2, <1>3

LEMMA OtherStepGoes ==
    ASSUME PlaneInv, NEW t \in Caller,
           \/ DoLogUsage(t) \/ DoAddReceipt(t) \/ DoAddRecognition(t)
           \/ DoReadFlag(t) \/ DoReadName(t)
    PROVE  Goes(t) /\ UNCHANGED crashes
<1> DEFINE j == job[t]
<1>1. Fits(j, ledger, proposals)
  BY JobFits
<1> HIDE DEF j
<1>2. CASE DoLogUsage(t) \/ DoAddReceipt(t) \/ DoAddRecognition(t)
  BY <1>2, NoneFits, ThenFits DEF DoLogUsage, DoAddReceipt, DoAddRecognition
<1>3. CASE DoReadFlag(t)
  <2>1. j.vid \in Vid
    BY <1>1, <1>3 DEF DoReadFlag, Doing, Fits, j
  <2> DEFINE read == [do |-> "read_name", vid |-> j.vid]
             withheld == [do |-> "log_usage", vid |-> j.vid, event |-> "identify",
                          actor |-> Service]
  <2>2. Fits(read, ledger', proposals') /\ Fits(withheld, ledger', proposals')
    BY <2>1, People DEF Fits, Closing, Confirming, LoggedEvent
  <2>3. Then(t, read) \/ Then(t, withheld)
    BY <1>3 DEF DoReadFlag, j
  <2> HIDE DEF read, withheld
  <2> QED BY <2>2, <2>3, ThenFits
<1>4. CASE DoReadName(t)
  <2>1. j.vid \in Vid
    BY <1>1, <1>4 DEF DoReadName, Doing, Fits, j
  <2> DEFINE row == get(Home[j.vid], j.vid)
             named == [do |-> "log_usage", vid |-> j.vid, event |-> "identify",
                       actor |-> Service, shown |-> IF row = NoRow THEN NoName ELSE row.name]
  <2>2. Fits(named, ledger', proposals')
    BY <2>1, People DEF Fits, Closing, Confirming, LoggedEvent
  <2>3. Then(t, named)
    BY <1>4 DEF DoReadName, j
  <2> HIDE DEF named
  <2> QED BY <2>2, <2>3, ThenFits
<1> QED BY <1>2, <1>3, <1>4

-----------------------------------------------------------------------------
(* The service over the store *)

LEMMA PlaneInitStore == PlaneInit => StoreInit
<1> SUFFICES ASSUME PlaneInit PROVE StoreInit
  OBVIOUS
<1>1. PICK present \in SUBSET mix.stored :
          rows = [vid \in Vid |-> IF vid \in present THEN InitialRow(vid) ELSE NoRow]
  BY DEF PlaneInit
<1>2. heard \subseteq Clip
  BY DEF PlaneInit
<1>3. \A vid \in Vid : InitialRow(vid) \in Row /\ InitialRow(vid).ws = Home[vid]
  BY <1>2, People, DefaultType, StoreAssumption DEF InitialRow, Row
<1>4. rows \in {r \in [Vid -> Row \cup {NoRow}] :
                   \A vid \in Vid : r[vid] # NoRow => r[vid].ws = Home[vid]}
  BY <1>1, <1>3
<1> QED BY <1>4 DEF PlaneInit, StoreInit

LEMMA PlaneInitInv == PlaneInit => PlaneInv
<1> SUFFICES ASSUME PlaneInit PROVE PlaneInv
  OBVIOUS
<1>1. StoreInv
  BY PlaneInitStore, InitInv
<1>2. JobsFit
  BY NoneFits DEF PlaneInit, JobsFit
<1>3. FilesFit
  <2>1. heard \subseteq Clip /\ mix \in Traffic
    BY DEF PlaneInit
  <2>2. \A vid \in Vid : InitialRow(vid) \in Row
    BY <2>1, People, DefaultType, StoreAssumption DEF InitialRow, Row
  <2>3. mix.stored \subseteq Vid
    BY <2>1, PlaneAssumption
  <2>4. \A file \in exports : \E vid \in mix.stored : file = [vid |-> vid, vp |-> InitialRow(vid)]
    BY DEF PlaneInit
  <2>5. crashes \in Nat
    BY DEF PlaneInit
  <2> QED BY <2>2, <2>3, <2>4, <2>5 DEF FilesFit
<1> QED BY <1>1, <1>2, <1>3 DEF PlaneInv

\* Whatever the plane does, the store sees a call, a restart or nothing.
LEMMA PlaneStepIsCall ==
    ASSUME PlaneInv, [PlaneNext]_planeVars
    PROVE  [StoreNext]_storeVars
<1>1. CASE UNCHANGED planeVars \/ Rest
  BY <1>1 DEF planeVars, Rest
<1>2. CASE Request
  BY <1>2, RequestStep, People DEF Renames, StoreNext, SetName
<1>3. ASSUME NEW t \in Caller, Continue(t)
      PROVE  [StoreNext]_storeVars
  BY <1>3, ContinueIsCall
<1>4. CASE Crash
  BY <1>4 DEF Crash, StoreNext
<1> QED BY <1>1, <1>2, <1>3, <1>4 DEF PlaneNext, Request

LEMMA ContinueExports ==
    ASSUME NEW t, Continue(t)
    PROVE  UNCHANGED <<exports, crashes>>
<1>1. CASE DoUpsert(t) \/ DoRefreshPrint(t) \/ DoRefreshFlags(t) \/ DoLogUsage(t)
             \/ DoSetFlags(t) \/ DoDelete(t) \/ DoAddReceipt(t) \/ DoPropose(t)
  BY <1>1 DEF DoUpsert, DoRefreshPrint, DoRefreshFlags, DoLogUsage, DoSetFlags, DoDelete,
              DoAddReceipt, DoPropose, Then
<1>2. CASE DoLoad(t) \/ DoGate(t) \/ DoClaimOwner(t) \/ DoSetName(t) \/ DoSetStatus(t)
             \/ DoReadFlag(t) \/ DoReadName(t) \/ DoAddRecognition(t)
  BY <1>2 DEF DoLoad, DoGate, DoClaimOwner, DoSetName, DoSetStatus, DoReadFlag, DoReadName,
              DoAddRecognition, Then
<1> QED BY <1>1, <1>2 DEF Continue

LEMMA PlaneStepInv ==
    ASSUME PlaneInv, [PlaneNext]_planeVars
    PROVE  PlaneInv' /\ TrailsGrow
<1>1. [StoreNext]_storeVars
  BY PlaneStepIsCall
<1>2. StoreInv' /\ TrailsGrow
  BY <1>1, StepInv, StepGrows DEF PlaneInv, StoreInv
<1>3. ASSUME NEW t \in Caller, Starts(t) \/ Goes(t)
      PROVE  JobsFit'
  BY <1>2, <1>3, FitsLater, JobsLater DEF Starts, Goes, PlaneInv
<1>4. CASE UNCHANGED planeVars \/ Rest
  <2>1. UNCHANGED <<job, exports, crashes>>
    BY <1>4 DEF planeVars, Rest
  <2>2. \A t \in Caller : Fits(job[t], ledger', proposals')
    BY <1>2, FitsLater DEF PlaneInv, JobsFit
  <2> QED BY <1>2, <2>1, <2>2 DEF PlaneInv, JobsFit, FilesFit
<1>5. CASE Request
  <2>1. JobsFit' /\ NewFiles /\ UNCHANGED crashes
    BY <1>3, <1>5, RequestStep DEF Starts
  <2>2. FilesFit'
    <3>1. \A vid \in Vid : rows[vid] # NoRow => rows[vid] \in Row
      BY StoredRow DEF PlaneInv
    <3> QED BY <2>1, <3>1 DEF NewFiles, FilesFit, PlaneInv
  <2> QED BY <1>2, <2>1, <2>2 DEF PlaneInv
<1>6. ASSUME NEW t \in Caller, Continue(t)
      PROVE  PlaneInv'
  <2>1. JobsFit'
    BY <1>2, <1>3, <1>6, CacheStepFits, WriteStepGoes, ProposeGoes, ConfirmStepGoes,
       OtherStepGoes DEF Continue
  <2>2. FilesFit'
    BY <1>6, ContinueExports DEF PlaneInv, FilesFit
  <2> QED BY <1>2, <2>1, <2>2 DEF PlaneInv
<1>7. CASE Crash
  <2>1. JobsFit'
    BY <1>7, NoneFits DEF Crash, JobsFit
  <2>2. FilesFit'
    BY <1>7 DEF Crash, PlaneInv, FilesFit
  <2> QED BY <1>2, <2>1, <2>2 DEF PlaneInv
<1> QED BY <1>2, <1>4, <1>5, <1>6, <1>7 DEF PlaneNext, Request

LEMMA PlaneInvariant == PlaneSpec => []PlaneInv
<1>1. PlaneInv /\ [PlaneNext]_planeVars => PlaneInv'
  BY PlaneStepInv
<1> QED BY <1>1, PlaneInitInv, PTL DEF PlaneSpec

(* The handlers use the store as the store allows: every step of every      *)
(* endpoint, on any thread and with whatever it read before, is a call of   *)
(* the store, a restart, or leaves the store alone.                         *)
THEOREM StoreImplemented == PlaneSpec => UsesTheStore
<1>1. PlaneInv /\ [PlaneNext]_planeVars => [StoreNext]_storeVars
  BY PlaneStepIsCall
<1> QED BY <1>1, PlaneInitStore, PlaneInvariant, PTL DEF PlaneSpec, UsesTheStore, StoreSpec

-----------------------------------------------------------------------------
(* Receipts: which threads owe one, for which ledger row *)

Forgets == {lid \in DOMAIN ledger : ledger[lid].event = "forget"}

\* No two threads owe a receipt for the same deletion.
OneHolder == \A t, u \in Owing : Pending(t).lid = Pending(u).lid => t = u

\* Nothing is owed, issued, erased or lost.
Settled ==
    /\ Owing' = Owing /\ \A t \in Owing : Pending(t)' = Pending(t)
    /\ Forgets' = Forgets /\ UNCHANGED <<receipts, crashes>>

Erases(t) == DoDelete(t) /\ Stored(Home[job[t].vid], job[t].vid)

LEMMA OwedIsErased ==
    ASSUME PlaneInv, NEW t \in Owing
    PROVE  /\ t \in Caller /\ Pending(t).lid \in Forgets
           /\ Pending(t).vid \in Vid /\ Pending(t).actor \in Actor
           /\ ledger[Pending(t).lid] =
                  Record(Home[Pending(t).vid], Pending(t).vid, "forget", Pending(t).actor)
<1>1. t \in Caller /\ Pending(t).do = "add_receipt"
  BY DEF Owing
<1>2. Closing(Pending(t), ledger)
  BY <1>1, JobFits DEF Pending, Doing, Fits
<1> QED BY <1>1, <1>2 DEF Closing, Forgets, Record

\* What is left of job j once its caches are written.
After(j) == IF j.do = "refresh" THEN j.then ELSE j

LEMMA OwingKept ==
    ASSUME JobsFit, NEW t \in Caller, NEW j, job' = [job EXCEPT ![t] = j],
           \/ After(j) = Pending(t)
           \/ After(j).do # "add_receipt" /\ Pending(t).do # "add_receipt"
    PROVE  Owing' = Owing /\ \A u \in Owing : Pending(u)' = Pending(u)
<1>1. job'[t] = j /\ \A u \in Caller : u # t => job'[u] = job[u]
  BY DEF JobsFit
<1>2. Pending(t)' = After(j) /\ \A u \in Caller : u # t => Pending(u)' = Pending(u)
  BY <1>1 DEF Pending, Doing, After
<1> QED BY <1>2 DEF Owing

LEMMA ForgetsKept ==
    ASSUME PlaneInv, NEW e \in LedgerEntry, e.event # "forget",
           \/ ledger' = ledger \/ ledger' = Append(ledger, e)
           \/ ledger' = ledger \o <<e>> \/ ledger' = ledger \o <<e, e>>
    PROVE  Forgets' = Forgets
<1>1. ledger \in Seq(LedgerEntry)
  BY DEF PlaneInv, StoreInv, StoreTypeOK
<1>2. \A i \in DOMAIN ledger : i \in DOMAIN ledger' /\ ledger'[i] = ledger[i]
  BY <1>1, InsertGrows
<1>3. \A i \in DOMAIN ledger' : ledger'[i] = e \/ (i \in DOMAIN ledger /\ ledger'[i] = ledger[i])
  <2>1. CASE ledger' = ledger
    BY <2>1
  <2>2. CASE ledger' # ledger
    <3> DEFINE Kept(new) ==
            \A i \in DOMAIN new : new[i] = e \/ (i \in DOMAIN ledger /\ new[i] = ledger[i])
    <3>1. /\ Kept(Append(ledger, e)) /\ Kept(ledger \o <<e>>)
          /\ Kept(ledger \o <<e, e>>)
      BY <1>1, InsertKeeps
    <3>2. Kept(ledger')
      <4> HIDE DEF Kept
      <4> QED BY <2>2, <3>1
    <3> QED BY <3>2
  <2> QED BY <2>1, <2>2
<1> QED BY <1>2, <1>3 DEF Forgets

\* The steps that have nothing to do with receipts leave no receipt job.
LEMMA PlainMoves ==
    ASSUME PlaneInv, NEW t \in Caller,
           \/ DoUpsert(t) \/ DoLogUsage(t) \/ DoSetFlags(t) \/ DoPropose(t) \/ DoLoad(t)
           \/ DoGate(t) \/ DoClaimOwner(t) \/ DoSetName(t) \/ DoSetStatus(t)
           \/ DoReadFlag(t) \/ DoReadName(t) \/ DoAddRecognition(t)
           \/ DoDelete(t) /\ ~Stored(Home[job[t].vid], job[t].vid)
    PROVE  /\ Pending(t).do # "add_receipt"
           /\ \E j : job' = [job EXCEPT ![t] = j] /\ After(j).do # "add_receipt"
<1>1. CASE DoUpsert(t)
  <2> DEFINE j == [do |-> "refresh",
                   then |-> [do |-> "log_usage", vid |-> job[t].vid, event |-> job[t].event,
                             actor |-> job[t].actor]]
  <2>1. job' = [job EXCEPT ![t] = j] /\ Pending(t).do = "upsert"
    BY <1>1 DEF DoUpsert, Doing, Then, Pending
  <2>2. After(j).do = "log_usage"
    BY DEF After
  <2> HIDE DEF j
  <2> QED BY <2>1, <2>2
<1>2. CASE DoLogUsage(t) \/ DoSetName(t) \/ DoSetStatus(t) \/ DoAddRecognition(t)
             \/ DoClaimOwner(t)
  BY <1>2 DEF DoLogUsage, DoSetName, DoSetStatus, DoAddRecognition, DoClaimOwner, Marking,
              Doing, Then, Pending, After, None
<1>3. CASE DoSetFlags(t)
  <2> DEFINE j == IF Stored(Home[job[t].vid], job[t].vid)
                  THEN [do |-> "refresh", then |-> None] ELSE None
  <2>1. job' = [job EXCEPT ![t] = j] /\ Pending(t).do = "set_flags"
    BY <1>3 DEF DoSetFlags, Doing, Then, Pending
  <2>2. After(j).do = "none"
    BY DEF After, None
  <2> HIDE DEF j
  <2> QED BY <2>1, <2>2
<1>4. CASE DoPropose(t)
  <2>1. PICK pid : \/ Then(t, [do |-> "load", pid |-> pid, actor |-> job[t].actor])
                   \/ Then(t, None)
    BY <1>4 DEF DoPropose
  <2> QED BY <1>4, <2>1 DEF DoPropose, Doing, Then, Pending, After, None
<1>5. CASE DoLoad(t) \/ DoGate(t)
  BY <1>5 DEF DoLoad, DoGate, Doing, Then, Pending, After, None
<1>6. CASE DoReadFlag(t) \/ DoReadName(t)
  BY <1>6 DEF DoReadFlag, DoReadName, Doing, Then, Pending, After
<1>7. CASE DoDelete(t) /\ ~Stored(Home[job[t].vid], job[t].vid)
  BY <1>7 DEF DoDelete, Doing, Then, Pending, After, None
<1> QED BY <1>1, <1>2, <1>3, <1>4, <1>5, <1>6, <1>7

\* ... and neither erase anything nor issue a receipt.
LEMMA PlainCalls ==
    ASSUME PlaneInv, NEW t \in Caller,
           \/ DoUpsert(t) \/ DoLogUsage(t) \/ DoSetFlags(t) \/ DoPropose(t) \/ DoLoad(t)
           \/ DoGate(t) \/ DoClaimOwner(t) \/ DoSetName(t) \/ DoSetStatus(t)
           \/ DoReadFlag(t) \/ DoReadName(t) \/ DoAddRecognition(t)
           \/ DoDelete(t) /\ ~Stored(Home[job[t].vid], job[t].vid)
    PROVE  Forgets' = Forgets /\ UNCHANGED <<receipts, crashes>>
<1> DEFINE j == job[t]
<1>1. Fits(j, ledger, proposals)
  BY JobFits
<1> HIDE DEF j
<1>2. ASSUME UNCHANGED ledger PROVE Forgets' = Forgets
  BY <1>2 DEF Forgets
<1>3. CASE DoUpsert(t) \/ DoPropose(t) \/ DoClaimOwner(t) \/ DoSetStatus(t) \/ DoAddRecognition(t)
  BY <1>2, <1>3 DEF DoUpsert, upsert, DoPropose, propose, DoClaimOwner, claim_owner,
     DoSetStatus, set_status, DoAddRecognition, add_recognition, Then
<1>4. CASE DoLoad(t) \/ DoGate(t) \/ DoReadFlag(t) \/ DoReadName(t)
  BY <1>2, <1>4 DEF DoLoad, DoGate, DoReadFlag, DoReadName, Then, storeVars, tables
<1>5. CASE DoDelete(t) /\ ~Stored(Home[job[t].vid], job[t].vid)
  BY <1>2, <1>5 DEF DoDelete, delete, Then
<1>6. CASE DoLogUsage(t)
  <2> DEFINE e == Record(Home[j.vid], j.vid, j.event, j.actor)
  <2>1. j.vid \in Vid /\ j.event \in LoggedEvent /\ j.actor \in Actor
    BY <1>1, <1>6 DEF DoLogUsage, Doing, Fits, Closing, j
  <2>2. e \in LedgerEntry /\ e.event # "forget"
    BY <2>1, RecordType, People DEF Event, LoggedEvent, Record
  <2>3. ledger' = Append(ledger, e) /\ UNCHANGED <<receipts, crashes>>
    BY <1>6 DEF DoLogUsage, log_usage, Then, j
  <2> HIDE DEF e
  <2> QED BY <2>2, <2>3, ForgetsKept
<1>7. CASE DoSetFlags(t)
  <2> DEFINE e == Record(Home[j.vid], j.vid, "control", j.actor)
  <2>1. j.vid \in Vid /\ j.actor \in Actor
    BY <1>1, <1>7 DEF DoSetFlags, Doing, Fits, j
  <2>2. e \in LedgerEntry /\ e.event # "forget"
    BY <2>1, RecordType, People DEF Event, Record
  <2>3. /\ ledger' = ledger \/ ledger' = ledger \o <<e>> \/ ledger' = ledger \o <<e, e>>
        /\ UNCHANGED <<receipts, crashes>>
    BY <1>7 DEF DoSetFlags, set_flags, Then, j
  <2> HIDE DEF e
  <2> QED BY <2>2, <2>3, ForgetsKept
<1>8. CASE DoSetName(t)
  <2> DEFINE p == proposals[j.pid]
             e == Record(p.ws, p.vid, "name_bind", j.actor)
  <2>1. p \in Proposal /\ j.actor \in Actor
    BY <1>1, <1>8, TypedProposal DEF DoSetName, Doing, Fits, Confirming, j
  <2>2. e \in LedgerEntry /\ e.event # "forget"
    BY <2>1, RecordType DEF Event, Record, Proposal
  <2>3. (ledger' = ledger \/ ledger' = Append(ledger, e)) /\ UNCHANGED <<receipts, crashes>>
    BY <1>8 DEF DoSetName, set_name, Then, j
  <2> HIDE DEF e
  <2> QED BY <2>2, <2>3, ForgetsKept
<1> QED BY <1>3, <1>4, <1>5, <1>6, <1>7, <1>8

\* What a step may do about receipts.
LEMMA ReceiptStep ==
    ASSUME PlaneInv, [PlaneNext]_planeVars
    PROVE  \/ \E t \in Caller : Erases(t)
           \/ \E t \in Caller : DoAddReceipt(t)
           \/ Crash
           \/ Settled
<1>0. JobsFit /\ StoreInv
  BY DEF PlaneInv
<1>1. CASE UNCHANGED planeVars \/ Rest
  BY <1>1 DEF planeVars, Rest, storeVars, tables, Settled, Owing, Pending, Doing, Forgets
<1>2. CASE Request
  <2>1. PICK t \in Caller : Starts(t)
    BY <1>2, RequestStep
  <2>2. PICK j : job' = [job EXCEPT ![t] = j] /\ Opens(t, j)
    BY <2>1 DEF Starts
  <2>3. After(j).do # "add_receipt" /\ Pending(t).do # "add_receipt" /\ UNCHANGED crashes
    BY <2>1, <2>2 DEF Starts, Opens, After, Pending, Doing, None
  <2>4. Owing' = Owing /\ \A u \in Owing : Pending(u)' = Pending(u)
    BY <1>0, <2>2, <2>3, OwingKept
  <2>5. CASE UNCHANGED storeVars
    BY <2>3, <2>4, <2>5 DEF storeVars, tables, Settled, Forgets
  <2>6. CASE Renames
    <3>1. PICK vid \in Vid, name \in Name : set_name(EventLoop, Home[vid], vid, name, Service)
      BY <2>6 DEF Renames
    <3> DEFINE e == Record(Home[vid], vid, "name_bind", Service)
    <3>2. e \in LedgerEntry /\ e.event # "forget"
      BY RecordType, People DEF Event, Record
    <3>3. (ledger' = ledger \/ ledger' = Append(ledger, e)) /\ UNCHANGED receipts
      BY <3>1 DEF set_name
    <3> HIDE DEF e
    <3>4. Forgets' = Forgets
      BY <3>2, <3>3, ForgetsKept
    <3> QED BY <2>3, <2>4, <3>3, <3>4 DEF Settled
  <2> QED BY <1>2, <2>5, <2>6, RequestStep
<1>3. ASSUME NEW t \in Caller, DoRefreshPrint(t) \/ DoRefreshFlags(t)
      PROVE  Settled
  <2>1. Forgets' = Forgets /\ UNCHANGED <<receipts, crashes>>
    BY <1>3 DEF DoRefreshPrint, RefreshPrint, DoRefreshFlags, RefreshFlags, tables, Then, Forgets
  <2>2. CASE DoRefreshPrint(t)
    BY <2>1, <2>2 DEF DoRefreshPrint, Settled, Owing, Pending, Doing
  <2>3. CASE DoRefreshFlags(t)
    <3>1. Closing(job[t].then, ledger)
      BY <2>3, JobFits DEF DoRefreshFlags, Doing, Fits
    <3>2. job' = [job EXCEPT ![t] = job[t].then] /\ After(job[t].then) = Pending(t)
      BY <2>3, <3>1 DEF DoRefreshFlags, Doing, Then, After, Pending, Closing
    <3> QED BY <1>0, <2>1, <3>2, OwingKept DEF Settled
  <2> QED BY <1>3, <2>2, <2>3
<1>4. ASSUME NEW t \in Caller,
             \/ DoUpsert(t) \/ DoLogUsage(t) \/ DoSetFlags(t) \/ DoPropose(t) \/ DoLoad(t)
             \/ DoGate(t) \/ DoClaimOwner(t) \/ DoSetName(t) \/ DoSetStatus(t)
             \/ DoReadFlag(t) \/ DoReadName(t) \/ DoAddRecognition(t)
             \/ DoDelete(t) /\ ~Stored(Home[job[t].vid], job[t].vid)
      PROVE  Settled
  <2>1. Owing' = Owing /\ \A u \in Owing : Pending(u)' = Pending(u)
    BY <1>0, <1>4, PlainMoves, OwingKept
  <2> QED BY <1>4, <2>1, PlainCalls DEF Settled
<1>5. ASSUME NEW t \in Caller, Continue(t)
      PROVE  \/ Erases(t) \/ DoAddReceipt(t) \/ Settled
  BY <1>3, <1>4, <1>5 DEF Continue, Erases
<1> QED BY <1>1, <1>2, <1>5 DEF PlaneNext, Request

LEMMA EraseStep ==
    ASSUME PlaneInv, NEW t \in Caller, Erases(t)
    PROVE  /\ t \notin Owing /\ Owing' = Owing \cup {t}
           /\ Pending(t)'.lid = Len(ledger) + 1 /\ Len(ledger) + 1 \notin DOMAIN ledger
           /\ \A u \in Owing : Pending(u)' = Pending(u)
           /\ Forgets' = Forgets \cup {Len(ledger) + 1}
           /\ UNCHANGED <<receipts, crashes>>
<1> DEFINE j == job[t]
           owed == [do |-> "add_receipt", vid |-> j.vid, actor |-> j.actor,
                    lid |-> Len(ledger) + 1]
           e == Record(Home[j.vid], j.vid, "forget", j.actor)
<1>1. j.vid \in Vid /\ j.actor \in Actor /\ j.do = "delete"
  BY JobFits DEF Erases, DoDelete, Doing, Fits
<1>2. /\ job' = [job EXCEPT ![t] = [do |-> "refresh", then |-> owed]]
      /\ ledger' = Append(ledger, e) /\ UNCHANGED <<receipts, crashes>>
  BY DEF Erases, DoDelete, delete, Then
<1>3. e \in LedgerEntry /\ e.event = "forget" /\ ledger \in Seq(LedgerEntry)
  BY <1>1, RecordType, People DEF Event, Record, PlaneInv, StoreInv, StoreTypeOK
<1>4. /\ job'[t] = [do |-> "refresh", then |-> owed]
      /\ \A u \in Caller : u # t => job'[u] = job[u]
  BY <1>2 DEF PlaneInv, JobsFit
<1>5. Pending(t).do = "delete" /\ Pending(t)' = owed
  BY <1>1, <1>4 DEF Pending, Doing
<1>6. \A u \in Caller : u # t => Pending(u)' = Pending(u)
  BY <1>4 DEF Pending, Doing
<1>7. Forgets' = Forgets \cup {Len(ledger) + 1} /\ Len(ledger) + 1 \notin DOMAIN ledger
  <2> HIDE DEF e
  <2> QED BY <1>2, <1>3 DEF Forgets
<1> QED BY <1>2, <1>5, <1>6, <1>7 DEF Owing

LEMMA IssueStep ==
    ASSUME PlaneInv, NEW t \in Caller, DoAddReceipt(t)
    PROVE  /\ t \in Owing /\ Owing' = Owing \ {t}
           /\ \A u \in Owing \ {t} : Pending(u)' = Pending(u)
           /\ UNCHANGED <<ledger, crashes>>
           /\ receipts' = Append(receipts, [ws |-> Home[Pending(t).vid], vid |-> Pending(t).vid,
                                            actor |-> Pending(t).actor, lid |-> Pending(t).lid])
<1>1. /\ Pending(t) = job[t] /\ job[t].do = "add_receipt"
      /\ job' = [job EXCEPT ![t] = None]
  BY DEF DoAddReceipt, Doing, Pending, Then
<1>2. job'[t] = None /\ \A u \in Caller : u # t => job'[u] = job[u]
  BY <1>1 DEF PlaneInv, JobsFit
<1>3. Pending(t)'.do = "none" /\ \A u \in Caller : u # t => Pending(u)' = Pending(u)
  BY <1>2 DEF Pending, Doing, None
<1> QED BY <1>1, <1>3 DEF DoAddReceipt, add_deletion_receipt, Then, Owing

LEMMA CrashStep ==
    ASSUME PlaneInv, Crash
    PROVE  Owing' = {} /\ UNCHANGED <<ledger, receipts>> /\ crashes' = crashes + 1
<1>1. \A t \in Caller : job'[t] = None
  BY DEF Crash
<1> QED BY <1>1 DEF Crash, Reopen, tables, Owing, Pending, Doing, None

\* Receipts and the ledger agree, and a deletion has one thread to receipt it.
ReceiptInv == PlaneInv /\ OneHolder /\ ReceiptSound

LEMMA ReceiptStepInv ==
    ASSUME ReceiptInv, [PlaneNext]_planeVars
    PROVE  ReceiptInv'
<1>1. PlaneInv /\ PlaneInv' /\ TrailsGrow
  BY PlaneStepInv DEF ReceiptInv
<1>2. ASSUME UNCHANGED receipts PROVE ReceiptSound'
  <2>1. ASSUME NEW i \in DOMAIN receipts
        PROVE  /\ receipts[i].lid \in DOMAIN ledger'
               /\ ledger'[receipts[i].lid] =
                      Record(receipts[i].ws, receipts[i].vid, "forget", receipts[i].actor)
    BY <1>1 DEF ReceiptInv, ReceiptSound, TrailsGrow
  <2> QED BY <1>2, <2>1 DEF ReceiptSound, Record
<1>3. ASSUME NEW t \in Caller, Erases(t) PROVE ReceiptInv'
  <2>1. OneHolder'
    <3>1. \A u \in Owing : Pending(u).lid \in DOMAIN ledger
      BY <1>1, OwedIsErased DEF Forgets
    <3> QED BY <1>1, <1>3, <3>1, EraseStep DEF ReceiptInv, OneHolder
  <2> QED BY <1>1, <1>2, <1>3, <2>1, EraseStep DEF ReceiptInv
<1>4. ASSUME NEW t \in Caller, DoAddReceipt(t) PROVE ReceiptInv'
  <2> DEFINE p == Pending(t)
             r == [ws |-> Home[p.vid], vid |-> p.vid, actor |-> p.actor, lid |-> p.lid]
  <2>1. /\ t \in Owing /\ Owing' = Owing \ {t} /\ ledger' = ledger
        /\ \A u \in Owing \ {t} : Pending(u)' = Pending(u)
        /\ receipts' = Append(receipts, r)
    BY <1>1, <1>4, IssueStep
  <2>2. OneHolder'
    BY <2>1 DEF ReceiptInv, OneHolder
  <2>3. p.lid \in DOMAIN ledger /\ ledger[p.lid] = Record(r.ws, r.vid, "forget", r.actor)
    BY <1>1, <2>1, OwedIsErased DEF Forgets
  <2>4. receipts \in Seq(Receipt) /\ r.lid = p.lid
    BY <1>1 DEF PlaneInv, StoreInv, StoreTypeOK
  <2>5. ReceiptSound'
    <3> HIDE DEF p, r
    <3>1. \A i \in DOMAIN receipts' :
              receipts'[i] = r \/ (i \in DOMAIN receipts /\ receipts'[i] = receipts[i])
      BY <2>1, <2>4
    <3> QED BY <2>1, <2>3, <2>4, <3>1 DEF ReceiptInv, ReceiptSound, Record
  <2> QED BY <1>1, <2>2, <2>5 DEF ReceiptInv
<1>5. CASE Crash
  BY <1>1, <1>2, <1>5, CrashStep DEF ReceiptInv, OneHolder
<1>6. CASE Settled
  <2>1. OneHolder'
    BY <1>6 DEF Settled, ReceiptInv, OneHolder
  <2> QED BY <1>1, <1>2, <1>6, <2>1 DEF Settled, ReceiptInv
<1> QED BY <1>1, <1>3, <1>4, <1>5, <1>6, ReceiptStep

LEMMA ReceiptInvariant == PlaneSpec => []ReceiptInv
<1>1. PlaneInit => ReceiptInv
  <2> SUFFICES ASSUME PlaneInit PROVE OneHolder /\ ReceiptSound
    BY PlaneInitInv DEF ReceiptInv
  <2>1. \A t \in Caller : job[t] = None
    BY DEF PlaneInit
  <2>2. Owing = {} /\ receipts = <<>>
    BY <2>1 DEF PlaneInit, Owing, Pending, Doing, None
  <2> QED BY <2>2 DEF OneHolder, ReceiptSound
<1>2. ReceiptInv /\ [PlaneNext]_planeVars => ReceiptInv'
  BY ReceiptStepInv
<1> QED BY <1>1, <1>2, PTL DEF PlaneSpec

(* A receipt is true for ever: the ledger row it names exists and says that *)
(* this actor forgot this voiceprint, however many forgets race.            *)
THEOREM ReceiptsSound == PlaneSpec => []ReceiptSound
<1>1. ReceiptInv => ReceiptSound
  BY DEF ReceiptInv
<1> QED BY <1>1, ReceiptInvariant, PTL

(* forget_me, with everything that runs beside it, implements DeletionProof: *)
(* a deletion becomes due a receipt as it is committed, a receipt is issued  *)
(* only for a deletion that is due one, at most once, and nothing but a      *)
(* restart drops one that is due.                                            *)
THEOREM ReceiptsImplemented == PlaneSpec => ReceiptProtocol
<1>1. PlaneInit => Proof!Init
  <2> SUFFICES ASSUME PlaneInit PROVE Proof!Init
    OBVIOUS
  <2>1. \A t \in Caller : job[t] = None
    BY DEF PlaneInit
  <2>2. Owing = {} /\ receipts = <<>> /\ ledger = <<>> /\ crashes = 0
    BY <2>1 DEF PlaneInit, Owing, Pending, Doing, None
  <2>3. {lid \in DOMAIN ledger : ledger[lid].event = "forget"} = {}
    BY <2>2
  <2>4. [i \in DOMAIN receipts |-> receipts[i].lid] = <<>>
    BY <2>2
  <2> QED BY <2>2, <2>3, <2>4 DEF Proof!Init
<1>2. ReceiptInv /\ [PlaneNext]_planeVars => [Proof!Next]_(Proof!vars)
  <2> SUFFICES ASSUME ReceiptInv, [PlaneNext]_planeVars PROVE [Proof!Next]_(Proof!vars)
    OBVIOUS
  <2> DEFINE due == {Pending(t).lid : t \in Owing}
             issued == [i \in DOMAIN receipts |-> receipts[i].lid]
  <2>1. PlaneInv /\ OneHolder /\ receipts \in Seq(Receipt)
    BY DEF ReceiptInv, PlaneInv, StoreInv, StoreTypeOK
  <2>2. ASSUME NEW t \in Caller, Erases(t) PROVE Proof!Next
    <3> PICK id : id = Len(ledger) + 1
      OBVIOUS
    <3>1. /\ Owing' = Owing \cup {t} /\ Pending(t)'.lid = id /\ id \notin Forgets
          /\ \A u \in Owing : Pending(u)' = Pending(u)
          /\ Forgets' = Forgets \cup {id} /\ UNCHANGED <<receipts, crashes>>
      BY <2>1, <2>2, EraseStep DEF Forgets
    <3>2. due' = due \cup {id}
      BY <3>1
    <3>3. issued' = issued
      BY <3>1
    <3> HIDE DEF due, issued
    <3>4. Proof!Delete(id)
      BY <3>1, <3>2, <3>3 DEF Proof!Delete, Forgets, due, issued
    <3> QED BY <3>1, <3>4 DEF Proof!Next, Forgets
  <2>3. ASSUME NEW t \in Caller, DoAddReceipt(t) PROVE Proof!Next
    <3> PICK id : id = Pending(t).lid
      OBVIOUS
    <3> DEFINE r == [ws |-> Home[Pending(t).vid], vid |-> Pending(t).vid,
                     actor |-> Pending(t).actor, lid |-> id]
    <3>1. /\ t \in Owing /\ Owing' = Owing \ {t}
          /\ \A u \in Owing \ {t} : Pending(u)' = Pending(u)
          /\ UNCHANGED <<ledger, crashes>> /\ receipts' = Append(receipts, r)
      BY <2>1, <2>3, IssueStep
    <3>2. due' = due \ {id}
      BY <2>1, <3>1 DEF OneHolder
    <3>3. issued' = Append(issued, id)
      <4>1. r.lid = id
        OBVIOUS
      <4> HIDE DEF r
      <4>2. \A i \in 1 .. Len(receipts) : receipts[i].lid \in Nat
        <5>1. \A i \in 1 .. Len(receipts) : receipts[i] \in Receipt
          BY <2>1
        <5> QED BY <5>1 DEF Receipt
      <4>3. DOMAIN receipts = 1 .. Len(receipts) /\ Len(receipts) \in Nat
        BY <2>1
      <4>4. issued \in Seq(Nat) /\ Len(issued) = Len(receipts)
        BY <4>2, <4>3
      <4> QED BY <2>1, <3>1, <4>1, <4>3, <4>4
    <3>4. id \in due
      BY <3>1
    <3> HIDE DEF due, issued
    <3>5. Proof!Issue(id)
      BY <3>1, <3>2, <3>3, <3>4 DEF Proof!Issue, due, issued
    <3> QED BY <3>4, <3>5 DEF Proof!Next, due
  <2>4. CASE Crash
    <3>1. Owing' = {} /\ UNCHANGED <<ledger, receipts>> /\ crashes' = crashes + 1
      BY <2>1, <2>4, CrashStep
    <3>2. due' = {}
      BY <3>1
    <3>3. Proof!Restart
      BY <3>1, <3>2 DEF Proof!Restart
    <3> QED BY <3>3 DEF Proof!Next
  <2>5. CASE Settled
    <3>1. /\ Owing' = Owing /\ \A u \in Owing : Pending(u)' = Pending(u)
          /\ Forgets' = Forgets /\ UNCHANGED <<receipts, crashes>>
      BY <2>5 DEF Settled
    <3>2. due' = due /\ issued' = issued
      BY <3>1
    <3> QED BY <3>1, <3>2 DEF Proof!vars, Forgets
  <2> QED BY <2>1, <2>2, <2>3, <2>4, <2>5, ReceiptStep
<1> QED BY <1>1, <1>2, ReceiptInvariant, PTL DEF PlaneSpec, ReceiptProtocol, Proof!Spec

-----------------------------------------------------------------------------
(* What a handler's step may touch, and what it may lead to *)

\* Thread t goes on with a job that is not the first write of a request.
Leads(t) ==
    /\ UNCHANGED mix
    /\ \E j : /\ job' = [job EXCEPT ![t] = j] /\ j.do \notin {"upsert", "set_flags"}
              /\ j.do = "set_name" => DoClaimOwner(t)
              /\ j.do = "set_status" => DoClaimOwner(t) \/ DoSetName(t)
              /\ j.do \in {"set_name", "set_status"} => j = job[t] \/ j.pid = job[t].pid

LEMMA ThenLeads ==
    ASSUME NEW t, NEW j, Then(t, j),
           j.do \in {"none", "refresh", "log_usage", "add_receipt", "load", "gate",
                     "claim_owner", "read_name"}
    PROVE  Leads(t)
BY DEF Then, Leads

LEMMA NextJob ==
    ASSUME PlaneInv, NEW t \in Caller, Continue(t)
    PROVE  Leads(t)
<1> DEFINE j == job[t]
<1>0. None.do = "none"
  BY DEF None
<1>1. CASE DoRefreshPrint(t)
  BY <1>1 DEF DoRefreshPrint, Doing, PlaneInv, JobsFit, Leads
<1>2. CASE DoRefreshFlags(t)
  <2>1. Closing(job[t].then, ledger) /\ Then(t, job[t].then)
    BY <1>2, JobFits DEF DoRefreshFlags, Doing, Fits
  <2> QED BY <2>1, ThenLeads DEF Closing
<1>3. CASE DoAddReceipt(t) \/ DoLogUsage(t) \/ DoSetStatus(t) \/ DoAddRecognition(t)
  BY <1>0, <1>3, ThenLeads DEF DoAddReceipt, DoLogUsage, DoSetStatus, DoAddRecognition
<1>4. CASE DoUpsert(t) \/ DoSetFlags(t) \/ DoDelete(t)
  <2>1. PICK k : Then(t, [do |-> "refresh", then |-> k]) \/ Then(t, None)
    BY <1>4 DEF DoUpsert, DoSetFlags, DoDelete
  <2> DEFINE next == [do |-> "refresh", then |-> k]
  <2>2. next.do = "refresh"
    OBVIOUS
  <2> HIDE DEF next
  <2> QED BY <1>0, <2>1, <2>2, ThenLeads DEF next
<1>5. CASE DoPropose(t)
  <2>1. PICK pid : Then(t, [do |-> "load", pid |-> pid, actor |-> j.actor]) \/ Then(t, None)
    BY <1>5 DEF DoPropose
  <2> DEFINE next == [do |-> "load", pid |-> pid, actor |-> j.actor]
  <2>2. next.do = "load"
    OBVIOUS
  <2> HIDE DEF next
  <2> QED BY <1>0, <2>1, <2>2, ThenLeads DEF next
<1>6. CASE DoLoad(t) \/ DoGate(t)
  <2> DEFINE p == proposals[j.pid]
             gate == [do |-> "gate", pid |-> j.pid, actor |-> j.actor, status |-> p.status]
             claim == [do |-> "claim_owner", pid |-> j.pid, actor |-> j.actor,
                       allowed |-> identify_allowed(p.ws, p.vid)]
  <2>1. gate.do = "gate" /\ claim.do = "claim_owner"
    OBVIOUS
  <2>2. Then(t, gate) \/ Then(t, claim) \/ Then(t, None)
    BY <1>6 DEF DoLoad, DoGate
  <2> HIDE DEF gate, claim
  <2> QED BY <1>0, <2>1, <2>2, ThenLeads
<1>7. CASE DoReadFlag(t) \/ DoReadName(t)
  <2> DEFINE row == get(Home[j.vid], j.vid)
             read == [do |-> "read_name", vid |-> j.vid]
             withheld == [do |-> "log_usage", vid |-> j.vid, event |-> "identify",
                          actor |-> Service]
             named == [do |-> "log_usage", vid |-> j.vid, event |-> "identify",
                       actor |-> Service, shown |-> IF row = NoRow THEN NoName ELSE row.name]
  <2>1. read.do = "read_name" /\ withheld.do = "log_usage" /\ named.do = "log_usage"
    OBVIOUS
  <2>2. Then(t, read) \/ Then(t, withheld) \/ Then(t, named)
    BY <1>7 DEF DoReadFlag, DoReadName
  <2> HIDE DEF read, withheld, named
  <2> QED BY <2>1, <2>2, ThenLeads
<1>8. CASE DoClaimOwner(t) \/ DoSetName(t)
  <2> DEFINE name == [do |-> "set_name", pid |-> j.pid, actor |-> j.actor]
  <2>1. /\ name.do = "set_name" /\ Marking(j).do = "set_status"
        /\ name.pid = j.pid /\ Marking(j).pid = j.pid
    BY DEF Marking
  <2>2. (Then(t, name) /\ DoClaimOwner(t)) \/ Then(t, Marking(j))
    BY <1>8 DEF DoClaimOwner, DoSetName
  <2> HIDE DEF name
  <2> QED BY <1>8, <2>1, <2>2 DEF Then, Leads
<1> QED BY <1>1, <1>2, <1>3, <1>4, <1>5, <1>6, <1>7, <1>8 DEF Continue

LEMMA Frames ==
    ASSUME NEW t, Continue(t)
    PROVE  /\ DoUpsert(t) \/ DoSetFlags(t) \/ DoDelete(t) \/ DoClaimOwner(t) \/ DoSetName(t)
                 \/ UNCHANGED rows
           /\ DoUpsert(t) \/ DoSetFlags(t) \/ DoDelete(t) \/ UNCHANGED consent
           /\ DoSetName(t) \/ UNCHANGED audit
           /\ DoPropose(t) \/ DoSetStatus(t) \/ UNCHANGED proposals
<1>1. CASE DoUpsert(t) \/ DoSetFlags(t) \/ DoDelete(t)
  BY <1>1 DEF DoUpsert, upsert, DoSetFlags, set_flags, DoDelete, delete
<1>2. CASE DoClaimOwner(t) \/ DoSetName(t)
  BY <1>2 DEF DoClaimOwner, claim_owner, DoSetName, set_name, history
<1>3. CASE DoPropose(t) \/ DoSetStatus(t)
  BY <1>3 DEF DoPropose, propose, DoSetStatus, set_status, history
<1>4. CASE DoRefreshPrint(t) \/ DoRefreshFlags(t)
  BY <1>4 DEF DoRefreshPrint, RefreshPrint, DoRefreshFlags, RefreshFlags, tables, history
<1>5. CASE DoLogUsage(t) \/ DoAddReceipt(t) \/ DoAddRecognition(t)
  BY <1>5 DEF DoLogUsage, log_usage, DoAddReceipt, add_deletion_receipt, DoAddRecognition,
     add_recognition, history
<1>6. CASE DoLoad(t) \/ DoGate(t) \/ DoReadFlag(t) \/ DoReadName(t)
  BY <1>6 DEF DoLoad, DoGate, DoReadFlag, DoReadName, storeVars, tables, history
<1> QED BY <1>1, <1>2, <1>3, <1>4, <1>5, <1>6 DEF Continue

\* A step outside the handlers' own: nothing, a request, or a restart.
LEMMA Outside ==
    ASSUME PlaneInv, [PlaneNext]_planeVars
    PROVE  \/ \E t \in Caller : Continue(t)
           \/ \E t \in Caller : Starts(t) /\ Renames /\ NewFiles
           \/ /\ UNCHANGED <<tables, mix, chosen, undone>> /\ NewFiles
              /\ \/ \E t \in Caller : Starts(t)
                 \/ job' = [t \in Caller |-> None] /\ Crash
                 \/ UNCHANGED <<job, crashes, late>>
<1>1. CASE UNCHANGED planeVars \/ Rest
  BY <1>1 DEF planeVars, Rest, storeVars, NewFiles, history, consent
<1>2. CASE Request
  <2>1. PICK t \in Caller : Starts(t)
    BY <1>2, RequestStep
  <2> QED BY <1>2, <2>1, RequestStep DEF Starts, storeVars, consent
<1>3. CASE Crash
  BY <1>3 DEF Crash, Reopen, history, NewFiles
<1> QED BY <1>1, <1>2, <1>3 DEF PlaneNext, Request

-----------------------------------------------------------------------------
(* Names *)

\* What an append to the audit trail must satisfy.
Authorised(entry, tags) ==
    entry.actor # Service =>
        \E pid \in DOMAIN tags : /\ tags[pid].vid = entry.vid
                                 /\ tags[pid].email = entry.actor
                                 /\ tags[pid].name = entry.new

LEMMA SetNameAudits ==
    ASSUME PlaneInv, NEW c, NEW ws, NEW vid, NEW name, NEW actor,
           set_name(c, ws, vid, name, actor)
    PROVE  \A i \in DOMAIN audit' :
               \/ i \in DOMAIN audit /\ audit'[i] = audit[i]
               \/ audit'[i].vid = vid /\ audit'[i].new = name /\ audit'[i].actor = actor
<1> DEFINE e == [ws |-> ws, vid |-> vid, old |-> rows[vid].name, new |-> name,
                 actor |-> actor]
<1>1. audit' = audit \/ audit' = Append(audit, e)
  BY DEF set_name
<1>2. e.vid = vid /\ e.new = name /\ e.actor = actor
  OBVIOUS
<1>3. audit \in Seq(AuditEntry)
  BY DEF PlaneInv, StoreInv, StoreTypeOK
<1> HIDE DEF e
<1> QED BY <1>1, <1>2, <1>3

LEMMA NamesStep ==
    ASSUME PlaneInv, NoThirdPartyNames, [PlaneNext]_planeVars
    PROVE  NoThirdPartyNames'
<1>1. TrailsGrow
  BY PlaneStepInv
<1>2. \A e : Authorised(e, proposals) => Authorised(e, proposals')
  BY <1>1 DEF Authorised, TrailsGrow
<1>3. \A i \in DOMAIN audit : Authorised(audit[i], proposals)
  BY DEF NoThirdPartyNames, Authorised
<1>4. ASSUME NEW t \in Caller, Continue(t), ~DoSetName(t)
      PROVE  UNCHANGED audit
  BY <1>4, Frames
<1>5. \A i \in DOMAIN audit' :
          (i \in DOMAIN audit /\ audit'[i] = audit[i]) \/ Authorised(audit'[i], proposals)
  <2>1. ASSUME NEW t \in Caller, DoSetName(t)
        PROVE  \A i \in DOMAIN audit' :
                  (i \in DOMAIN audit /\ audit'[i] = audit[i]) \/ Authorised(audit'[i], proposals)
    <3> DEFINE pid == job[t].pid
    <3>1. pid \in DOMAIN proposals /\ job[t].actor \in {Service, proposals[pid].email}
      BY <2>1, JobFits DEF DoSetName, Doing, Fits, Confirming
    <3>2. set_name(t, proposals[pid].ws, proposals[pid].vid, proposals[pid].name, job[t].actor)
      BY <2>1 DEF DoSetName
    <3> QED BY <3>1, <3>2, SetNameAudits DEF Authorised
  <2>2. CASE Renames
    BY <2>2, SetNameAudits DEF Renames, Authorised
  <2>3. CASE UNCHANGED audit
    BY <2>3
  <2> QED BY <1>4, <2>1, <2>2, <2>3, Outside DEF tables
<1>6. \A i \in DOMAIN audit' : Authorised(audit'[i], proposals')
  BY <1>2, <1>3, <1>5
<1> QED BY <1>6 DEF NoThirdPartyNames, Authorised

(* A name the audit trail gives to a signed-in subject is one that was      *)
(* proposed to that subject for that voiceprint: nobody confirms for        *)
(* another, whatever proposals and confirmations interleave or repeat.      *)
THEOREM NamesAreOwn == PlaneSpec => []NoThirdPartyNames
<1>1. PlaneInit => NoThirdPartyNames
  BY DEF PlaneInit, NoThirdPartyNames
<1>2. PlaneInv /\ NoThirdPartyNames /\ [PlaneNext]_planeVars => NoThirdPartyNames'
  BY NamesStep
<1> QED BY <1>1, <1>2, PlaneInvariant, PTL DEF PlaneSpec

-----------------------------------------------------------------------------
(* Owners *)

\* The voiceprint at (ws, vid) of a table has an owner, if it is there.
Claimed(table, ws, vid) ==
    table[vid] # NoRow /\ table[vid].ws = ws => table[vid].owner # NoEmail

\* The legacy bare-name channel is closed, or every voiceprint is claimed.
BareNamesClaimed ==
    "rename" \in mix.kinds => \A vid \in Vid : rows[vid] # NoRow => rows[vid].owner # NoEmail

\* Who is about to write a name, or to mark a proposal confirmed, has claimed
\* the voiceprint -- and it stays claimed, whatever happens to it in between.
OwnerInv ==
    /\ PlaneInv /\ BareNamesClaimed /\ OwnerFirst
    /\ \A t \in Caller :
          \/ Doing(t, "set_name")
          \/ Doing(t, "set_status") /\ job[t].status = "confirmed"
          => Claimed(rows, proposals[job[t].pid].ws, proposals[job[t].pid].vid)

\* A voiceprint without an owner was there before, unclaimed, with that name.
OwnersStay ==
    \A vid \in Vid : rows'[vid] # NoRow /\ rows'[vid].owner = NoEmail =>
        /\ rows[vid] # NoRow /\ rows[vid].owner = NoEmail
        /\ rows'[vid].ws = rows[vid].ws /\ rows'[vid].name = rows[vid].name

LEMMA NamingKeepsOwner ==
    ASSUME PlaneInv, NEW c, NEW ws \in Workspace, NEW vid \in Vid, NEW name, NEW actor,
           set_name(c, ws, vid, name, actor), Claimed(rows, ws, vid)
    PROVE  OwnersStay
<1>1. rows \in [Vid -> Row \cup {NoRow}]
  BY DEF PlaneInv, StoreInv, StoreTypeOK
<1>2. CASE ~Stored(ws, vid)
  BY <1>2 DEF set_name, OwnersStay
<1>3. CASE Stored(ws, vid)
  <2>1. rows' = [rows EXCEPT ![vid].name = name] /\ rows[vid] \in Row
    BY <1>1, <1>3 DEF set_name, Stored
  <2>2. rows'[vid].owner = rows[vid].owner /\ rows[vid].owner # NoEmail
    BY <1>1, <1>3, <2>1 DEF Claimed, Stored, Row
  <2>3. \A v \in Vid : v # vid => rows'[v] = rows[v]
    BY <1>1, <2>1
  <2> QED BY <2>2, <2>3 DEF OwnersStay
<1> QED BY <1>2, <1>3

LEMMA OwnersStep ==
    ASSUME OwnerInv, [PlaneNext]_planeVars
    PROVE  OwnersStay
<1>1. PlaneInv /\ rows \in [Vid -> Row \cup {NoRow}]
  BY DEF OwnerInv, PlaneInv, StoreInv, StoreTypeOK
<1>2. CASE UNCHANGED rows
  BY <1>2 DEF OwnersStay
<1>3. CASE Renames
  <2>1. PICK vid \in Vid, name \in Name : set_name(EventLoop, Home[vid], vid, name, Service)
    BY <1>3 DEF Renames
  <2>2. Claimed(rows, Home[vid], vid)
    BY <1>3 DEF Renames, OwnerInv, BareNamesClaimed, Claimed, Stored
  <2> QED BY <1>1, <2>1, <2>2, People, NamingKeepsOwner
<1>4. ASSUME NEW t \in Caller, DoUpsert(t) PROVE OwnersStay
  <2> DEFINE j == job[t]
             new == [j.vp EXCEPT !.ws = IF rows[j.vid] = NoRow THEN Home[j.vid]
                                        ELSE rows[j.vid].ws]
  <2>1. j.vid \in Vid /\ j.vp \in Row /\ j.vp.owner # NoEmail
    BY <1>1, <1>4, JobFits DEF DoUpsert, Doing, Fits
  <2>2. rows' = [rows EXCEPT ![j.vid] = new]
    BY <1>4 DEF DoUpsert, upsert
  <2>3. new.owner # NoEmail
    BY <2>1 DEF Row
  <2>4. rows'[j.vid] = new /\ \A v \in Vid : v # j.vid => rows'[v] = rows[v]
    <3> HIDE DEF new, j
    <3> QED BY <1>1, <2>1, <2>2
  <2> QED BY <2>3, <2>4 DEF OwnersStay
<1>5. ASSUME NEW t \in Caller, DoSetFlags(t) PROVE OwnersStay
  <2> DEFINE j == job[t]
  <2>1. j.vid \in Vid
    BY <1>1, <1>5, JobFits DEF DoSetFlags, Doing, Fits
  <2>2. \/ rows' = rows
        \/ /\ rows' = [rows EXCEPT ![j.vid].flags = Apply(@, j.want)]
           /\ rows[j.vid] # NoRow
    BY <1>5 DEF DoSetFlags, set_flags, Stored
  <2>3. CASE rows' # rows
    <3>1. rows[j.vid] \in Row
      BY <1>1, <2>1, <2>2, <2>3
    <3>2. /\ rows'[j.vid].owner = rows[j.vid].owner /\ rows'[j.vid].ws = rows[j.vid].ws
          /\ rows'[j.vid].name = rows[j.vid].name
      BY <1>1, <2>1, <2>2, <2>3, <3>1 DEF Row
    <3>3. \A v \in Vid : v # j.vid => rows'[v] = rows[v]
      BY <1>1, <2>2, <2>3
    <3> QED BY <2>2, <2>3, <3>2, <3>3 DEF OwnersStay
  <2> QED BY <1>2, <2>3
<1>6. ASSUME NEW t \in Caller, DoDelete(t) PROVE OwnersStay
  <2>1. rows' = rows \/ rows' = [rows EXCEPT ![job[t].vid] = NoRow]
    BY <1>6 DEF DoDelete, delete
  <2>2. \A v \in Vid : rows'[v] = rows[v] \/ rows'[v] = NoRow
    BY <1>1, <2>1
  <2> QED BY <2>2 DEF OwnersStay
<1>7. ASSUME NEW t \in Caller, DoClaimOwner(t) PROVE OwnersStay
  <2> DEFINE p == proposals[job[t].pid]
  <2>1. p \in Proposal
    BY <1>1, <1>7, JobFits, TypedProposal DEF DoClaimOwner, Doing, Fits, Confirming
  <2>2. p.vid \in Vid /\ p.email # NoEmail
    BY <2>1, People DEF Proposal
  <2>3. rows' = rows \/ (rows' = [rows EXCEPT ![p.vid].owner = p.email] /\ rows[p.vid] # NoRow)
    BY <1>7 DEF DoClaimOwner, claim_owner, Stored
  <2>4. CASE rows' # rows
    <3>1. rows[p.vid] \in Row
      BY <1>1, <2>2, <2>3, <2>4
    <3>2. rows'[p.vid].owner = p.email
      BY <1>1, <2>2, <2>3, <2>4, <3>1 DEF Row
    <3>3. \A v \in Vid : v # p.vid => rows'[v] = rows[v]
      BY <1>1, <2>3, <2>4
    <3> QED BY <2>2, <3>2, <3>3 DEF OwnersStay
  <2> QED BY <1>2, <2>4
<1>8. ASSUME NEW t \in Caller, DoSetName(t) PROVE OwnersStay
  <2> DEFINE p == proposals[job[t].pid]
  <2>1. p \in Proposal /\ Claimed(rows, p.ws, p.vid)
    BY <1>1, <1>8, JobFits, TypedProposal DEF DoSetName, Doing, Fits, Confirming, OwnerInv
  <2>2. set_name(t, p.ws, p.vid, p.name, job[t].actor)
    BY <1>8 DEF DoSetName
  <2> QED BY <1>1, <2>1, <2>2, NamingKeepsOwner DEF Proposal
<1> QED BY <1>1, <1>2, <1>3, <1>4, <1>5, <1>6, <1>7, <1>8, Outside, Frames DEF tables

\* A claimed voiceprint stays claimed, erased and enrolled again included.
LEMMA ClaimedStays ==
    ASSUME OwnersStay, NEW ws, NEW vid \in Vid, Claimed(rows, ws, vid)
    PROVE  Claimed(rows', ws, vid)
BY DEF OwnersStay, Claimed

\* A proposal reads confirmed only since somebody marked it.
LEMMA MarkedByStep ==
    ASSUME PlaneInv, [PlaneNext]_planeVars, NEW pid \in DOMAIN proposals',
           proposals'[pid].status = "confirmed"
    PROVE  \/ pid \in DOMAIN proposals /\ proposals[pid].status = "confirmed"
           \/ \E t \in Caller : /\ DoSetStatus(t) /\ job[t].pid = pid
                                /\ job[t].status = "confirmed"
<1>1. proposals \in Seq(Proposal)
  BY DEF PlaneInv, StoreInv, StoreTypeOK
<1>2. CASE UNCHANGED proposals
  BY <1>2
<1>3. ASSUME NEW t \in Caller, DoPropose(t)
      PROVE  pid \in DOMAIN proposals /\ proposals[pid].status = "confirmed"
  <2>1. PICK new : /\ proposals' = proposals \/ proposals' = Append(proposals, new)
                   /\ new.status = "pending"
    BY <1>3 DEF DoPropose, propose
  <2> QED BY <1>1, <2>1
<1>4. ASSUME NEW t \in Caller, DoSetStatus(t)
      PROVE  \/ pid \in DOMAIN proposals /\ proposals[pid].status = "confirmed"
             \/ job[t].pid = pid /\ job[t].status = "confirmed"
  <2>1. proposals' = [proposals EXCEPT ![job[t].pid].status = job[t].status]
    BY <1>4 DEF DoSetStatus, set_status
  <2>2. job[t].pid \in DOMAIN proposals
    BY <1>4, JobFits DEF DoSetStatus, Doing, Fits
  <2>3. proposals[job[t].pid] \in Proposal
    BY <2>2, TypedProposal
  <2>4. DOMAIN proposals' = DOMAIN proposals
    BY <2>1
  <2>5. CASE pid = job[t].pid
    BY <2>1, <2>2, <2>3, <2>5 DEF Proposal
  <2>6. CASE pid # job[t].pid
    BY <2>1, <2>4, <2>6
  <2> QED BY <2>5, <2>6
<1>5. CASE Renames
  BY <1>2, <1>5 DEF Renames, set_name
<1> QED BY <1>2, <1>3, <1>4, <1>5, Outside, Frames DEF tables

LEMMA OwnerStepInv ==
    ASSUME OwnerInv, [PlaneNext]_planeVars
    PROVE  OwnerInv'
<1>1. PlaneInv /\ PlaneInv' /\ TrailsGrow /\ OwnersStay
  BY PlaneStepInv, OwnersStep DEF OwnerInv
<1>2. UNCHANGED mix
  BY <1>1, Outside, NextJob DEF Starts, Leads
<1>3. BareNamesClaimed'
  BY <1>1, <1>2 DEF OwnerInv, BareNamesClaimed, OwnersStay
<1>4. ASSUME NEW pid \in DOMAIN proposals,
             Claimed(rows, proposals[pid].ws, proposals[pid].vid)
      PROVE  Claimed(rows', proposals'[pid].ws, proposals'[pid].vid)
  <2>1. proposals[pid].vid \in Vid
    BY <1>1, TypedProposal DEF Proposal
  <2>2. proposals'[pid].ws = proposals[pid].ws /\ proposals'[pid].vid = proposals[pid].vid
    BY <1>1 DEF TrailsGrow
  <2> QED BY <1>1, <1>4, <2>1, <2>2, ClaimedStays
<1>5. ASSUME NEW t \in Caller, DoClaimOwner(t)
      PROVE  Claimed(rows', proposals'[job[t].pid].ws, proposals'[job[t].pid].vid)
  <2> DEFINE p == proposals[job[t].pid]
  <2>1. job[t].pid \in DOMAIN proposals /\ p \in Proposal
    BY <1>1, <1>5, JobFits, TypedProposal DEF DoClaimOwner, Doing, Fits, Confirming
  <2>2. p.vid \in Vid /\ p.email # NoEmail
    BY <2>1, People DEF Proposal
  <2>3. /\ rows' = IF Stored(p.ws, p.vid) THEN [rows EXCEPT ![p.vid].owner = p.email] ELSE rows
        /\ UNCHANGED proposals
    BY <1>5 DEF DoClaimOwner, claim_owner
  <2>4. rows \in [Vid -> Row \cup {NoRow}]
    BY <1>1 DEF PlaneInv, StoreInv, StoreTypeOK
  <2>5. CASE Stored(p.ws, p.vid)
    <3>1. rows[p.vid] \in Row
      BY <2>2, <2>4, <2>5 DEF Stored
    <3>2. rows'[p.vid].owner = p.email
      BY <2>2, <2>3, <2>4, <2>5, <3>1 DEF Row
    <3> QED BY <2>2, <2>3, <3>2 DEF Claimed
  <2>6. CASE ~Stored(p.ws, p.vid)
    BY <2>3, <2>6 DEF Claimed, Stored
  <2> QED BY <2>5, <2>6
<1>6. OwnerFirst'
  <2>1. ASSUME NEW vid \in Vid, rows'[vid] # NoRow, rows'[vid].name # NoName
        PROVE  rows'[vid].owner # NoEmail
    BY <1>1, <2>1 DEF OwnersStay, OwnerInv, OwnerFirst
  <2>2. ASSUME NEW pid \in DOMAIN proposals', proposals'[pid].status = "confirmed"
        PROVE  Claimed(rows', proposals'[pid].ws, proposals'[pid].vid)
    <3>1. CASE pid \in DOMAIN proposals /\ proposals[pid].status = "confirmed"
      BY <1>4, <3>1 DEF OwnerInv, OwnerFirst, Claimed, Stored
    <3>2. ASSUME NEW t \in Caller, DoSetStatus(t), job[t].pid = pid,
                 job[t].status = "confirmed"
          PROVE  Claimed(rows', proposals'[pid].ws, proposals'[pid].vid)
      <4>1. pid \in DOMAIN proposals
        BY <1>1, <3>2, JobFits DEF DoSetStatus, Doing, Fits
      <4>2. Claimed(rows, proposals[pid].ws, proposals[pid].vid)
        BY <3>2 DEF DoSetStatus, OwnerInv
      <4> QED BY <1>4, <4>1, <4>2
    <3> QED BY <1>1, <2>2, <3>1, <3>2, MarkedByStep
  <2> QED BY <2>1, <2>2 DEF OwnerFirst, Claimed, Stored
<1>7. ASSUME NEW t \in Caller,
             \/ job'[t].do = "set_name"
             \/ job'[t].do = "set_status" /\ job'[t].status = "confirmed"
      PROVE  Claimed(rows', proposals'[job'[t].pid].ws, proposals'[job'[t].pid].vid)
  <2>1. CASE job'[t] = job[t]
    <3>1. job[t].pid \in DOMAIN proposals
      BY <1>1, <1>7, <2>1, JobFits DEF Fits, Confirming
    <3>2. Claimed(rows, proposals[job[t].pid].ws, proposals[job[t].pid].vid)
      BY <1>7, <2>1 DEF OwnerInv, Doing
    <3> QED BY <1>4, <2>1, <3>1, <3>2
  <2>2. CASE job'[t] # job[t]
    <3>1. \A u \in Caller : \A j : job' = [job EXCEPT ![u] = j] => u = t /\ job'[t] = j
      BY <1>1, <2>2 DEF PlaneInv, JobsFit
    <3>2. ~ \E u \in Caller : Starts(u)
      BY <1>7, <3>1 DEF Starts, Opens
    <3>3. ~ (job' = [u \in Caller |-> None])
      BY <1>7 DEF None
    <3>4. PICK u \in Caller : Continue(u)
      BY <1>1, <2>2, <3>2, <3>3, Outside
    <3>5. Leads(u)
      BY <1>1, <3>4, NextJob
    <3>6. u = t /\ (DoClaimOwner(t) \/ DoSetName(t))
      BY <1>7, <3>1, <3>5 DEF Leads
    <3>7. job'[t].pid = job[t].pid /\ job[t].pid \in DOMAIN proposals
      BY <1>1, <1>7, <2>2, <3>1, <3>5, <3>6, JobFits
         DEF Leads, DoClaimOwner, DoSetName, Doing, Fits, Confirming
    <3>8. CASE DoClaimOwner(t)
      BY <1>5, <3>7, <3>8
    <3>9. CASE DoSetName(t)
      <4>1. Claimed(rows, proposals[job[t].pid].ws, proposals[job[t].pid].vid)
        BY <3>9 DEF DoSetName, OwnerInv
      <4> QED BY <1>4, <3>7, <4>1
    <3> QED BY <3>6, <3>8, <3>9
  <2> QED BY <2>1, <2>2
<1> QED BY <1>1, <1>3, <1>6, <1>7 DEF OwnerInv, Doing

(* The owner is bound first, as long as the legacy bare-name channel cannot *)
(* reach an unclaimed voiceprint (a bare name is not consent, and the       *)
(* channel writes it without an owner): a confirm that dies half-way, two   *)
(* confirms, or a forget and a new enrolment in between leave no named or   *)
(* confirmed voiceprint without an owner.                                   *)
THEOREM OwnerIsFirst == PlaneSpec /\ BareNamesClaimed => []OwnerFirst
<1>1. PlaneInit /\ BareNamesClaimed => OwnerInv
  <2> SUFFICES ASSUME PlaneInit, BareNamesClaimed PROVE OwnerInv
    OBVIOUS
  <2>1. PICK present \in SUBSET mix.stored :
            rows = [vid \in Vid |-> IF vid \in present THEN InitialRow(vid) ELSE NoRow]
    BY DEF PlaneInit
  <2>2. \A vid \in Vid : InitialRow(vid).name # NoName => InitialRow(vid).owner # NoEmail
    BY DEF InitialRow
  <2>3. OwnerFirst
    BY <2>1, <2>2 DEF OwnerFirst, PlaneInit
  <2>4. \A t \in Caller : job[t].do = "none"
    BY DEF PlaneInit, None
  <2> QED BY <2>3, <2>4, PlaneInitInv DEF OwnerInv, Doing
<1>2. OwnerInv /\ [PlaneNext]_planeVars => OwnerInv'
  BY OwnerStepInv
<1>3. OwnerInv => OwnerFirst
  BY DEF OwnerInv
<1> QED BY <1>1, <1>2, <1>3, PTL DEF PlaneSpec

-----------------------------------------------------------------------------
(* Flags *)

\* The flags of a table are the ones chosen, but for those undone, and the choice
\* is the default where no row is.
AsChosen(table, pick, back) ==
    \A vid \in Vid :
        /\ table[vid] = NoRow => pick[vid] = DefaultFlags
        /\ table[vid] # NoRow =>
              \A f \in Field : <<vid, f>> \in back \/ table[vid].flags[f] = pick[vid][f]

\* What the enrolment in hand will write back is chosen still, undone already or
\* chosen anew too late for it.
HandFits ==
    LET j == job[EventLoop] IN
    j.do = "upsert" /\ rows[j.vid] # NoRow =>
        \A f \in Field :
            f \in late \/ <<j.vid, f>> \in undone \/ j.vp.flags[f] = chosen[j.vid][f]

\* Enrolments run on the event loop and imports elsewhere.
WritersPlaced ==
    \A t \in Caller : job[t].do = "upsert" => (job[t].event = "enroll" <=> t = EventLoop)

FlagsInv ==
    /\ PlaneInv /\ chosen \in [Vid -> Flags]
    /\ AsChosen(rows, chosen, undone) /\ WritersPlaced /\ HandFits

\* After a step the rows still have the flags chosen, and the event loop's job is
\* either as before and fits, or no enrolment.
StillChosen ==
    /\ AsChosen(rows', chosen', undone') /\ chosen' \in [Vid -> Flags]
    /\ job'[EventLoop] = job[EventLoop] => HandFits'

\* A row written over keeps every other row.
LEMMA RowWritten ==
    ASSUME StoreTypeOK, NEW vid \in Vid, NEW new \in Row, rows' = [rows EXCEPT ![vid] = new]
    PROVE  /\ rows'[vid] = new /\ rows'[vid] # NoRow
           /\ \A v \in Vid : v # vid => rows'[v] = rows[v]
BY StoreAssumption DEF StoreTypeOK

\* Naming and claiming leave the flags alone.
LEMMA SameFlags ==
    ASSUME PlaneInv,
           \/ UNCHANGED rows
           \/ \E c \in Caller, ws \in Workspace, vid \in Vid, name \in Name, actor \in Actor :
                  set_name(c, ws, vid, name, actor)
           \/ \E c \in Caller, ws \in Workspace, vid \in Vid, email \in Email :
                  claim_owner(c, ws, vid, email)
    PROVE  \A v \in Vid : IF rows[v] = NoRow THEN rows'[v] = NoRow
                          ELSE rows'[v] # NoRow /\ rows'[v].flags = rows[v].flags
<1> DEFINE Same == \A v \in Vid : IF rows[v] = NoRow THEN rows'[v] = NoRow
                                  ELSE rows'[v] # NoRow /\ rows'[v].flags = rows[v].flags
<1>0. StoreTypeOK /\ rows \in [Vid -> Row \cup {NoRow}]
  BY DEF PlaneInv, StoreInv, StoreTypeOK
<1>1. ASSUME NEW vid \in Vid, NEW new \in Row, rows[vid] # NoRow,
             new.flags = rows[vid].flags, rows' = [rows EXCEPT ![vid] = new]
      PROVE  Same
  BY <1>0, <1>1, RowWritten
<1>2. CASE UNCHANGED rows
  BY <1>2
<1>3. ASSUME NEW c \in Caller, NEW ws \in Workspace, NEW vid \in Vid, NEW name \in Name,
             NEW actor \in Actor, set_name(c, ws, vid, name, actor), rows' # rows
      PROVE  Same
  <2>1. rows[vid] # NoRow /\ rows' = [rows EXCEPT ![vid].name = name]
    BY <1>3 DEF set_name, Stored
  <2>2. rows[vid] \in Row
    BY <1>0, <2>1
  <2> DEFINE new == [rows[vid] EXCEPT !.name = name]
  <2>3. new \in Row
    BY <2>2, RowUpdate
  <2>4. new.flags = rows[vid].flags
    BY <2>2 DEF Row
  <2>5. rows' = [rows EXCEPT ![vid] = new]
    BY <2>1
  <2> HIDE DEF new, Same
  <2> QED BY <1>1, <2>1, <2>3, <2>4, <2>5
<1>4. ASSUME NEW c \in Caller, NEW ws \in Workspace, NEW vid \in Vid, NEW email \in Email,
             claim_owner(c, ws, vid, email), rows' # rows
      PROVE  Same
  <2>1. rows[vid] # NoRow /\ rows' = [rows EXCEPT ![vid].owner = email]
    BY <1>4 DEF claim_owner, Stored
  <2>2. rows[vid] \in Row
    BY <1>0, <2>1
  <2> DEFINE new == [rows[vid] EXCEPT !.owner = email]
  <2>3. new \in Row
    BY <2>2, RowUpdate
  <2>4. new.flags = rows[vid].flags
    BY <2>2 DEF Row
  <2>5. rows' = [rows EXCEPT ![vid] = new]
    BY <2>1
  <2> HIDE DEF new, Same
  <2> QED BY <1>1, <2>1, <2>3, <2>4, <2>5
<1> QED BY <1>2, <1>3, <1>4

LEMMA SameChoice ==
    ASSUME FlagsInv, UNCHANGED <<chosen, undone>>,
           job'[EventLoop] = job[EventLoop] => UNCHANGED late,
           \/ UNCHANGED rows
           \/ \E c \in Caller, ws \in Workspace, vid \in Vid, name \in Name, actor \in Actor :
                  set_name(c, ws, vid, name, actor)
           \/ \E c \in Caller, ws \in Workspace, vid \in Vid, email \in Email :
                  claim_owner(c, ws, vid, email)
    PROVE  StillChosen
<1>1. \A v \in Vid : IF rows[v] = NoRow THEN rows'[v] = NoRow
                     ELSE rows'[v] # NoRow /\ rows'[v].flags = rows[v].flags
  BY SameFlags DEF FlagsInv
<1>2. job[EventLoop].do = "upsert" => job[EventLoop].vid \in Vid
  BY JobFits, People DEF FlagsInv, Fits
<1> QED BY <1>1, <1>2 DEF FlagsInv, AsChosen, HandFits, StillChosen

\* The new row of vid has the fields chosen, and the others as they were.
Carries(new, vid, fields, to) ==
    /\ \A f \in fields : new.flags[f] = to[f]
    /\ \A f \in Field \ fields : /\ to[f] = chosen[vid][f] /\ rows[vid] # NoRow
                                 /\ new.flags[f] = rows[vid].flags[f]

\* A subject's choice: the row has what it says, and the enrolment in hand is late.
LEMMA ChoiceMade ==
    ASSUME FlagsInv, NEW vid \in Vid, NEW fields \in SUBSET Field, NEW to \in Flags,
           Chooses(vid, fields, to), NEW new \in Row, rows' = [rows EXCEPT ![vid] = new],
           Carries(new, vid, fields, to)
    PROVE  StillChosen
<1>0. StoreTypeOK /\ chosen \in [Vid -> Flags] /\ AsChosen(rows, chosen, undone)
  BY DEF FlagsInv, PlaneInv, StoreInv
<1>1. /\ rows'[vid] = new /\ rows'[vid] # NoRow
      /\ \A v \in Vid : v # vid => rows'[v] = rows[v]
  BY <1>0, RowWritten
<1>2. /\ chosen' \in [Vid -> Flags] /\ chosen'[vid] = to
      /\ \A v \in Vid : v # vid => chosen'[v] = chosen[v]
  BY <1>0 DEF Chooses
<1>3. \A v, f : <<v, f>> \in undone /\ ~(v = vid /\ f \in fields) => <<v, f>> \in undone'
  BY DEF Chooses
<1>4. AsChosen(rows', chosen', undone')
  BY <1>0, <1>1, <1>2, <1>3 DEF AsChosen, Carries
<1>5. ASSUME job'[EventLoop] = job[EventLoop] PROVE HandFits'
  <2> DEFINE j == job[EventLoop]
  <2> SUFFICES ASSUME j.do = "upsert", rows'[j.vid] # NoRow, NEW f \in Field
               PROVE  \/ f \in late' \/ <<j.vid, f>> \in undone'
                      \/ j.vp.flags[f] = chosen'[j.vid][f]
    BY <1>5 DEF HandFits
  <2>1. j.vid \in Vid
    BY JobFits, People DEF FlagsInv, Fits
  <2>2. CASE j.vid = vid
    <3>1. late' = late \cup fields
      BY <2>2 DEF Chooses, EnrolHolds, Doing
    <3>2. CASE f \in fields
      BY <3>1, <3>2
    <3>3. CASE f \notin fields
      <4>1. f \in late \/ <<j.vid, f>> \in undone \/ j.vp.flags[f] = chosen[j.vid][f]
        BY <2>2, <3>3 DEF FlagsInv, HandFits, Carries
      <4> QED BY <1>2, <1>3, <2>2, <3>1, <3>3, <4>1 DEF Carries
    <3> QED BY <3>2, <3>3
  <2>3. CASE j.vid # vid
    <3>1. late' = late
      BY <2>3 DEF Chooses, EnrolHolds
    <3>2. f \in late \/ <<j.vid, f>> \in undone \/ j.vp.flags[f] = chosen[j.vid][f]
      BY <1>1, <2>1, <2>3 DEF FlagsInv, HandFits
    <3> QED BY <1>2, <1>3, <2>1, <2>3, <3>1, <3>2
  <2> QED BY <2>2, <2>3
<1> QED BY <1>2, <1>4, <1>5 DEF StillChosen

LEMMA UpsertChooses ==
    ASSUME FlagsInv, NEW t \in Caller, DoUpsert(t)
    PROVE  StillChosen
<1> DEFINE j == job[t]
           new == [j.vp EXCEPT !.ws = IF rows[j.vid] = NoRow THEN Home[j.vid]
                                      ELSE rows[j.vid].ws]
<1>0. PlaneInv /\ StoreTypeOK /\ chosen \in [Vid -> Flags] /\ AsChosen(rows, chosen, undone)
  BY DEF FlagsInv, PlaneInv, StoreInv
<1>1. /\ j.vid \in Vid /\ j.vp \in Row /\ j.event \in {"enroll", "import"} /\ j.do = "upsert"
      /\ j.event = "enroll" <=> t = EventLoop
  BY <1>0, JobFits DEF DoUpsert, Doing, Fits, FlagsInv, WritersPlaced
<1>2. rows' = [rows EXCEPT ![j.vid] = new]
  BY DEF DoUpsert, upsert
<1>3. new \in Row /\ new.flags = j.vp.flags /\ j.vp.flags \in Flags
  <2>1. rows[j.vid] # NoRow => rows[j.vid] \in Row
    BY <1>0, <1>1 DEF StoreTypeOK
  <2> QED BY <1>1, <2>1, People DEF Row
<1>4. /\ rows'[j.vid] = new /\ rows'[j.vid] # NoRow
      /\ \A v \in Vid : v # j.vid => rows'[v] = rows[v]
  <2> HIDE DEF new
  <2> QED BY <1>0, <1>1, <1>2, <1>3, RowWritten
<1> HIDE DEF new
<1>5. CASE j.event = "import"
  <2>1. Chooses(j.vid, Field, j.vp.flags)
    BY <1>5 DEF DoUpsert
  <2>2. Carries(new, j.vid, Field, j.vp.flags)
    BY <1>3 DEF Carries
  <2> QED BY <1>1, <1>2, <1>3, <2>1, <2>2, ChoiceMade
<1>6. CASE j.event = "enroll"
  <2>1. WritesBack(j.vid, j.vp.flags) /\ t = EventLoop
    BY <1>1, <1>6 DEF DoUpsert
  <2>2. job'[EventLoop] # job[EventLoop]
    <3> DEFINE next == [do |-> "refresh", then |-> [do |-> "log_usage", vid |-> j.vid,
                                                    event |-> j.event, actor |-> j.actor]]
    <3>1. job' = [job EXCEPT ![t] = next] /\ next.do = "refresh"
      BY DEF DoUpsert, Then
    <3> HIDE DEF next
    <3>2. job'[t].do = "refresh"
      BY <1>0, <3>1 DEF PlaneInv, JobsFit
    <3> QED BY <1>1, <2>1, <3>2
  <2>3. CASE rows[j.vid] = NoRow
    <3>1. /\ chosen' = [chosen EXCEPT ![j.vid] = j.vp.flags]
          /\ undone' = undone \ ({j.vid} \X Field)
      BY <2>1, <2>3 DEF WritesBack
    <3> QED BY <1>0, <1>1, <1>3, <1>4, <2>2, <3>1 DEF AsChosen, StillChosen
  <2>4. CASE rows[j.vid] # NoRow
    <3>1. chosen' = chosen /\ undone' = undone \cup ({j.vid} \X late)
      BY <2>1, <2>4 DEF WritesBack
    <3>2. \A f \in Field : \/ f \in late \/ <<j.vid, f>> \in undone
                           \/ j.vp.flags[f] = chosen[j.vid][f]
      BY <1>1, <2>1, <2>4 DEF FlagsInv, HandFits
    <3>3. \A f \in Field : <<j.vid, f>> \in undone' \/ new.flags[f] = chosen'[j.vid][f]
      BY <1>3, <3>1, <3>2
    <3> QED BY <1>0, <1>1, <1>4, <2>2, <3>1, <3>3 DEF AsChosen, StillChosen
  <2> QED BY <2>3, <2>4
<1> QED BY <1>1, <1>5, <1>6

\* set_flags changes the fields asked for and keeps the others.
LEMMA ApplyPicks ==
    ASSUME NEW old \in Flags, NEW want \in Want
    PROVE  /\ Apply(old, want) \in Flags
           /\ \A f \in Chosen(want) : Apply(old, want)[f] = (want[f] = "on")
           /\ \A f \in Field \ Chosen(want) : Apply(old, want)[f] = old[f]
<1> DEFINE pick(f) == IF want[f] = "keep" THEN old[f] ELSE want[f] = "on"
<1>1. /\ old = [enroll |-> old.enroll, identify |-> old.identify]
      /\ old.enroll \in BOOLEAN /\ old.identify \in BOOLEAN
  BY DEF Flags
<1>2. Apply(old, want) = [enroll |-> pick("enroll"), identify |-> pick("identify")]
  BY DEF Apply
<1>3. Apply(old, want).enroll = pick("enroll") /\ Apply(old, want).identify = pick("identify")
  BY <1>2
<1>4. pick("enroll") \in BOOLEAN /\ pick("identify") \in BOOLEAN
  BY <1>1
<1>5. Apply(old, want) \in Flags
  <2> HIDE DEF pick
  <2> QED BY <1>2, <1>4 DEF Flags
<1>6. Apply(old, want)["enroll"] = pick("enroll") /\ Apply(old, want)["identify"] = pick("identify")
  BY <1>2
<1> QED BY <1>5, <1>6 DEF Chosen, Field

LEMMA SetFlagsChooses ==
    ASSUME FlagsInv, NEW t \in Caller, DoSetFlags(t)
    PROVE  StillChosen
<1> DEFINE j == job[t]
           to == Apply(chosen[j.vid], j.want)
           put == Apply(rows[j.vid].flags, j.want)
           new == [rows[j.vid] EXCEPT !.flags = put]
<1>0. PlaneInv /\ StoreTypeOK /\ chosen \in [Vid -> Flags]
  BY DEF FlagsInv, PlaneInv, StoreInv
<1>1. j.vid \in Vid /\ j.want \in Want /\ Chosen(j.want) # {}
  BY <1>0, JobFits DEF DoSetFlags, Doing, Fits
<1>2. CASE Stored(Home[j.vid], j.vid)
  <2>1. rows[j.vid] \in Row /\ rows[j.vid] # NoRow /\ rows[j.vid].flags \in Flags
    BY <1>0, <1>1, <1>2 DEF StoreTypeOK, Stored, Row
  <2>2. rows' = [rows EXCEPT ![j.vid] = new]
    BY <1>1, <1>2 DEF DoSetFlags, set_flags
  <2>3. Chooses(j.vid, Chosen(j.want), to)
    BY <1>2 DEF DoSetFlags
  <2>4. /\ to \in Flags /\ put \in Flags /\ Chosen(j.want) \in SUBSET Field
        /\ \A f \in Chosen(j.want) : put[f] = to[f]
        /\ \A f \in Field \ Chosen(j.want) :
              to[f] = chosen[j.vid][f] /\ put[f] = rows[j.vid].flags[f]
    <3>1. chosen[j.vid] \in Flags /\ Chosen(j.want) \in SUBSET Field
      BY <1>0, <1>1 DEF Chosen, Field
    <3> QED BY <1>1, <2>1, <3>1, ApplyPicks
  <2> HIDE DEF put, to
  <2>5. new \in Row /\ new.flags = put
    BY <2>1, <2>4, RowUpdate DEF Row
  <2> HIDE DEF new
  <2>6. Carries(new, j.vid, Chosen(j.want), to)
    BY <2>1, <2>4, <2>5 DEF Carries
  <2> QED BY <1>1, <2>2, <2>3, <2>4, <2>5, <2>6, ChoiceMade
<1>3. CASE ~Stored(Home[j.vid], j.vid)
  BY <1>3, SameChoice DEF DoSetFlags, set_flags, consent
<1> QED BY <1>2, <1>3

LEMMA DeleteChooses ==
    ASSUME FlagsInv, NEW t \in Caller, DoDelete(t)
    PROVE  StillChosen
<1> DEFINE vid == job[t].vid
<1>0. /\ PlaneInv /\ rows \in [Vid -> Row \cup {NoRow}]
      /\ chosen \in [Vid -> Flags] /\ AsChosen(rows, chosen, undone) /\ HandFits
  BY DEF FlagsInv, PlaneInv, StoreInv, StoreTypeOK
<1>1. vid \in Vid /\ (job[EventLoop].do = "upsert" => job[EventLoop].vid \in Vid)
  BY <1>0, JobFits, People DEF DoDelete, Doing, Fits
<1>2. chosen' = [chosen EXCEPT ![vid] = DefaultFlags] /\ UNCHANGED <<late, undone>>
  BY DEF DoDelete
<1>3. rows'[vid] = NoRow /\ \A v \in Vid : v # vid => rows'[v] = rows[v]
  <2>1. rows' = IF Stored(Home[vid], vid) THEN [rows EXCEPT ![vid] = NoRow] ELSE rows
    BY DEF DoDelete, delete
  <2>2. rows[vid] # NoRow => Stored(Home[vid], vid)
    BY <1>0, <1>1, StoredRow DEF PlaneInv
  <2> QED BY <1>0, <1>1, <2>1, <2>2
<1>4. AsChosen(rows', chosen', undone') /\ chosen' \in [Vid -> Flags]
  BY <1>0, <1>1, <1>2, <1>3, DefaultType DEF AsChosen
<1>5. job'[EventLoop] = job[EventLoop] => HandFits'
  BY <1>0, <1>1, <1>2, <1>3 DEF HandFits
<1> QED BY <1>4, <1>5 DEF StillChosen

LEMMA ChosenStep ==
    ASSUME FlagsInv, [PlaneNext]_planeVars
    PROVE  StillChosen
<1>1. PlaneInv /\ EventLoop \in Caller
  BY People DEF FlagsInv
<1>2. ASSUME NEW t \in Caller, Continue(t) PROVE StillChosen
  <2>1. CASE DoUpsert(t) \/ DoSetFlags(t) \/ DoDelete(t)
    BY <2>1, UpsertChooses, SetFlagsChooses, DeleteChooses
  <2>2. CASE ~(DoUpsert(t) \/ DoSetFlags(t) \/ DoDelete(t))
    <3> DEFINE p == proposals[job[t].pid]
    <3>1. /\ UNCHANGED <<chosen, late, undone>>
          /\ DoClaimOwner(t) \/ DoSetName(t) \/ UNCHANGED rows
      BY <1>2, <2>2, Frames DEF consent
    <3>2. CASE DoClaimOwner(t)
      <4>1. p \in Proposal /\ claim_owner(t, p.ws, p.vid, p.email)
        BY <1>1, <3>2, JobFits, TypedProposal DEF DoClaimOwner, Doing, Fits, Confirming
      <4>2. p.ws \in Workspace /\ p.vid \in Vid /\ p.email \in Email
        BY <4>1 DEF Proposal
      <4> HIDE DEF p
      <4> QED BY <3>1, <4>1, <4>2, SameChoice
    <3>3. CASE DoSetName(t)
      <4>1. p \in Proposal /\ set_name(t, p.ws, p.vid, p.name, job[t].actor)
        BY <1>1, <3>3, JobFits, TypedProposal DEF DoSetName, Doing, Fits, Confirming
      <4>2. p.ws \in Workspace /\ p.vid \in Vid /\ p.name \in Name
        BY <4>1 DEF Proposal
      <4>3. job[t].actor \in Actor
        BY <1>1, <3>3, JobFits DEF DoSetName, Doing, Fits, Confirming
      <4> HIDE DEF p
      <4> QED BY <3>1, <4>1, <4>2, <4>3, SameChoice
    <3> QED BY <3>1, <3>2, <3>3, SameChoice
  <2> QED BY <2>1, <2>2
<1>3. ASSUME NEW t \in Caller, Starts(t), Renames \/ UNCHANGED rows PROVE StillChosen
  <2>1. UNCHANGED <<chosen, late, undone>>
    BY <1>3 DEF Starts, consent
  <2>2. CASE Renames
    <3>1. PICK vid \in Vid, name \in Name : set_name(EventLoop, Home[vid], vid, name, Service)
      BY <2>2 DEF Renames
    <3> QED BY <2>1, <3>1, People, SameChoice
  <2> QED BY <1>3, <2>1, <2>2, SameChoice
<1>4. CASE job' = [t \in Caller |-> None] /\ Crash /\ UNCHANGED <<rows, chosen, undone>>
  <2>1. AsChosen(rows', chosen', undone') /\ chosen' \in [Vid -> Flags]
    BY <1>4 DEF FlagsInv, AsChosen
  <2>2. HandFits'
    BY <1>1, <1>4 DEF HandFits, None
  <2> QED BY <2>1, <2>2 DEF StillChosen
<1>5. CASE UNCHANGED <<rows, chosen, late, undone>>
  BY <1>5, SameChoice
<1> QED BY <1>1, <1>2, <1>3, <1>4, <1>5, Outside DEF tables

\* The jobs after a step: no thread comes to an upsert but by a request.
LEMMA HandStep ==
    ASSUME FlagsInv, [PlaneNext]_planeVars
    PROVE  WritersPlaced' /\ HandFits'
<1>0. /\ PlaneInv /\ EventLoop \in Caller /\ StillChosen
      /\ WritersPlaced /\ AsChosen(rows, chosen, undone)
  BY People, ChosenStep DEF FlagsInv
<1>1. ASSUME NEW t \in Caller, Continue(t) PROVE WritersPlaced' /\ HandFits'
  <2>1. PICK j : job' = [job EXCEPT ![t] = j] /\ j.do # "upsert"
    BY <1>0, <1>1, NextJob DEF Leads
  <2>2. job'[t] = j /\ \A u \in Caller : u # t => job'[u] = job[u]
    BY <1>0, <2>1 DEF PlaneInv, JobsFit
  <2>3. WritersPlaced'
    BY <1>0, <2>1, <2>2 DEF WritersPlaced
  <2>4. HandFits'
    <3>1. CASE t = EventLoop
      BY <2>1, <2>2, <3>1 DEF HandFits
    <3>2. CASE t # EventLoop
      BY <1>0, <2>2, <3>2 DEF StillChosen
    <3> QED BY <3>1, <3>2
  <2> QED BY <2>3, <2>4
<1>2. ASSUME NEW t \in Caller, Starts(t), Renames \/ UNCHANGED rows
      PROVE  WritersPlaced' /\ HandFits'
  <2>1. PICK j : job' = [job EXCEPT ![t] = j] /\ Fits(j, ledger, proposals) /\ Opens(t, j)
    BY <1>2 DEF Starts
  <2>2. job'[t] = j /\ \A u \in Caller : u # t => job'[u] = job[u]
    BY <1>0, <2>1 DEF PlaneInv, JobsFit
  <2>3. WritersPlaced'
    BY <1>0, <2>1, <2>2 DEF WritersPlaced, Opens
  <2>4. CASE t # EventLoop
    BY <1>0, <2>2, <2>3, <2>4 DEF StillChosen
  <2>5. CASE t = EventLoop /\ j.do # "upsert"
    BY <2>2, <2>3, <2>5 DEF HandFits
  <2>6. CASE t = EventLoop /\ j.do = "upsert"
    <3>1. UNCHANGED <<chosen, late, undone>>
      BY <1>2 DEF Starts, consent
    <3>2. \A v \in Vid : IF rows[v] = NoRow THEN rows'[v] = NoRow
                         ELSE rows'[v] # NoRow /\ rows'[v].flags = rows[v].flags
      BY <1>0, <1>2, People, SameFlags DEF Renames
    <3>3. j.vid \in Vid /\ (rows[j.vid] # NoRow => j.vp.flags = rows[j.vid].flags)
      BY <2>1, <2>6 DEF Fits, Opens
    <3>4. rows[j.vid] # NoRow =>
              \A f \in Field : <<j.vid, f>> \in undone \/ j.vp.flags[f] = chosen[j.vid][f]
      BY <1>0, <3>3 DEF AsChosen
    <3>5. HandFits'
      BY <2>2, <2>6, <3>1, <3>2, <3>3, <3>4 DEF HandFits
    <3> QED BY <2>3, <3>5
  <2> QED BY <2>4, <2>5, <2>6
<1>3. CASE job' = [t \in Caller |-> None]
  BY <1>0, <1>3 DEF None, WritersPlaced, HandFits
<1>4. CASE UNCHANGED job
  BY <1>0, <1>4 DEF WritersPlaced, StillChosen
<1> QED BY <1>0, <1>1, <1>2, <1>3, <1>4, Outside DEF tables

LEMMA FlagsInvariant == PlaneSpec => []FlagsInv
<1>1. PlaneInit => FlagsInv
  <2> SUFFICES ASSUME PlaneInit PROVE FlagsInv
    OBVIOUS
  <2>1. PICK present \in SUBSET mix.stored :
            rows = [vid \in Vid |-> IF vid \in present THEN InitialRow(vid) ELSE NoRow]
    BY DEF PlaneInit
  <2>2. chosen = [vid \in Vid |-> DefaultFlags]
    BY DEF PlaneInit
  <2>3. \A vid : InitialRow(vid).flags = DefaultFlags
    BY DEF InitialRow
  <2>4. AsChosen(rows, chosen, undone) /\ chosen \in [Vid -> Flags]
    BY <2>1, <2>2, <2>3, DefaultType DEF AsChosen
  <2>5. \A t \in Caller : job[t].do = "none"
    BY DEF PlaneInit, None
  <2> QED BY <2>4, <2>5, PlaneInitInv, People DEF FlagsInv, WritersPlaced, HandFits
<1>2. FlagsInv /\ [PlaneNext]_planeVars => FlagsInv'
  <2> SUFFICES ASSUME FlagsInv, [PlaneNext]_planeVars PROVE FlagsInv'
    OBVIOUS
  <2>1. PlaneInv' /\ StillChosen /\ WritersPlaced' /\ HandFits'
    BY PlaneStepInv, ChosenStep, HandStep DEF FlagsInv
  <2>2. AsChosen(rows, chosen, undone)'
    BY <2>1 DEF StillChosen, AsChosen
  <2> QED BY <2>1, <2>2 DEF FlagsInv, StillChosen
<1> QED BY <1>1, <1>2, PTL DEF PlaneSpec

\* Outside a write in progress the cache says what the row says.
LEMMA CacheSaysRow ==
    ASSUME FlagsInv, NEW vid \in Vid, ~(lock # Free /\ refresh.vid = vid)
    PROVE  flags(Home[vid], vid) = IF rows[vid] = NoRow THEN DefaultFlags ELSE rows[vid].flags
<1>1. flagCache[Home[vid]][vid] = FlagsOf(Home[vid], vid)
  BY People DEF FlagsInv, PlaneInv, StoreInv, CacheCoherent
<1>2. CASE rows[vid] = NoRow
  BY <1>1, <1>2 DEF flags, FlagsOf, Stored
<1>3. CASE rows[vid] # NoRow
  <2>1. rows[vid] \in Row /\ Stored(Home[vid], vid)
    BY <1>3, StoredRow DEF FlagsInv, PlaneInv
  <2>2. rows[vid].flags # NoEntry
    BY <2>1, StoreAssumption DEF Row
  <2> QED BY <1>1, <1>3, <2>1, <2>2 DEF flags, FlagsOf
<1> QED BY <1>2, <1>3

(* A flag of a stored voiceprint is what its subject last chose -- by the   *)
(* dashboard, by the file imported, or as the row was created -- in the row *)
(* and, between writes, in the cache every gate reads.  The one exception   *)
(* is named flag by flag: a choice made while an enrolment had the row in   *)
(* hand is undone by that enrolment's write, until it is made again.        *)
THEOREM SubjectsSetFlags == PlaneSpec => []SubjectSetsFlags
<1>1. FlagsInv => SubjectSetsFlags
  <2> SUFFICES ASSUME FlagsInv, NEW vid \in Vid, NEW f \in Field, rows[vid] # NoRow,
                      <<vid, f>> \notin undone
               PROVE  /\ rows[vid].flags[f] = chosen[vid][f]
                      /\ \/ flags(Home[vid], vid)[f] = chosen[vid][f]
                         \/ lock # Free /\ refresh.vid = vid
    BY DEF SubjectSetsFlags
  <2>1. rows[vid].flags[f] = chosen[vid][f]
    BY DEF FlagsInv, AsChosen
  <2> QED BY <2>1, CacheSaysRow
<1> QED BY <1>1, FlagsInvariant, PTL

\* The gate's answer comes from the cache, which says what the row says.
LEMMA GateSaysChosen ==
    ASSUME FlagsInv, NEW vid \in Vid, identify_allowed(Home[vid], vid)
    PROVE  \/ chosen[vid].identify
           \/ lock # Free /\ refresh.vid = vid
           \/ <<vid, "identify">> \in undone
<1> SUFFICES ASSUME ~(lock # Free /\ refresh.vid = vid), <<vid, "identify">> \notin undone
             PROVE  chosen[vid].identify
  OBVIOUS
<1>1. flags(Home[vid], vid) = IF rows[vid] = NoRow THEN DefaultFlags ELSE rows[vid].flags
  BY CacheSaysRow
<1>2. CASE rows[vid] = NoRow
  BY <1>2 DEF FlagsInv, AsChosen, DefaultFlags
<1>3. CASE rows[vid] # NoRow
  <2>1. rows[vid].flags["identify"] = chosen[vid]["identify"]
    BY <1>3 DEF FlagsInv, AsChosen, Field
  <2> QED BY <1>1, <1>3, <2>1 DEF identify_allowed
<1> QED BY <1>2, <1>3

LEMMA GateStep ==
    ASSUME PlaneInv, [PlaneNext]_planeVars, NEW t \in Caller,
           Doing(t, "read_flag"), job'[t].do = "read_name"
    PROVE  DoReadFlag(t)
<1>1. job'[t] # job[t] /\ job[t] # None
  BY DEF Doing, None
<1>2. ASSUME NEW u \in Caller, NEW j, job' = [job EXCEPT ![u] = j] PROVE u = t
  BY <1>1, <1>2 DEF PlaneInv, JobsFit
<1>3. ~ \E u \in Caller : Starts(u)
  BY <1>1, <1>2 DEF Starts
<1>4. PICK u \in Caller : Continue(u)
  BY <1>1, <1>3, Outside DEF None
<1>5. Continue(t)
  BY <1>2, <1>4, NextJob DEF Leads
<1>6. CASE DoUpsert(t) \/ DoRefreshPrint(t) \/ DoRefreshFlags(t) \/ DoLogUsage(t)
             \/ DoSetFlags(t) \/ DoDelete(t) \/ DoAddReceipt(t) \/ DoPropose(t)
  BY <1>6 DEF DoUpsert, DoRefreshPrint, DoRefreshFlags, DoLogUsage, DoSetFlags, DoDelete,
              DoAddReceipt, DoPropose, Doing
<1>7. CASE DoLoad(t) \/ DoGate(t) \/ DoClaimOwner(t) \/ DoSetName(t) \/ DoSetStatus(t)
             \/ DoReadName(t) \/ DoAddRecognition(t)
  BY <1>7 DEF DoLoad, DoGate, DoClaimOwner, DoSetName, DoSetStatus, DoReadName,
              DoAddRecognition, Doing
<1> QED BY <1>5, <1>6, <1>7 DEF Continue

(* A stay-anonymous request that has gone through is honoured, whatever     *)
(* else is called beside it: the gate of /v1/identify grants a name only if *)
(* the subject allows it, a write of that voiceprint is between its commit  *)
(* and the flag cache, or an enrolment that read the row before the request *)
(* has written it back after it.                                            *)
THEOREM OptOutIsHonoured == PlaneSpec => OptOutHonoured
<1> DEFINE Honoured ==
        \A t \in Caller :
            Doing(t, "read_flag") /\ job'[t].do = "read_name" =>
                LET vid == job[t].vid IN
                \/ chosen[vid].identify
                \/ lock # Free /\ refresh.vid = vid
                \/ <<vid, "identify">> \in undone
<1>1. FlagsInv /\ [PlaneNext]_planeVars => Honoured
  <2> SUFFICES ASSUME FlagsInv, [PlaneNext]_planeVars, NEW t \in Caller,
                      Doing(t, "read_flag"), job'[t].do = "read_name"
               PROVE  \/ chosen[job[t].vid].identify
                      \/ lock # Free /\ refresh.vid = job[t].vid
                      \/ <<job[t].vid, "identify">> \in undone
    OBVIOUS
  <2>1. DoReadFlag(t)
    BY GateStep DEF FlagsInv
  <2>2. job[t].vid \in Vid
    BY JobFits DEF FlagsInv, Doing, Fits
  <2>3. identify_allowed(Home[job[t].vid], job[t].vid)
    <3>1. CASE ~identify_allowed(Home[job[t].vid], job[t].vid)
      <4>1. job'[t] = [do |-> "log_usage", vid |-> job[t].vid, event |-> "identify",
                       actor |-> Service]
        BY <2>1, <3>1 DEF DoReadFlag, Then, FlagsInv, PlaneInv, JobsFit
      <4> QED BY <4>1
    <3> QED BY <3>1
  <2> QED BY <2>2, <2>3, GateSaysChosen
<1>2. PlaneSpec => [][Honoured]_planeVars
  <2> HIDE DEF Honoured
  <2> QED BY <1>1, FlagsInvariant, PTL DEF PlaneSpec
<1> QED BY <1>2 DEF OptOutHonoured

-----------------------------------------------------------------------------
(* Voiceprints that come back after a forget *)

\* The ledger has an import or an enrolment of vid after row lid.
Backed(log, lid, vid) ==
    \E later \in DOMAIN log :
        later > lid /\ log[later].vid = vid /\ log[later].event \in {"import", "enroll"}

\* Job j is about to write that row.
Restoring(j, vid) ==
    j.do = "log_usage" /\ j.vid = vid /\ j.event \in {"import", "enroll"}

\* Unless the process died, a voiceprint that is back is in the ledger, or a
\* thread is on its way there.
RestoreInv ==
    /\ PlaneInv
    /\ crashes = 0 => \A lid \in Forgets : LET vid == ledger[lid].vid IN
          rows[vid] # NoRow =>
              Backed(ledger, lid, vid) \/ \E t \in Caller : Restoring(Pending(t), vid)

\* Only an upsert brings a row back.
LEMMA RowsBack ==
    ASSUME PlaneInv, [PlaneNext]_planeVars, NEW vid \in Vid,
           rows[vid] = NoRow, rows'[vid] # NoRow
    PROVE  \E t \in Caller : DoUpsert(t) /\ job[t].vid = vid
<1>1. rows \in [Vid -> Row \cup {NoRow}]
  BY DEF PlaneInv, StoreInv, StoreTypeOK
<1>2. ASSUME NEW c, NEW ws, NEW v, NEW name, NEW actor, set_name(c, ws, v, name, actor)
      PROVE  FALSE
  BY <1>1, <1>2 DEF set_name, Stored
<1>3. ASSUME NEW t \in Caller, DoUpsert(t) PROVE job[t].vid = vid
  <2>1. PICK new : rows' = [rows EXCEPT ![job[t].vid] = new]
    BY <1>3 DEF DoUpsert, upsert
  <2> QED BY <1>1, <2>1
<1>4. ASSUME NEW t \in Caller, DoSetFlags(t) PROVE FALSE
  BY <1>1, <1>4 DEF DoSetFlags, set_flags, Stored
<1>5. ASSUME NEW t \in Caller, DoDelete(t) PROVE FALSE
  BY <1>1, <1>5 DEF DoDelete, delete
<1>6. ASSUME NEW t \in Caller, DoClaimOwner(t) PROVE FALSE
  BY <1>1, <1>6 DEF DoClaimOwner, claim_owner, Stored
<1>7. ASSUME NEW t \in Caller, DoSetName(t) PROVE FALSE
  BY <1>2, <1>7 DEF DoSetName
<1>8. CASE Renames
  BY <1>2, <1>8 DEF Renames
<1> QED BY <1>3, <1>4, <1>5, <1>6, <1>7, <1>8, Outside, Frames DEF tables

\* A thread that has a ledger row to write keeps it until it writes it.
LEMMA PendingKept ==
    ASSUME PlaneInv, [PlaneNext]_planeVars, NEW t \in Caller, Pending(t).do = "log_usage",
           ~Crash, ~DoLogUsage(t)
    PROVE  Pending(t)' = Pending(t)
<1>1. ASSUME NEW u \in Caller, u # t, NEW j, job' = [job EXCEPT ![u] = j]
      PROVE  Pending(t)' = Pending(t)
  <2>1. job'[t] = job[t]
    BY <1>1 DEF PlaneInv, JobsFit
  <2> QED BY <2>1 DEF Pending, Doing
<1>2. ASSUME UNCHANGED job PROVE Pending(t)' = Pending(t)
  BY <1>2 DEF Pending, Doing
<1>3. ASSUME NEW u \in Caller, Starts(u) PROVE Pending(t)' = Pending(t)
  <2>1. job[u] = None /\ \E j : job' = [job EXCEPT ![u] = j]
    BY <1>3 DEF Starts
  <2>2. u # t
    BY <2>1 DEF Pending, Doing, None
  <2> QED BY <1>1, <2>1, <2>2
<1>4. ASSUME NEW u \in Caller, u # t, Continue(u) PROVE Pending(t)' = Pending(t)
  BY <1>1, <1>4, NextJob DEF Leads
<1>5. ASSUME Continue(t) PROVE Pending(t)' = Pending(t)
  <2>1. CASE DoRefreshPrint(t)
    BY <1>2, <2>1 DEF DoRefreshPrint
  <2>2. CASE DoRefreshFlags(t)
    <3>1. Closing(job[t].then, ledger) /\ job' = [job EXCEPT ![t] = job[t].then]
      BY <2>2, JobFits DEF DoRefreshFlags, Doing, Fits, Then
    <3>2. job'[t] = job[t].then /\ Pending(t) = job[t].then
      BY <2>2, <3>1 DEF DoRefreshFlags, Doing, Pending, PlaneInv, JobsFit
    <3> QED BY <3>1, <3>2 DEF Pending, Doing, Closing
  <2>3. CASE ~DoRefreshPrint(t) /\ ~DoRefreshFlags(t)
    <3>1. CASE \/ DoUpsert(t) \/ DoSetFlags(t) \/ DoDelete(t) \/ DoAddReceipt(t)
               \/ DoPropose(t) \/ DoLoad(t) \/ DoGate(t)
      BY <3>1 DEF DoUpsert, DoSetFlags, DoDelete, DoAddReceipt, DoPropose, DoLoad, DoGate,
                  Pending, Doing
    <3>2. CASE \/ DoClaimOwner(t) \/ DoSetName(t) \/ DoSetStatus(t)
               \/ DoReadFlag(t) \/ DoReadName(t) \/ DoAddRecognition(t)
      BY <3>2 DEF DoClaimOwner, DoSetName, DoSetStatus, DoReadFlag, DoReadName,
                  DoAddRecognition, Pending, Doing
    <3> QED BY <1>5, <2>3, <3>1, <3>2 DEF Continue
  <2> QED BY <2>1, <2>2, <2>3
<1> QED BY <1>2, <1>3, <1>4, <1>5, Outside

\* A forget in the ledger was there before, or has just taken the row.
LEMMA NewForgets ==
    ASSUME PlaneInv, [PlaneNext]_planeVars, NEW lid \in Forgets'
    PROVE  lid \in Forgets \/ rows'[ledger'[lid].vid] = NoRow
<1>1. CASE Settled \/ Crash \/ \E t \in Caller : DoAddReceipt(t)
  BY <1>1, IssueStep, CrashStep DEF Settled, Forgets
<1>2. ASSUME NEW t \in Caller, Erases(t), lid \notin Forgets
      PROVE  rows'[ledger'[lid].vid] = NoRow
  <2> DEFINE j == job[t]
             e == Record(Home[j.vid], j.vid, "forget", j.actor)
  <2>1. j.vid \in Vid /\ j.actor \in Actor
    BY <1>2, JobFits DEF Erases, DoDelete, Doing, Fits
  <2>2. /\ ledger' = Append(ledger, e) /\ rows' = [rows EXCEPT ![j.vid] = NoRow]
        /\ lid = Len(ledger) + 1
    BY <1>2, EraseStep DEF Erases, DoDelete, delete
  <2>3. e \in LedgerEntry /\ e.vid = j.vid /\ ledger \in Seq(LedgerEntry)
    BY <2>1, RecordType, People DEF Event, Record, PlaneInv, StoreInv, StoreTypeOK
  <2>4. ledger'[lid] = e
    <3> HIDE DEF e
    <3> QED BY <2>2, <2>3
  <2> QED BY <2>1, <2>2, <2>3, <2>4 DEF PlaneInv, StoreInv, StoreTypeOK
<1> QED BY <1>1, <1>2, ReceiptStep

LEMMA RestoreStepInv ==
    ASSUME RestoreInv, [PlaneNext]_planeVars
    PROVE  RestoreInv'
<1>0. PlaneInv /\ PlaneInv' /\ TrailsGrow
  BY PlaneStepInv DEF RestoreInv
<1>1. CASE Crash
  BY <1>0, <1>1 DEF Crash, RestoreInv, PlaneInv, FilesFit
<1>2. ASSUME ~Crash, crashes' = 0, NEW lid \in Forgets', NEW vid, vid = ledger'[lid].vid,
             rows'[vid] # NoRow
      PROVE  Backed(ledger', lid, vid) \/ \E t \in Caller : Restoring(Pending(t)', vid)
  <2>1. lid \in Forgets
    BY <1>0, <1>2, NewForgets
  <2>2. vid = ledger[lid].vid /\ vid \in Vid /\ lid \in DOMAIN ledger
    <3>1. lid \in DOMAIN ledger /\ ledger \in Seq(LedgerEntry)
      BY <1>0, <2>1 DEF Forgets, PlaneInv, StoreInv, StoreTypeOK
    <3>2. ledger[lid] \in LedgerEntry
      BY <3>1
    <3> QED BY <1>0, <1>2, <3>1, <3>2 DEF TrailsGrow, LedgerEntry
  <2>3. CASE rows[vid] = NoRow
    <3>1. PICK t \in Caller : DoUpsert(t) /\ job[t].vid = vid
      BY <1>0, <1>2, <2>2, <2>3, RowsBack
    <3> DEFINE next == [do |-> "log_usage", vid |-> vid, event |-> job[t].event,
                        actor |-> job[t].actor]
    <3>2. job[t].event \in {"import", "enroll"}
      BY <1>0, <3>1, JobFits DEF DoUpsert, Doing, Fits
    <3>3. job'[t] = [do |-> "refresh", then |-> next]
      BY <1>0, <3>1 DEF DoUpsert, Then, PlaneInv, JobsFit
    <3>4. Pending(t)' = next
      BY <3>3 DEF Pending, Doing
    <3> QED BY <3>2, <3>4 DEF Restoring
  <2>4. CASE Backed(ledger, lid, vid)
    BY <1>0, <2>4 DEF Backed, TrailsGrow
  <2>5. ASSUME NEW t \in Caller, Restoring(Pending(t), vid)
        PROVE  Backed(ledger', lid, vid) \/ \E u \in Caller : Restoring(Pending(u)', vid)
    <3>1. CASE DoLogUsage(t)
      <4> DEFINE e == Record(Home[vid], vid, job[t].event, job[t].actor)
      <4>1. Pending(t) = job[t]
        BY <3>1 DEF DoLogUsage, Doing, Pending
      <4>2. ledger' = Append(ledger, e) /\ ledger \in Seq(LedgerEntry)
        BY <1>0, <2>5, <3>1, <4>1
           DEF DoLogUsage, log_usage, Restoring, PlaneInv, StoreInv, StoreTypeOK
      <4>3. e.vid = vid /\ e.event \in {"import", "enroll"}
        BY <2>5, <4>1 DEF Restoring, Record
      <4>4. Len(ledger) + 1 \in DOMAIN ledger' /\ ledger'[Len(ledger) + 1] = e
        <5> HIDE DEF e
        <5> QED BY <4>2
      <4>5. Len(ledger) + 1 > lid
        BY <2>2, <4>2
      <4> QED BY <4>3, <4>4, <4>5 DEF Backed
    <3>2. CASE ~DoLogUsage(t)
      BY <1>0, <1>2, <2>5, <3>2, PendingKept DEF Restoring
    <3> QED BY <3>1, <3>2
  <2>6. crashes = 0
    BY <1>0, <1>2, Outside, ContinueExports DEF Starts
  <2> QED BY <2>1, <2>2, <2>3, <2>4, <2>5, <2>6 DEF RestoreInv
<1> QED BY <1>0, <1>1, <1>2 DEF RestoreInv, Restoring, Forgets

(* A voiceprint that is back after a forget got there by an import or an    *)
(* enrolment that the ledger lists after the forget: once nothing is in     *)
(* flight there is no silent resurrection, unless the process died between  *)
(* the write and its ledger row.                                            *)
THEOREM RestoresAreLedgered == PlaneSpec => []RestoreIsLedgered
<1>1. PlaneInit => RestoreInv
  <2> SUFFICES ASSUME PlaneInit PROVE RestoreInv
    OBVIOUS
  <2>1. ledger = <<>>
    BY DEF PlaneInit
  <2>2. Forgets = {}
    BY <2>1 DEF Forgets
  <2> QED BY <2>2, PlaneInitInv DEF RestoreInv
<1>2. RestoreInv /\ [PlaneNext]_planeVars => RestoreInv'
  BY RestoreStepInv
<1>3. RestoreInv => RestoreIsLedgered
  <2> SUFFICES ASSUME RestoreInv, Quiet, crashes = 0, NEW vid \in Vid,
                      NEW lid \in DOMAIN ledger, ledger[lid].event = "forget",
                      ledger[lid].vid = vid, rows[vid] # NoRow
               PROVE  \E later \in lid + 1 .. Len(ledger) :
                          /\ ledger[later].vid = vid
                          /\ ledger[later].event \in {"import", "enroll"}
    BY DEF RestoreIsLedgered
  <2>1. ASSUME NEW t \in Caller PROVE ~Restoring(Pending(t), vid)
    <3>1. job[t] = None /\ None.do = "none"
      BY DEF Quiet, None
    <3>2. Pending(t).do = "none"
      BY <3>1 DEF Pending, Doing
    <3> QED BY <3>2 DEF Restoring
  <2>2. Backed(ledger, lid, vid)
    BY <2>1 DEF RestoreInv, Forgets
  <2>3. ledger \in Seq(LedgerEntry)
    BY DEF RestoreInv, PlaneInv, StoreInv, StoreTypeOK
  <2> QED BY <2>2, <2>3 DEF Backed
<1> QED BY <1>1, <1>2, <1>3, PTL DEF PlaneSpec

-----------------------------------------------------------------------------
(* Every request comes to its end *)

\* Store calls, or reads, a job still leads to at most.
Calls(what) ==
    CASE what = "none" -> 0
      [] what \in {"log_usage", "add_receipt", "set_status", "add_recognition"} -> 1
      [] what \in {"set_flags", "set_name", "read_name"} -> 2
      [] what \in {"claim_owner", "read_flag"} -> 3
      [] what \in {"gate", "upsert", "delete"} -> 4
      [] what = "load" -> 5
      [] OTHER -> 6

\* Steps thread t still has to take at most, the cache writes included.
Work(t) ==
    IF Doing(t, "refresh")
    THEN Calls(job[t].then.do) + (IF refresh.stage = "print" THEN 2 ELSE 1)
    ELSE Calls(job[t].do)

\* The lock is held by the thread that has caches to write, and by no other.
LockInHand == \A t \in Caller : lock = t <=> Doing(t, "refresh")

\* What thread t does next: a write of the store, which waits for the lock, or a
\* read, which does not.
Writes == {"upsert", "set_flags", "delete", "log_usage", "add_receipt", "propose",
           "claim_owner", "set_name", "set_status", "add_recognition"}
Reads == {"load", "gate", "read_flag", "read_name"}

\* A job some step of the handlers takes up.
Proper(j) ==
    \/ j = None
    \/ j.do \in Writes \cup Reads
    \/ j.do = "refresh" /\ (j.then = None \/ j.then.do \in Writes)

LEMMA CallsType == \A what : Calls(what) \in 0..6
BY DEF Calls

\* A thread goes on inside the lock, out of it, or without touching it; in each
\* case it has less left to do.
Advances(t, j) ==
    /\ job' = [job EXCEPT ![t] = j] /\ Proper(j)
    /\ \/ /\ j.do = "refresh" /\ lock \in {Free, t} /\ lock' = t
          /\ Calls(j.then.do) + (IF refresh'.stage = "print" THEN 2 ELSE 1) < Work(t)
       \/ /\ j.do # "refresh" /\ lock = t /\ lock' = Free
          /\ Calls(j.do) < Work(t)
       \/ /\ j.do # "refresh" /\ ~Doing(t, "refresh") /\ UNCHANGED <<lock, refresh>>
          /\ Calls(j.do) < Work(t)

\* A step outside the lock, by the job it is and the job it leads to.
LEMMA Onwards ==
    ASSUME NEW t, NEW j, Then(t, j), ~Doing(t, "refresh"), UNCHANGED <<lock, refresh>>,
           j = None \/ j.do \in Writes \cup Reads, Calls(j.do) < Calls(job[t].do)
    PROVE  Advances(t, j)
BY DEF Then, Advances, Work, Proper, Writes, Reads, None

\* A write that takes the lock.
LEMMA TakesLock ==
    ASSUME NEW t, NEW k, Then(t, [do |-> "refresh", then |-> k]), ~Doing(t, "refresh"),
           lock = Free, lock' = t, k = None \/ k.do \in Writes,
           \/ Calls(k.do) + 2 < Calls(job[t].do)
           \/ refresh'.stage = "flags" /\ Calls(k.do) + 1 < Calls(job[t].do)
    PROVE  \E j : Advances(t, j)
<1> DEFINE next == [do |-> "refresh", then |-> k]
<1>1. next.do = "refresh" /\ next.then = k
  OBVIOUS
<1>2. job' = [job EXCEPT ![t] = next] /\ Proper(next)
  BY DEF Then, Proper
<1>3. Work(t) = Calls(job[t].do) /\ Work(t) \in 0..6 /\ Calls(k.do) \in 0..6
  BY CallsType DEF Work
<1>4. Calls(k.do) + (IF refresh'.stage = "print" THEN 2 ELSE 1) < Work(t)
  BY <1>3
<1> HIDE DEF next
<1> QED BY <1>1, <1>2, <1>4 DEF Advances

LEMMA CallsOf ==
    /\ Calls("none") = 0
    /\ \A what \in {"log_usage", "add_receipt", "set_status", "add_recognition"} :
          Calls(what) = 1
    /\ Calls("set_flags") = 2 /\ Calls("set_name") = 2 /\ Calls("read_name") = 2
    /\ Calls("claim_owner") = 3 /\ Calls("read_flag") = 3
    /\ Calls("gate") = 4 /\ Calls("upsert") = 4 /\ Calls("delete") = 4
    /\ Calls("load") = 5 /\ Calls("propose") = 6
BY DEF Calls

\* What is left after an upsert, a change of flags or a deletion.
LEMMA WriteAdvances ==
    ASSUME PlaneInv, NEW t \in Caller, DoUpsert(t) \/ DoSetFlags(t) \/ DoDelete(t)
    PROVE  \E j : Advances(t, j)
<1>0. None.do = "none"
  BY DEF None
<1>1. CASE DoUpsert(t)
  <2> DEFINE k == [do |-> "log_usage", vid |-> job[t].vid, event |-> job[t].event,
                   actor |-> job[t].actor]
  <2>1. k.do = "log_usage"
    OBVIOUS
  <2>2. Then(t, [do |-> "refresh", then |-> k]) /\ lock = Free /\ lock' = t
    BY <1>1 DEF DoUpsert, upsert
  <2>3. job[t].do = "upsert"
    BY <1>1 DEF DoUpsert, Doing
  <2> HIDE DEF k
  <2>4. Calls(k.do) + 2 < Calls(job[t].do)
    BY <2>1, <2>3, CallsOf
  <2> QED BY <2>1, <2>2, <2>3, <2>4, TakesLock DEF Doing, Writes
<1>2. CASE DoSetFlags(t)
  <2>1. job[t].do = "set_flags" /\ Chosen(job[t].want) # {}
    BY <1>2, JobFits DEF DoSetFlags, Doing, Fits
  <2>2. CASE Stored(Home[job[t].vid], job[t].vid)
    <3>1. Then(t, [do |-> "refresh", then |-> None])
      BY <1>2, <2>2 DEF DoSetFlags
    <3>2. lock = Free /\ lock' = t /\ refresh'.stage = "flags"
      <4>1. set_flags(t, Home[job[t].vid], job[t].vid, job[t].want, job[t].actor)
        BY <1>2 DEF DoSetFlags
      <4> QED BY <2>1, <2>2, <4>1 DEF set_flags
    <3>3. Calls(None.do) + 1 < Calls(job[t].do)
      BY <1>0, <2>1, CallsOf
    <3> QED BY <2>1, <3>1, <3>2, <3>3, TakesLock DEF Doing, Writes
  <2>3. CASE ~Stored(Home[job[t].vid], job[t].vid)
    <3>1. Then(t, None) /\ UNCHANGED <<lock, refresh>>
      BY <1>2, <2>3 DEF DoSetFlags, set_flags
    <3>2. Calls(None.do) < Calls(job[t].do)
      BY <1>0, <2>1, CallsOf
    <3> QED BY <1>0, <2>1, <3>1, <3>2, Onwards DEF Doing, Writes, Reads
  <2> QED BY <2>2, <2>3
<1>3. CASE DoDelete(t)
  <2> DEFINE owed == [do |-> "add_receipt", vid |-> job[t].vid, actor |-> job[t].actor,
                      lid |-> Len(ledger) + 1]
             k == IF Stored(Home[job[t].vid], job[t].vid) THEN owed ELSE None
  <2>1. k = None \/ k.do = "add_receipt"
    OBVIOUS
  <2>2. Then(t, [do |-> "refresh", then |-> k]) /\ lock = Free /\ lock' = t
    BY <1>3 DEF DoDelete, delete
  <2>3. job[t].do = "delete"
    BY <1>3 DEF DoDelete, Doing
  <2> HIDE DEF k
  <2>4. Calls(k.do) + 2 < Calls(job[t].do)
    BY <1>0, <2>1, <2>3, CallsOf
  <2> QED BY <2>1, <2>2, <2>3, <2>4, TakesLock DEF Doing, Writes
<1> QED BY <1>1, <1>2, <1>3

\* The cache writes.
LEMMA CacheAdvances ==
    ASSUME PlaneInv, NEW t \in Caller, Proper(job[t]), DoRefreshPrint(t) \/ DoRefreshFlags(t)
    PROVE  \E j : Advances(t, j)
<1>0. Calls(job[t].then.do) \in 0..6
  BY CallsType
<1>1. CASE DoRefreshPrint(t)
  <2>1. /\ job' = [job EXCEPT ![t] = job[t]] /\ job[t].do = "refresh"
        /\ lock = t /\ lock' = t /\ refresh.stage = "print"
    BY <1>1 DEF DoRefreshPrint, RefreshPrint, Doing, PlaneInv, JobsFit
  <2>2. refresh'.stage = "flags"
    <3>1. refresh \in Refresh /\ refresh' = [refresh EXCEPT !.stage = "flags"]
      BY <1>1, <2>1 DEF DoRefreshPrint, RefreshPrint, PlaneInv, StoreInv, StoreTypeOK, Idle
    <3> QED BY <3>1 DEF Refresh
  <2>3. Work(t) = Calls(job[t].then.do) + 2
    BY <2>1 DEF Work, Doing
  <2>4. Calls(job[t].then.do) + 1 < Work(t)
    BY <1>0, <2>3
  <2> QED BY <2>1, <2>2, <2>4 DEF Advances
<1>2. CASE DoRefreshFlags(t)
  <2> DEFINE k == job[t].then
  <2>1. Proper(k) /\ k.do # "refresh"
    BY <1>2 DEF DoRefreshFlags, Doing, Proper, None, Writes, Reads
  <2>2. /\ job' = [job EXCEPT ![t] = k] /\ lock = t /\ lock' = Free
        /\ refresh.stage = "flags" /\ job[t].do = "refresh"
    BY <1>2 DEF DoRefreshFlags, RefreshFlags, Then, Doing
  <2>3. Work(t) = Calls(k.do) + 1
    BY <2>2 DEF Work, Doing
  <2>4. Calls(k.do) < Work(t)
    BY <1>0, <2>3
  <2> QED BY <2>1, <2>2, <2>4 DEF Advances
<1> QED BY <1>1, <1>2

\* The store calls that write one row and are done, and the lock-free reads.
LEMMA OtherAdvances ==
    ASSUME NEW t \in Caller,
           \/ DoLogUsage(t) \/ DoAddReceipt(t) \/ DoSetStatus(t) \/ DoAddRecognition(t)
           \/ DoReadFlag(t) \/ DoReadName(t)
    PROVE  \E j : Advances(t, j)
<1> DEFINE j == job[t]
           row == get(Home[j.vid], j.vid)
           read == [do |-> "read_name", vid |-> j.vid]
           withheld == [do |-> "log_usage", vid |-> j.vid, event |-> "identify",
                        actor |-> Service]
           named == [do |-> "log_usage", vid |-> j.vid, event |-> "identify",
                     actor |-> Service, shown |-> IF row = NoRow THEN NoName ELSE row.name]
<1>0. /\ None.do = "none" /\ read.do = "read_name"
      /\ withheld.do = "log_usage" /\ named.do = "log_usage"
  BY DEF None
<1>1. CASE DoLogUsage(t) \/ DoAddReceipt(t) \/ DoSetStatus(t) \/ DoAddRecognition(t)
  <2>1. /\ Then(t, None) /\ UNCHANGED <<lock, refresh>>
        /\ j.do \in {"log_usage", "add_receipt", "set_status", "add_recognition"}
    BY <1>1 DEF DoLogUsage, log_usage, DoAddReceipt, add_deletion_receipt, DoSetStatus,
       set_status, DoAddRecognition, add_recognition, Doing, Cached
  <2>2. Calls(None.do) < Calls(j.do)
    BY <1>0, <2>1, CallsOf
  <2> QED BY <1>0, <2>1, <2>2, Onwards DEF Doing, Writes, Reads
<1>2. CASE DoReadFlag(t)
  <2>1. (Then(t, read) \/ Then(t, withheld)) /\ UNCHANGED <<lock, refresh>>
    BY <1>2 DEF DoReadFlag, storeVars
  <2>2. j.do = "read_flag"
    BY <1>2 DEF DoReadFlag, Doing
  <2> HIDE DEF read, withheld
  <2>3. Calls(read.do) < Calls(j.do) /\ Calls(withheld.do) < Calls(j.do)
    BY <1>0, <2>2, CallsOf
  <2> QED BY <1>0, <2>1, <2>2, <2>3, Onwards DEF Doing, Writes, Reads
<1>3. CASE DoReadName(t)
  <2>1. Then(t, named) /\ UNCHANGED <<lock, refresh>>
    BY <1>3 DEF DoReadName, storeVars
  <2>2. j.do = "read_name"
    BY <1>3 DEF DoReadName, Doing
  <2> HIDE DEF named
  <2>3. Calls(named.do) < Calls(j.do)
    BY <1>0, <2>2, CallsOf
  <2> QED BY <1>0, <2>1, <2>2, <2>3, Onwards DEF Doing, Writes, Reads
<1> QED BY <1>1, <1>2, <1>3

\* The chain of a proposal and its confirmation.
LEMMA ConfirmAdvances ==
    ASSUME NEW t \in Caller,
           DoPropose(t) \/ DoLoad(t) \/ DoGate(t) \/ DoClaimOwner(t) \/ DoSetName(t)
    PROVE  \E j : Advances(t, j)
<1> DEFINE j == job[t]
           p == proposals[j.pid]
           gate == [do |-> "gate", pid |-> j.pid, actor |-> j.actor, status |-> p.status]
           claim == [do |-> "claim_owner", pid |-> j.pid, actor |-> j.actor,
                     allowed |-> identify_allowed(p.ws, p.vid)]
           name == [do |-> "set_name", pid |-> j.pid, actor |-> j.actor]
<1>0. /\ None.do = "none" /\ gate.do = "gate" /\ claim.do = "claim_owner"
      /\ name.do = "set_name" /\ Marking(j).do = "set_status"
  BY DEF None, Marking
<1> HIDE DEF p, gate, claim, name
<1>1. CASE DoPropose(t)
  <2>1. PICK pid : Then(t, [do |-> "load", pid |-> pid, actor |-> j.actor]) \/ Then(t, None)
    BY <1>1 DEF DoPropose
  <2> DEFINE next == [do |-> "load", pid |-> pid, actor |-> j.actor]
  <2>2. next.do = "load" /\ j.do = "propose" /\ UNCHANGED <<lock, refresh>>
    BY <1>1 DEF DoPropose, propose, Doing, Cached
  <2> HIDE DEF next
  <2>3. Calls(next.do) < Calls(j.do) /\ Calls(None.do) < Calls(j.do)
    BY <1>0, <2>2, CallsOf
  <2> QED BY <1>0, <2>1, <2>2, <2>3, Onwards DEF next, Doing, Writes, Reads
<1>2. CASE DoLoad(t)
  <2>1. Then(t, gate) /\ j.do = "load" /\ UNCHANGED <<lock, refresh>>
    BY <1>2 DEF DoLoad, Doing, storeVars, gate, p
  <2>2. Calls(gate.do) < Calls(j.do)
    BY <1>0, <2>1, CallsOf
  <2> QED BY <1>0, <2>1, <2>2, Onwards DEF Doing, Writes, Reads
<1>3. CASE DoGate(t)
  <2>1. /\ Then(t, claim) \/ Then(t, None)
        /\ j.do = "gate" /\ UNCHANGED <<lock, refresh>>
    BY <1>3 DEF DoGate, Doing, storeVars, claim, p
  <2>2. Calls(claim.do) < Calls(j.do) /\ Calls(None.do) < Calls(j.do)
    BY <1>0, <2>1, CallsOf
  <2> QED BY <1>0, <2>1, <2>2, Onwards DEF Doing, Writes, Reads
<1>4. CASE DoClaimOwner(t)
  <2>1. /\ Then(t, name) \/ Then(t, Marking(j))
        /\ j.do = "claim_owner" /\ UNCHANGED <<lock, refresh>>
    BY <1>4 DEF DoClaimOwner, claim_owner, Doing, Cached, name
  <2>2. Calls(name.do) < Calls(j.do) /\ Calls(Marking(j).do) < Calls(j.do)
    BY <1>0, <2>1, CallsOf
  <2> QED BY <1>0, <2>1, <2>2, Onwards DEF Doing, Writes, Reads
<1>5. CASE DoSetName(t)
  <2>1. Then(t, Marking(j)) /\ j.do = "set_name" /\ UNCHANGED <<lock, refresh>>
    BY <1>5 DEF DoSetName, set_name, Doing, Cached
  <2>2. Calls(Marking(j).do) < Calls(j.do)
    BY <1>0, <2>1, CallsOf
  <2> QED BY <1>0, <2>1, <2>2, Onwards DEF Doing, Writes, Reads
<1> QED BY <1>1, <1>2, <1>3, <1>4, <1>5

LEMMA StepAdvances ==
    ASSUME PlaneInv, NEW t \in Caller, Proper(job[t]), Continue(t)
    PROVE  \E j : Advances(t, j)
BY WriteAdvances, CacheAdvances, OtherAdvances, ConfirmAdvances DEF Continue

-----------------------------------------------------------------------------
(* The lock and the requests in hand *)

JobsProper == \A t \in Caller : Proper(job[t])

ProgressInv == PlaneInv /\ LockInHand /\ JobsProper

\* Thread t takes up a request.
Begins(t) ==
    \E j : job' = [job EXCEPT ![t] = j] /\ (j = None \/ j.do \in Writes \cup Reads)

LEMMA AcceptBegins ==
    ASSUME NEW t, NEW kind, NEW j, Accept(t, kind, j), j = None \/ j.do \in Writes \cup Reads
    PROVE  Begins(t)
BY DEF Accept, Begins

LEMMA DashboardBegins ==
    ASSUME NEW t \in Caller, Dashboard(t)
    PROVE  Begins(t)
<1> PICK email \in SignIn :
        \/ \E vid \in Vid, want \in Want : SetMyFlags(t, email, vid, want)
        \/ \E vid \in Vid : ForgetMe(t, email, vid) \/ Export(t, email, vid)
        \/ \E file \in exports : Import(t, email, file)
        \/ \E pid \in DOMAIN proposals : Confirm(t, email, pid) \/ Deny(t, email, pid)
  BY DEF Dashboard
<1>1. ASSUME NEW vid \in Vid, NEW want \in Want, SetMyFlags(t, email, vid, want)
      PROVE  Begins(t)
  <2> DEFINE j == [do |-> "set_flags", vid |-> vid, want |-> want, actor |-> email]
  <2>1. Accept(t, "flags", j) /\ j.do \in Writes
    BY <1>1 DEF SetMyFlags, Writes
  <2> HIDE DEF j
  <2> QED BY <2>1, AcceptBegins
<1>2. ASSUME NEW vid \in Vid, ForgetMe(t, email, vid)
      PROVE  Begins(t)
  <2> DEFINE j == [do |-> "delete", vid |-> vid, actor |-> email]
  <2>1. Accept(t, "forget", j) /\ j.do \in Writes
    BY <1>2 DEF ForgetMe, Writes
  <2> HIDE DEF j
  <2> QED BY <2>1, AcceptBegins
<1>3. ASSUME NEW vid \in Vid, Export(t, email, vid)
      PROVE  Begins(t)
  <2> DEFINE j == [do |-> "log_usage", vid |-> vid, event |-> "export", actor |-> email]
  <2>1. Accept(t, "export", j) /\ j.do \in Writes
    BY <1>3 DEF Export, Writes
  <2> HIDE DEF j
  <2> QED BY <2>1, AcceptBegins
<1>4. ASSUME NEW file \in exports, Import(t, email, file)
      PROVE  Begins(t)
  <2>1. PICK vp : Accept(t, "import", [do |-> "upsert", vid |-> file.vid,
                                       brings |-> file.vp.exemplars, event |-> "import",
                                       vp |-> vp, actor |-> email])
    BY <1>4 DEF Import
  <2> DEFINE j == [do |-> "upsert", vid |-> file.vid, brings |-> file.vp.exemplars,
                   event |-> "import", vp |-> vp, actor |-> email]
  <2>2. Accept(t, "import", j) /\ j.do \in Writes
    BY <2>1 DEF Writes
  <2> HIDE DEF j
  <2> QED BY <2>2, AcceptBegins
<1>5. ASSUME NEW pid \in DOMAIN proposals, Confirm(t, email, pid)
      PROVE  Begins(t)
  <2> DEFINE j == [do |-> "gate", pid |-> pid, status |-> proposals[pid].status,
                   actor |-> email]
  <2>1. Accept(t, "confirm", j) /\ j.do \in Reads
    BY <1>5 DEF Confirm, Reads
  <2> HIDE DEF j
  <2> QED BY <2>1, AcceptBegins
<1>6. ASSUME NEW pid \in DOMAIN proposals, Deny(t, email, pid)
      PROVE  Begins(t)
  <2> DEFINE j == [do |-> "set_status", pid |-> pid, status |-> "denied"]
  <2>1. Accept(t, "deny", j) /\ j.do \in Writes
    BY <1>6 DEF Deny, Writes
  <2> HIDE DEF j
  <2> QED BY <2>1, AcceptBegins
<1> QED BY <1>1, <1>2, <1>3, <1>4, <1>5, <1>6

LEMMA IdentifyBegins ==
    ASSUME NEW t \in Caller, NEW vid \in Vid, Identify(t, vid)
    PROVE  Begins(t)
<1> DEFINE j == [do |-> "read_flag", vid |-> vid]
<1>1. Accept(t, "identify", j) /\ j.do \in Reads
  BY DEF Identify, Reads
<1> HIDE DEF j
<1> QED BY <1>1, AcceptBegins

LEMMA MachineBegins ==
    ASSUME MachineToMachine
    PROVE  Begins(EventLoop)
<1> DEFINE t == EventLoop
<1> PICK vid \in Vid :
        \/ \E clip \in Clip : Enroll(vid, clip)
        \/ \E email \in Email, self \in BOOLEAN : ProposeTag(vid, email, self)
        \/ \E email \in Email : BindEmail(vid, email)
        \/ \E name \in Name : BindName(vid, name)
        \/ Identify(t, vid)
        \/ RecordRecognition(vid)
  BY DEF MachineToMachine
<1>1. ASSUME NEW clip \in Clip, Enroll(vid, clip)
      PROVE  Begins(t)
  <2>1. PICK vp : Accept(t, "enroll", [do |-> "upsert", vid |-> vid, brings |-> {clip},
                                       event |-> "enroll", vp |-> vp, actor |-> Service])
    BY <1>1 DEF Enroll
  <2> DEFINE j == [do |-> "upsert", vid |-> vid, brings |-> {clip}, event |-> "enroll",
                   vp |-> vp, actor |-> Service]
  <2>2. Accept(t, "enroll", j) /\ j.do \in Writes
    BY <2>1 DEF Writes
  <2> HIDE DEF j
  <2> QED BY <2>2, AcceptBegins
<1>2. ASSUME NEW email \in Email, NEW self \in BOOLEAN, ProposeTag(vid, email, self)
      PROVE  Begins(t)
  <2> DEFINE j == [do |-> "propose", vid |-> vid, email |-> email, actor |-> email,
                   auto |-> self \/ CONSENT_AUTOCONFIRM]
  <2>1. Accept(t, "propose", j) /\ j.do \in Writes
    BY <1>2 DEF ProposeTag, Writes
  <2> HIDE DEF j
  <2> QED BY <2>1, AcceptBegins
<1>3. ASSUME NEW email \in Email, BindEmail(vid, email)
      PROVE  Begins(t)
  <2> DEFINE j == [do |-> "propose", vid |-> vid, email |-> email, actor |-> Service,
                   auto |-> TRUE]
  <2>1. Accept(t, "knowledge", j) /\ j.do \in Writes
    BY <1>3 DEF BindEmail, Writes
  <2> HIDE DEF j
  <2> QED BY <2>1, AcceptBegins
<1>4. ASSUME NEW name \in Name, BindName(vid, name)
      PROVE  Begins(t)
  <2>1. Accept(t, "rename", None)
    BY <1>4 DEF BindName
  <2> QED BY <2>1, AcceptBegins
<1>5. ASSUME RecordRecognition(vid)
      PROVE  Begins(t)
  <2> DEFINE j == [do |-> "add_recognition", vid |-> vid, owner |-> rows[vid].owner]
  <2>1. Accept(t, "recognize", j) /\ j.do \in Writes
    BY <1>5 DEF RecordRecognition, Writes
  <2> HIDE DEF j
  <2> QED BY <2>1, AcceptBegins
<1> QED BY <1>1, <1>2, <1>3, <1>4, <1>5, IdentifyBegins, People

\* A request goes to a thread with nothing in hand, and leaves the lock alone.
LEMMA RequestBegins ==
    ASSUME PlaneInv, Request
    PROVE  /\ \E t \in Caller : Begins(t) /\ Starts(t)
           /\ UNCHANGED <<lock, refresh>>
<1>1. UNCHANGED <<lock, refresh>>
  BY RequestStep DEF storeVars, Renames, set_name, Cached
<1>2. CASE MachineToMachine
  BY <1>1, <1>2, MachineBegins, MachineStarts, People
<1>3. CASE \E t \in Worker : Dashboard(t) \/ (\E vid \in Vid : Identify(t, vid))
  BY <1>1, <1>3, DashboardBegins, DashboardStarts, IdentifyBegins, IdentifyStarts, People
<1> QED BY <1>2, <1>3 DEF Request

\* A handler's step shortens its own chain and no other thread's.
LEMMA HandlerStep ==
    ASSUME ProgressInv, NEW t \in Caller, Continue(t)
    PROVE  /\ LockInHand' /\ JobsProper'
           /\ Work(t)' < Work(t)
           /\ \A u \in Caller : u # t => UNCHANGED Work(u)
<1>1. PICK j : Advances(t, j)
  BY StepAdvances DEF ProgressInv, JobsProper
<1>2. job'[t] = j /\ \A u \in Caller : u # t => job'[u] = job[u]
  BY <1>1 DEF Advances, ProgressInv, PlaneInv, JobsFit
<1>3. JobsProper'
  BY <1>1, <1>2 DEF Advances, JobsProper, ProgressInv
<1>4. Free \notin Caller
  BY StoreAssumption
<1>5. LockInHand'
  BY <1>1, <1>2, <1>4 DEF Advances, LockInHand, Doing, ProgressInv
<1>6. Work(t)' < Work(t)
  BY <1>1, <1>2 DEF Advances, Work, Doing
<1>7. ASSUME NEW u \in Caller, u # t
      PROVE  UNCHANGED Work(u)
  <2>1. CASE Doing(u, "refresh")
    <3>1. lock = u
      BY <2>1 DEF LockInHand, ProgressInv
    <3>2. UNCHANGED refresh
      BY <1>1, <1>4, <1>7, <3>1 DEF Advances
    <3> QED BY <1>2, <1>7, <3>2 DEF Work, Doing
  <2>2. CASE ~Doing(u, "refresh")
    BY <1>2, <1>7, <2>2 DEF Work, Doing
  <2> QED BY <2>1, <2>2
<1> QED BY <1>3, <1>5, <1>6, <1>7

\* What a step does to the work in hand.
Shortens ==
    \A t \in Caller : /\ Continue(t) => Work(t)' < Work(t)
                      /\ job[t] # None => Work(t)' <= Work(t)

LEMMA WorkType ==
    ASSUME ProgressInv, NEW t \in Caller
    PROVE  Work(t) \in 0..6 /\ (Work(t) = 0 <=> job[t] = None)
<1>1. None.do = "none"
  BY DEF None
<1>2. Proper(job[t])
  BY DEF ProgressInv, JobsProper
<1>3. CASE job[t] = None
  BY <1>1, <1>3, CallsOf DEF Work, Doing
<1>4. CASE job[t].do \in Writes \cup Reads
  <2>1. Calls(job[t].do) \in 1..6 /\ job[t].do # "refresh"
    BY <1>4, CallsOf DEF Writes, Reads
  <2> QED BY <1>1, <1>4, <2>1 DEF Work, Doing, Writes, Reads
<1>5. CASE job[t].do = "refresh"
  <2>1. job[t] # None
    BY <1>1, <1>5
  <2>2. Calls(job[t].then.do) \in 0..1
    <3>1. Fits(job[t], ledger, proposals)
      BY JobFits DEF ProgressInv
    <3> QED BY <1>5, <3>1, CallsOf DEF Fits, Closing
  <2> QED BY <1>5, <2>1, <2>2 DEF Work, Doing
<1> QED BY <1>2, <1>3, <1>4, <1>5 DEF Proper

LEMMA ProgressStep ==
    ASSUME ProgressInv, [PlaneNext]_planeVars
    PROVE  ProgressInv' /\ Shortens
<1>1. PlaneInv'
  BY PlaneStepInv DEF ProgressInv
<1>2. \A t \in Caller : Work(t) \in 0..6
  BY WorkType
<1>3. ASSUME NEW t \in Caller, Continue(t)
      PROVE  Work(t)' < Work(t)
  BY <1>3, HandlerStep
<1>4. ASSUME LockInHand', JobsProper',
             \A t \in Caller : job[t] # None => UNCHANGED Work(t) \/ Work(t)' = 0
      PROVE  ProgressInv' /\ Shortens
  BY <1>1, <1>2, <1>3, <1>4 DEF ProgressInv, Shortens
<1>5. CASE UNCHANGED planeVars \/ Rest
  <2>1. UNCHANGED <<job, lock, refresh>>
    BY <1>5 DEF planeVars, storeVars, Rest
  <2> QED BY <1>4, <2>1 DEF LockInHand, JobsProper, Doing, Work, ProgressInv
<1>6. CASE Request
  <2>1. PICK t \in Caller : Begins(t) /\ Starts(t) /\ UNCHANGED <<lock, refresh>>
    BY <1>6, RequestBegins DEF ProgressInv
  <2>2. PICK j : job' = [job EXCEPT ![t] = j] /\ (j = None \/ j.do \in Writes \cup Reads)
    BY <2>1 DEF Begins
  <2>3. job'[t] = j /\ \A u \in Caller : u # t => job'[u] = job[u]
    BY <2>2 DEF ProgressInv, PlaneInv, JobsFit
  <2>4. job[t] = None /\ None.do # "refresh" /\ j.do # "refresh"
    BY <2>1, <2>2 DEF Starts, None, Writes, Reads
  <2>5. LockInHand' /\ JobsProper'
    BY <2>1, <2>2, <2>3, <2>4 DEF LockInHand, JobsProper, Proper, Doing, ProgressInv
  <2>6. \A u \in Caller : u # t => UNCHANGED Work(u)
    BY <2>1, <2>3 DEF Work, Doing
  <2> QED BY <1>4, <2>4, <2>5, <2>6
<1>7. CASE \E t \in Caller : Continue(t)
  <2>1. PICK t \in Caller : Continue(t)
    BY <1>7
  <2>2. /\ LockInHand' /\ JobsProper' /\ Work(t)' < Work(t)
        /\ \A u \in Caller : u # t => UNCHANGED Work(u)
    BY <2>1, HandlerStep
  <2>3. Work(t)' \in 0..8
    BY CallsType DEF Work
  <2> QED BY <1>1, <1>2, <1>3, <2>2, <2>3 DEF ProgressInv, Shortens
<1>8. CASE Crash
  <2>1. /\ \A t \in Caller : job'[t] = None
        /\ lock' = Free /\ None.do = "none" /\ Free \notin Caller
    BY <1>8, StoreAssumption DEF Crash, Reopen, None
  <2>2. LockInHand' /\ JobsProper'
    BY <2>1 DEF LockInHand, JobsProper, Proper, Doing
  <2>3. \A t \in Caller : Work(t)' = 0
    BY <2>1, CallsOf DEF Work, Doing
  <2> QED BY <1>4, <2>2, <2>3
<1> QED BY <1>5, <1>6, <1>7, <1>8 DEF PlaneNext, Request

LEMMA ProgressInvariant == PlaneSpec => []ProgressInv
<1>1. PlaneInit => ProgressInv
  <2> SUFFICES ASSUME PlaneInit PROVE ProgressInv
    OBVIOUS
  <2>1. /\ \A t \in Caller : job[t] = None
        /\ lock = Free /\ None.do = "none" /\ Free \notin Caller
    BY StoreAssumption DEF PlaneInit, None
  <2> QED BY <2>1, PlaneInitInv DEF ProgressInv, LockInHand, JobsProper, Proper, Doing
<1>2. ProgressInv /\ [PlaneNext]_planeVars => ProgressInv'
  BY ProgressStep
<1> QED BY <1>1, <1>2, PTL DEF PlaneSpec

\* Thread t's next step is possible: it has caches to write under its own lock,
\* or a write to make and the lock is free, or it only reads.
Ready(t) ==
    \/ Doing(t, "refresh") /\ lock = t /\ refresh.stage \in {"print", "flags"}
    \/ job[t].do \in Writes /\ lock = Free
    \/ job[t].do \in Reads

\* A thread with a request in hand can move, or waits for one that can.
Unstuck ==
    \A t \in Caller :
        job[t] # None => Ready(t) \/ (lock \in Caller \ {t} /\ Ready(lock))

(* Nobody waits for a lock that is not coming back.  The store's lock is    *)
(* held exactly by the thread that still has caches to write, and that      *)
(* thread's next step needs nothing else; so a thread with a request in     *)
(* hand either can take its next step or waits for one thread that can:     *)
(* no two handlers wait for each other, also across restarts.               *)
THEOREM NobodyStuck == PlaneSpec => []Unstuck
<1>1. ASSUME ProgressInv, NEW t \in Caller, job[t] # None
      PROVE  Ready(t) \/ (lock \in Caller \ {t} /\ Ready(lock))
  <2>1. ASSUME NEW u \in Caller, lock = u
        PROVE  Ready(u)
    <3>1. refresh # Idle /\ refresh \in Refresh \cup {Idle}
      BY <1>1, <2>1, StoreAssumption
         DEF ProgressInv, PlaneInv, StoreInv, StoreTypeOK, RefreshTrue
    <3>2. refresh.stage \in {"print", "flags"}
      BY <3>1 DEF Refresh
    <3> QED BY <1>1, <2>1, <3>2 DEF Ready, LockInHand, ProgressInv
  <2>2. lock \in Caller \cup {Free}
    BY <1>1 DEF ProgressInv, PlaneInv, StoreInv, StoreTypeOK
  <2>3. job[t].do \in Writes \cup Reads \/ Doing(t, "refresh")
    BY <1>1 DEF ProgressInv, JobsProper, Proper, Doing
  <2> QED BY <1>1, <2>1, <2>2, <2>3 DEF Ready, LockInHand, ProgressInv
<1>2. ProgressInv => Unstuck
  BY <1>1 DEF Unstuck
<1> QED BY <1>2, ProgressInvariant, PTL

(* No request runs for ever.  A thread never has more than six steps left,  *)
(* and none exactly when its request is done; its own steps bring that      *)
(* number down, and nothing the other threads, new requests or a restart do *)
(* brings it up: no chain of store calls loops or is sent back.             *)
THEOREM ChainsEnd ==
    PlaneSpec => /\ [](\A t \in Caller : Work(t) \in 0..6 /\ (Work(t) = 0 <=> job[t] = None))
                 /\ [][Shortens]_planeVars
<1>1. ProgressInv => \A t \in Caller : Work(t) \in 0..6 /\ (Work(t) = 0 <=> job[t] = None)
  BY WorkType
<1>2. ProgressInv /\ [PlaneNext]_planeVars => [Shortens]_planeVars
  BY ProgressStep
<1> QED BY <1>1, <1>2, ProgressInvariant, PTL DEF PlaneSpec
=============================================================================
