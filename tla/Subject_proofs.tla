----------------------------- MODULE Subject_proofs -----------------------------
(***************************************************************************)
(* Theorems of the two parts a data subject faces: the sign-in (SignIn)    *)
(* and what is mailed and listed (SubjectInbox).                           *)
(***************************************************************************)
EXTENDS SignIn, SubjectInbox, FiniteSetTheorems, TLAPS

(***************************************************************************)
(* SignIn, for any tabs, accounts and lifetimes, and any number of flows   *)
(* and restarts.                                                           *)
(*                                                                         *)
(* A flow that waits at Google either still matches the state cookie or    *)
(* has met what took the cookie away, and once overtaken it never matches  *)
(* again, as states only grow.  The session cookie is the one the last     *)
(* sign-in set, or gone with the logout since.                             *)
(***************************************************************************)

StateCookie == [value : Nat, exp : Nat]
SessionCookie == [email : Emails, exp : Nat, key : Nat]
Places == {"idle", "google", "exchange", "mismatch", "declined", "home", "failed"}

SignInTypes ==
  /\ clock \in Nat /\ configured \in BOOLEAN /\ boot \in Nat /\ logins \in Nat
  /\ jar \in [state : StateCookie \cup {None}, session : SessionCookie \cup {None}]
  /\ tab \in [Tabs -> [at : Places, state : Nat, email : Emails \cup {None}]]
  /\ met \in [Tabs -> [login : BOOLEAN, callback : BOOLEAN, expired : BOOLEAN]]
  /\ last \in [email : Emails \cup {None}, time : Nat, boot : Nat, out : BOOLEAN]
  /\ \A t \in Tabs : tab[t].at = "exchange" => tab[t].email \in Emails
  /\ ~last.out => last.email \in Emails

\* The session cookie is what the last sign-in left of it.
CookieInv ==
  jar.session = IF last.out THEN None
                ELSE [email |-> last.email, exp |-> last.time + SessionTTL,
                      key |-> IF configured THEN 0 ELSE last.boot]

HasMet(t) == met[t].login \/ met[t].callback \/ met[t].expired

\* No state is younger than the last one handed out.
StatesGrow ==
  /\ jar.state # None => jar.state.value <= logins
  /\ \A t \in Tabs : tab[t].state <= logins
  /\ \A t, u \in Tabs : InFlow(t) /\ InFlow(u) /\ t # u => tab[t].state # tab[u].state

\* A flow that waits matches the cookie unless it met another; one that was
\* overtaken by a login waits for a state older than the cookie's.
WaitsFor(t) ==
  /\ tab[t].at = "google" =>
       /\ StateMatches(t) \/ HasMet(t)
       /\ met[t].login /\ jar.state # None => tab[t].state < jar.state.value
  /\ tab[t].at = "mismatch" => HasMet(t)
  /\ tab[t].at = "exchange" => ~met[t].login

SignInInv == SignInTypes /\ CookieInv /\ StatesGrow /\ \A t \in Tabs : WaitsFor(t)

LEMMA InitSignIn == SignInInit => SignInInv
<1> SUFFICES ASSUME SignInInit PROVE SignInInv
  OBVIOUS
<1>1. SignInTypes
  BY DEF SignInInit, SignInTypes, Idle, NothingMet, Places
<1>2. CookieInv /\ StatesGrow
  BY DEF SignInInit, CookieInv, StatesGrow, Idle, InFlow
<1>3. \A t \in Tabs : WaitsFor(t)
  BY DEF SignInInit, WaitsFor, Idle
<1> QED BY <1>1, <1>2, <1>3 DEF SignInInv

LEMMA LoginStep ==
  ASSUME SignInInv, NEW t \in Tabs, Login(t)
  PROVE  SignInInv'
<1> USE SignInAssumption DEF SignInInv
<1>1. /\ logins' = logins + 1 /\ logins \in Nat
      /\ jar'.state = [value |-> logins + 1, exp |-> clock + StateTTL]
      /\ jar'.state # None /\ jar'.session = jar.session
      /\ tab'[t] = [at |-> "google", state |-> logins + 1, email |-> None]
      /\ \A u \in Tabs \ {t} : tab'[u] = tab[u]
  BY DEF Login, SignInTypes, StateCookie
<1>2. /\ met'[t] = NothingMet
      /\ \A u \in Tabs \ {t} : IF tab[u].at = "google" THEN met'[u] = [met[u] EXCEPT !.login = TRUE]
                               ELSE met'[u] = met[u]
  BY DEF Login
<1>3. SignInTypes'
  <2>1. jar' \in [state : StateCookie \cup {None}, session : SessionCookie \cup {None}]
    BY DEF Login, SignInTypes, StateCookie
  <2>2. tab' \in [Tabs -> [at : Places, state : Nat, email : Emails \cup {None}]]
    BY DEF Login, SignInTypes, Places
  <2>3. met' \in [Tabs -> [login : BOOLEAN, callback : BOOLEAN, expired : BOOLEAN]]
    BY DEF Login, SignInTypes, NothingMet
  <2>4. \A u \in Tabs : tab'[u].at = "exchange" => tab'[u].email \in Emails
    BY <1>1 DEF SignInTypes
  <2> QED BY <1>1, <2>1, <2>2, <2>3, <2>4 DEF Login, SignInTypes
<1>4. CookieInv'
  BY <1>1 DEF Login, CookieInv
<1>5. StatesGrow'
  <2>1. jar'.state.value <= logins'
    BY <1>1
  <2>2. \A u \in Tabs : tab'[u].state <= logins' /\ (u # t => tab'[u].state < logins + 1)
    BY <1>1 DEF StatesGrow, SignInTypes
  <2>3. tab'[t].state = logins + 1
    BY <1>1
  <2>4. ASSUME NEW u \in Tabs, NEW v \in Tabs, InFlow(u)', InFlow(v)', u # v
        PROVE  tab'[u].state # tab'[v].state
    <3>1. CASE u # t /\ v # t
      BY <1>1, <2>4, <3>1 DEF StatesGrow, InFlow
    <3>2. CASE u = t \/ v = t
      BY <1>1, <2>2, <2>3, <2>4, <3>2
    <3> QED BY <3>1, <3>2
  <2> QED BY <2>1, <2>2, <2>4 DEF StatesGrow
<1>6. ASSUME NEW u \in Tabs PROVE WaitsFor(u)'
  <2>1. CASE u = t
    BY <1>1, <1>2, <2>1 DEF WaitsFor, StateMatches, NothingMet
  <2>2. CASE u # t
    <3>1. /\ tab'[u] = tab[u] /\ tab[u].state \in Nat /\ tab[u].state <= logins
          /\ met[u] \in [login : BOOLEAN, callback : BOOLEAN, expired : BOOLEAN]
      BY <1>1, <2>2 DEF StatesGrow, SignInTypes
    <3>2. tab[u].at = "google" => met'[u].login /\ tab[u].state < jar'.state.value
      <4>1. SUFFICES ASSUME tab[u].at = "google" PROVE met'[u].login /\ tab[u].state < jar'.state.value
        OBVIOUS
      <4>2. met'[u] = [met[u] EXCEPT !.login = TRUE]
        BY <1>2, <2>2, <4>1
      <4>3. jar'.state.value = logins + 1
        BY <1>1
      <4> QED BY <1>1, <3>1, <4>2, <4>3
    <3>3. tab[u].at # "google" => met'[u] = met[u]
      BY <1>2, <2>2
    <3> QED BY <3>1, <3>2, <3>3 DEF WaitsFor, HasMet
  <2> QED BY <2>1, <2>2
<1> QED BY <1>3, <1>4, <1>5, <1>6

LEMMA ReturnStep ==
  ASSUME SignInInv, NEW t \in Tabs, Return(t)
  PROVE  SignInInv'
<1> USE DEF SignInInv
<1> DEFINE Returned ==
      /\ tab[t].at = "google"
      /\ tab' \in [Tabs -> [at : Places, state : Nat, email : Emails \cup {None}]]
      /\ \A u \in Tabs \ {t} : tab'[u] = tab[u]
      /\ tab'[t].state = tab[t].state
      /\ \/ ~StateMatches(t) /\ tab'[t].at = "mismatch"
         \/ StateMatches(t) /\ tab'[t].at = "declined"
         \/ StateMatches(t) /\ tab'[t].at = "exchange" /\ tab'[t].email \in Emails
<1>1. Returned
  <2>1. tab[t].at = "google" /\ tab \in [Tabs -> [at : Places, state : Nat, email : Emails \cup {None}]]
    BY DEF Return, SignInTypes
  <2>2. CASE ~StateMatches(t) /\ tab' = [tab EXCEPT ![t].at = "mismatch"]
    BY <2>1, <2>2 DEF Places
  <2>3. CASE StateMatches(t) /\ tab' = [tab EXCEPT ![t].at = "declined"]
    BY <2>1, <2>3 DEF Places
  <2>4. ASSUME NEW e \in Emails, StateMatches(t),
               tab' = [tab EXCEPT ![t].at = "exchange", ![t].email = e]
        PROVE  Returned
    BY <2>1, <2>4 DEF Places
  <2> QED BY <2>2, <2>3, <2>4 DEF Return
<1>2. UNCHANGED <<clock, configured, boot, jar, logins, met, last>>
  BY DEF Return
<1>3. SignInTypes'
  BY <1>1, <1>2 DEF SignInTypes
<1>4. CookieInv'
  BY <1>2 DEF CookieInv
<1>5. StatesGrow'
  BY <1>1, <1>2 DEF StatesGrow, InFlow
<1>6. WaitsFor(t)'
  BY <1>1, <1>2 DEF WaitsFor, HasMet, StateMatches, SignInTypes, StateCookie
<1>7. \A u \in Tabs \ {t} : WaitsFor(u)'
  BY <1>1, <1>2 DEF WaitsFor, HasMet, StateMatches
<1> QED BY <1>3, <1>4, <1>5, <1>6, <1>7

LEMMA SignedInStep ==
  ASSUME SignInInv, NEW t \in Tabs, SignedIn(t)
  PROVE  SignInInv'
<1> USE SignInAssumption DEF SignInInv
<1>1. /\ jar'.state = None
      /\ jar'.session = [email |-> tab[t].email, exp |-> clock + SessionTTL, key |-> Secret]
      /\ tab[t].at = "exchange" /\ tab'[t].at = "home" /\ tab'[t].state = tab[t].state
      /\ \A u \in Tabs \ {t} : tab'[u] = tab[u]
      /\ last' = [email |-> tab[t].email, time |-> clock, boot |-> boot, out |-> FALSE]
      /\ UNCHANGED <<clock, configured, boot, logins>>
  BY DEF SignedIn, SignInTypes
<1>2. /\ met'[t] = met[t]
      /\ \A u \in Tabs \ {t} : IF tab[u].at = "google" THEN met'[u] = [met[u] EXCEPT !.callback = TRUE]
                               ELSE met'[u] = met[u]
  BY DEF SignedIn, Meets
<1>3. SignInTypes'
  <2>1. jar' \in [state : StateCookie \cup {None}, session : SessionCookie \cup {None}]
    <3>1. Secret \in Nat /\ clock + SessionTTL \in Nat /\ tab[t].email \in Emails
      BY <1>1 DEF SignInTypes, Secret
    <3> QED BY <3>1 DEF SignedIn, SessionCookie
  <2>2. tab' \in [Tabs -> [at : Places, state : Nat, email : Emails \cup {None}]]
    BY DEF SignedIn, SignInTypes, Places
  <2>3. met' \in [Tabs -> [login : BOOLEAN, callback : BOOLEAN, expired : BOOLEAN]]
    BY DEF SignedIn, Meets, SignInTypes
  <2>4. \A u \in Tabs : tab'[u].at = "exchange" => tab'[u].email \in Emails
    BY <1>1 DEF SignInTypes
  <2> QED BY <1>1, <2>1, <2>2, <2>3, <2>4 DEF SignInTypes
<1>4. CookieInv'
  BY <1>1 DEF CookieInv, Secret
<1>5. StatesGrow'
  BY <1>1 DEF StatesGrow, InFlow
<1>6. ASSUME NEW u \in Tabs PROVE WaitsFor(u)'
  <2>1. CASE u = t
    BY <1>1, <2>1 DEF WaitsFor
  <2>2. CASE u # t
    <3>1. /\ tab'[u] = tab[u] /\ jar'.state = None
          /\ met[u] \in [login : BOOLEAN, callback : BOOLEAN, expired : BOOLEAN]
      BY <1>1, <2>2 DEF SignInTypes
    <3>2. tab[u].at = "google" => met'[u].callback
      BY <1>2, <2>2, <3>1
    <3>3. tab[u].at # "google" => met'[u] = met[u]
      BY <1>2, <2>2
    <3> QED BY <3>1, <3>2, <3>3 DEF WaitsFor, HasMet
  <2> QED BY <2>1, <2>2
<1> QED BY <1>3, <1>4, <1>5, <1>6

LEMMA TickStep ==
  ASSUME SignInInv, Tick
  PROVE  SignInInv'
<1> USE DEF SignInInv
<1> DEFINE old == jar.state # None /\ jar.state.exp < clock + 1
<1>1. /\ clock' = clock + 1 /\ UNCHANGED <<configured, boot, tab, logins, last>>
      /\ jar'.session = jar.session
      /\ jar'.state = IF old THEN None ELSE jar.state
      /\ \A u \in Tabs : IF old /\ tab[u].at = "google" THEN met'[u] = [met[u] EXCEPT !.expired = TRUE]
                         ELSE met'[u] = met[u]
  BY DEF Tick, SignInTypes
<1>2. SignInTypes'
  <2>1. jar' \in [state : StateCookie \cup {None}, session : SessionCookie \cup {None}]
    BY DEF Tick, SignInTypes
  <2>2. met' \in [Tabs -> [login : BOOLEAN, callback : BOOLEAN, expired : BOOLEAN]]
    BY DEF Tick, SignInTypes
  <2> QED BY <1>1, <2>1, <2>2 DEF SignInTypes
<1>3. CookieInv' /\ StatesGrow'
  BY <1>1 DEF CookieInv, StatesGrow, InFlow
<1>4. ASSUME NEW u \in Tabs PROVE WaitsFor(u)'
  <2>1. tab'[u] = tab[u] /\ met[u] \in [login : BOOLEAN, callback : BOOLEAN, expired : BOOLEAN]
    BY <1>1 DEF SignInTypes
  <2>2. CASE old /\ tab[u].at = "google"
    BY <1>1, <2>1, <2>2 DEF WaitsFor, HasMet
  <2>3. CASE ~(old /\ tab[u].at = "google")
    BY <1>1, <2>1, <2>3 DEF WaitsFor, HasMet, StateMatches
  <2> QED BY <2>2, <2>3
<1> QED BY <1>2, <1>3, <1>4

\* A failed exchange, a logout and a restart leave the state cookie and what
\* the waiting flows met alone.
LEMMA EndStep ==
  ASSUME SignInInv, (\E t \in Tabs : Fails(t)) \/ Logout \/ Restart
  PROVE  SignInInv'
<1> USE DEF SignInInv
<1>1. /\ UNCHANGED <<clock, configured, logins, met>> /\ jar'.state = jar.state
      /\ \A u \in Tabs : tab'[u] = tab[u] \/ (tab'[u].at \in {"idle", "failed"} /\ tab'[u].state <= logins)
  BY DEF Fails, Logout, Restart, SignInTypes, StatesGrow, Idle
<1>2. SignInTypes'
  <2>1. CASE \E t \in Tabs : Fails(t)
    BY <2>1 DEF Fails, SignInTypes, Places
  <2>2. CASE Logout
    BY <2>2 DEF Logout, SignInTypes
  <2>3. CASE Restart
    BY <2>3 DEF Restart, SignInTypes, Idle, Places
  <2> QED BY <2>1, <2>2, <2>3
<1>3. CookieInv'
  <2>1. CASE Logout
    BY <2>1 DEF Logout, CookieInv, SignInTypes
  <2>2. CASE (\E t \in Tabs : Fails(t)) \/ Restart
    BY <2>2 DEF Fails, Restart, CookieInv
  <2> QED BY <2>1, <2>2
<1>4. StatesGrow'
  BY <1>1 DEF StatesGrow, InFlow
<1>5. ASSUME NEW u \in Tabs PROVE WaitsFor(u)'
  BY <1>1 DEF WaitsFor, HasMet, StateMatches
<1> QED BY <1>2, <1>3, <1>4, <1>5

LEMMA NextSignIn == SignInInv /\ [SignInNext]_signInVars => SignInInv'
<1> SUFFICES ASSUME SignInInv, [SignInNext]_signInVars PROVE SignInInv'
  OBVIOUS
<1>1. CASE SignInNext
  BY <1>1, LoginStep, ReturnStep, SignedInStep, TickStep, EndStep DEF SignInNext
<1>2. CASE UNCHANGED signInVars
  BY <1>2 DEF signInVars, SignInInv, SignInTypes, CookieInv, StatesGrow, InFlow, WaitsFor,
       HasMet, StateMatches
<1> QED BY <1>1, <1>2

\* consent_api.callback never refuses a flow that was alone: one whose state
\* does not match met another flow's login or answer, or came too late.
THEOREM RefusalsAreMet == SignInSpec => []RefusedOnlyIfMet
<1>1. SignInInv => RefusedOnlyIfMet
  BY DEF SignInInv, WaitsFor, HasMet, RefusedOnlyIfMet
<1> QED BY InitSignIn, NextSignIn, <1>1, PTL DEF SignInSpec

\* The callback that goes on to ask Google belongs to the newest login of its
\* moment, and no two of them share a state.
THEOREM NewestPasses == SignInSpec => []OnlyNewestPasses
<1>1. SignInInv => OnlyNewestPasses
  BY DEF SignInInv, WaitsFor, StatesGrow, InFlow, OnlyNewestPasses
<1> QED BY InitSignIn, NextSignIn, <1>1, PTL DEF SignInSpec

\* auth.SessionManager.verify answers who signed in last, for as long as the
\* cookie, its key and no logout say.
THEOREM SessionsMeanSignIn == SignInSpec => []SessionMeansSignIn
<1>1. SignInInv => SessionMeansSignIn
  <2> SUFFICES ASSUME SignInInv PROVE SessionMeansSignIn
    OBVIOUS
  <2>1. CASE last.out
    BY <2>1 DEF SignInInv, CookieInv, SessionMeansSignIn, CurrentUser, Verify
  <2>2. CASE ~last.out
    <3>1. jar.session # None
      <4>1. last.email \in Emails /\ last.time + SessionTTL \in Nat /\ last.boot \in Nat
        BY <2>2, SignInAssumption DEF SignInInv, SignInTypes
      <4>2. jar.session \in SessionCookie
        BY <2>2, <4>1 DEF SignInInv, CookieInv, SessionCookie
      <4> QED BY <4>2, SignInAssumption DEF SessionCookie
    <3>2. /\ jar.session.email = last.email /\ jar.session.exp = last.time + SessionTTL
          /\ jar.session.key = Secret <=> configured \/ last.boot = boot
      BY <2>2 DEF SignInInv, SignInTypes, CookieInv, Secret
    <3>3. last.time + SessionTTL >= clock <=> clock <= last.time + SessionTTL
      BY SignInAssumption DEF SignInInv, SignInTypes
    <3> QED BY <2>2, <3>1, <3>2, <3>3 DEF SessionMeansSignIn, CurrentUser, Verify
  <2> QED BY <2>1, <2>2 DEF SignInInv, SignInTypes
<1> QED BY InitSignIn, NextSignIn, <1>1, PTL DEF SignInSpec

-----------------------------------------------------------------------------
(***************************************************************************)
(* SubjectInbox, for any people, voiceprints, limit and number of requests *)
(* and restarts.                                                           *)
(*                                                                         *)
(* What a mail or a receipt will say is fixed in a job some steps before   *)
(* it leaves, so the invariant says of the jobs what the properties say of *)
(* the mails and receipts, and the tables only grow.                       *)
(***************************************************************************)

Threads == {EventLoop, Worker}
Row == [owner : Address \cup {NoOwner}, identify : BOOLEAN]
Receipt == [vid : Vid, owner : Address, row : Nat]
Status == {"none", "pending", "confirmed", "denied"}

TablesOK ==
  /\ rows \in [Vid -> Row \cup {NoRow}]
  /\ proposals \in [Vid -> [Address -> Status]]
  /\ recognitions \in Seq([vid : Vid, owner : Address])
  /\ forgets \in Seq([vid : Vid, by : People])
  /\ receipts \subseteq Receipt
  /\ job = [t \in Threads |-> job[t]]

\* Whoever takes a tag off its person's pending list is that person, or a
\* caller that binds the person's address.
SettledOK ==
  \A v \in Vid, p \in People :
    proposals[v][Session(p)] \in {"confirmed", "denied"} => SettledFor(v, p)

\* A mail about a tag is backed by a tag of its reader's, one about a
\* recognition by a row of its reader's.
Speaks(m) ==
  /\ m.vid \in Vid /\ m.to \in Address
  /\ IF m.about = "tag" THEN proposals[m.vid][Session(m.to.who)] # "none"
     ELSE m.rid \in DOMAIN recognitions /\ recognitions[m.rid].owner = Session(m.to.who)

\* r is the receipt of a forget that p asked for.
Attests(r, p) ==
  /\ r \in Receipt /\ p \in People /\ r.owner = Session(p)
  /\ r.row \in DOMAIN forgets /\ forgets[r.row] = [vid |-> r.vid, by |-> p]

\* What the jobs carry of what will be written, mailed or handed out.
TagMail == [do : {"mail"}, to : Address, vid : Vid, about : {"tag"}]
RecognitionMail == [do : {"mail"}, to : Address, vid : Vid, about : {"recognition"}, rid : Nat]
LoopCarries(j) ==
  /\ j.do = "upsert" => j.vid \in Vid /\ j.row \in Row
  /\ j.do = "record" => j.vid \in Vid /\ j.owner \in Address
  /\ j.do = "mail" => j \in TagMail \cup RecognitionMail /\ Speaks(j)
WorkerCarries(j) ==
  /\ j.do = "delete" => j.vid \in Vid /\ j.who \in People
  /\ j.do = "receipt" =>
       /\ j \in [do : {"receipt"}, who : People, receipt : Receipt]
       /\ Attests(j.receipt, j.who) /\ \A r \in receipts : r.row # j.receipt.row
  /\ j.do = "hand" => j.receipt \in receipts /\ Attests(j.receipt, j.who)
BindJob == [do : {"load", "claim", "confirm"}, vid : Vid, email : Address, by : People \cup {Nobody}]
Binds(j) == j.do \in {"load", "claim", "confirm"} =>
  j \in BindJob /\ \A p \in People : j.email = Session(p) => j.by \in {p, Nobody}

JobsOK ==
  /\ LoopCarries(job[EventLoop]) /\ WorkerCarries(job[Worker])
  /\ \A t \in Threads : Binds(job[t])

\* What has been told is backed, and every receipt has a forget of its own.
ToldOK ==
  /\ \A m \in mails : Speaks(m)
  /\ \A h \in handed : h.receipt \in receipts /\ Attests(h.receipt, h.to)
  /\ \A r \in receipts : r.row \in DOMAIN forgets
  /\ \A r, s \in receipts : r.row = s.row => r = s

InboxInv == TablesOK /\ SettledOK /\ JobsOK /\ ToldOK

\* No tag is taken back, and the tables of what happened only grow.
TablesGrow ==
  /\ \A v \in Vid, a \in Address : proposals[v][a] # "none" => proposals'[v][a] # "none"
  /\ \A i \in DOMAIN recognitions : i \in DOMAIN recognitions' /\ recognitions'[i] = recognitions[i]
  /\ \A i \in DOMAIN forgets : i \in DOMAIN forgets' /\ forgets'[i] = forgets[i]
  /\ receipts \subseteq receipts'

\* Addresses: a mail goes to a person, a list is that person's.
LEMMA Spelling ==
  /\ \A p \in People : Session(p) \in Address /\ Session(p).who = p /\ lower(Session(p)) = Session(p)
  /\ \A a \in Address : a.who \in People /\ lower(a) \in Address /\ lower(a) = Session(a.who)
BY DEF Session, Address, lower

LEMMA InitInbox == Init => InboxInv
<1> SUFFICES ASSUME Init PROVE InboxInv
  OBVIOUS
<1>1. TablesOK
  BY DEF Init, TablesOK, Status, Threads
<1>2. JobsOK
  BY DEF Init, JobsOK, Threads, NoJob, LoopCarries, WorkerCarries, Binds
<1>3. ToldOK /\ SettledOK
  BY Spelling DEF Init, ToldOK, SettledOK
<1> QED BY <1>1, <1>2, <1>3 DEF InboxInv

LEMMA SpeaksOn ==
  ASSUME TablesGrow, NEW m, Speaks(m)
  PROVE  Speaks(m)'
BY Spelling DEF TablesGrow, Speaks

LEMMA AttestsOn ==
  ASSUME TablesGrow, NEW r, NEW p, Attests(r, p)
  PROVE  Attests(r, p)'
BY DEF TablesGrow, Attests

\* A thread that takes no step keeps what it carries.
LEMMA OthersCarry ==
  ASSUME InboxInv, TablesGrow
  PROVE  /\ job'[EventLoop] = job[EventLoop] =>
              LoopCarries(job[EventLoop])' /\ Binds(job[EventLoop])'
         /\ job'[Worker] = job[Worker] /\ receipts' = receipts =>
              WorkerCarries(job[Worker])' /\ Binds(job[Worker])'
<1>1. ASSUME job'[EventLoop] = job[EventLoop] PROVE LoopCarries(job[EventLoop])'
  BY <1>1, SpeaksOn DEF InboxInv, JobsOK, LoopCarries
<1>2. ASSUME job'[Worker] = job[Worker], receipts' = receipts PROVE WorkerCarries(job[Worker])'
  BY <1>2, AttestsOn DEF InboxInv, JobsOK, WorkerCarries
<1>3. ASSUME NEW t \in Threads, job'[t] = job[t] PROVE Binds(job[t])'
  BY <1>3 DEF InboxInv, JobsOK, Binds
<1> QED BY <1>1, <1>2, <1>3 DEF Threads

\* What was told stays backed while no mail, receipt or forget is added.
LEMMA ToldStays ==
  ASSUME InboxInv, TablesGrow, mails' = mails, handed' = handed, receipts' = receipts
  PROVE  ToldOK'
<1>1. \A m \in mails : Speaks(m)'
  BY SpeaksOn DEF InboxInv, ToldOK
<1>2. \A h \in handed : h.receipt \in receipts' /\ Attests(h.receipt, h.to)'
  BY AttestsOn DEF InboxInv, ToldOK
<1>3. \A r \in receipts : r.row \in DOMAIN forgets'
  BY DEF InboxInv, ToldOK, TablesGrow
<1> QED BY <1>1, <1>2, <1>3 DEF InboxInv, ToldOK

\* A new job of t, the other's is kept.
LEMMA OneJob ==
  ASSUME TablesOK, NEW t \in Threads, NEW j, job' = [job EXCEPT ![t] = j]
  PROVE  /\ job'[t] = j /\ \A u \in Threads \ {t} : job'[u] = job[u]
         /\ job' = [u \in Threads |-> job'[u]]
BY DEF TablesOK

\* What was settled stays so while no tag is settled.
LEMMA SettledStays ==
  ASSUME SettledOK, UNCHANGED <<proposals, answers>>
  PROVE  SettledOK'
BY DEF SettledOK, SettledFor

\* A step of the event loop that tells nobody anything.
LEMMA LoopStep ==
  ASSUME InboxInv, TablesOK', TablesGrow, NEW j, job' = [job EXCEPT ![EventLoop] = j],
         mails' = mails, handed' = handed, receipts' = receipts,
         UNCHANGED <<proposals, answers>> \/ SettledOK', LoopCarries(j)', Binds(j)
  PROVE  InboxInv'
<1>1. job'[EventLoop] = j /\ job'[Worker] = job[Worker]
  BY OneJob, InboxAssumption DEF InboxInv, Threads
<1>2. JobsOK'
  BY <1>1, OthersCarry DEF JobsOK, Threads, Binds
<1> QED BY <1>2, ToldStays, SettledStays DEF InboxInv

\* A step of the worker that hands out nothing and adds no receipt.
LEMMA WorkerStep ==
  ASSUME InboxInv, TablesOK', TablesGrow, NEW j, job' = [job EXCEPT ![Worker] = j],
         mails' = mails, handed' = handed, receipts' = receipts,
         UNCHANGED <<proposals, answers>> \/ SettledOK', WorkerCarries(j)', Binds(j)
  PROVE  InboxInv'
<1>1. job'[Worker] = j /\ job'[EventLoop] = job[EventLoop]
  BY OneJob, InboxAssumption DEF InboxInv, Threads
<1>2. JobsOK'
  BY <1>1, OthersCarry DEF JobsOK, Threads, Binds
<1> QED BY <1>2, ToldStays, SettledStays DEF InboxInv

\* Most steps change none of the tables that grow.
LEMMA Unchanging ==
  ASSUME UNCHANGED <<proposals, recognitions, forgets, receipts>>
  PROVE  TablesGrow
BY DEF TablesGrow

LEMMA MintStep ==
  ASSUME InboxInv, NEW v \in Vid, Mint(v)
  PROVE  InboxInv'
<1>1. TablesGrow
  BY Unchanging DEF Mint
<1>2. TablesOK'
  BY OneJob DEF Mint, Accept, InboxInv, TablesOK, Row, Threads
<1>3. LoopCarries(NoJob)' /\ Binds(NoJob)
  BY DEF LoopCarries, Binds, NoJob
<1> QED BY <1>1, <1>2, <1>3, LoopStep DEF Mint, Accept, told

LEMMA EnrollStep ==
  ASSUME InboxInv, NEW v \in Vid, Enroll(v)
  PROVE  InboxInv'
<1>1. PICK row : row = IF rows[v] = NoRow THEN [owner |-> RosterId[v], identify |-> TRUE]
                       ELSE IF rows[v].owner = NoOwner THEN [rows[v] EXCEPT !.owner = RosterId[v]]
                       ELSE rows[v]
  OBVIOUS
<1> DEFINE j == [do |-> "upsert", vid |-> v, row |-> row]
<1>2. TablesGrow
  BY Unchanging DEF Enroll
<1>3. TablesOK' /\ job' = [job EXCEPT ![EventLoop] = j]
  BY <1>1, OneJob DEF Enroll, Accept, InboxInv, TablesOK, Threads
<1>4. row \in Row
  BY <1>1, InboxAssumption DEF InboxInv, TablesOK, Row
<1>5. LoopCarries(j)' /\ Binds(j)
  BY <1>4 DEF LoopCarries, Binds
<1> QED BY <1>2, <1>3, <1>5, LoopStep DEF Enroll, told

LEMMA UpsertStep ==
  ASSUME InboxInv, Upsert
  PROVE  InboxInv'
<1>1. TablesGrow
  BY Unchanging DEF Upsert
<1>2. TablesOK'
  BY OneJob DEF Upsert, Then, InboxInv, TablesOK, JobsOK, LoopCarries, Threads
<1>3. LoopCarries(NoJob)' /\ Binds(NoJob)
  BY DEF LoopCarries, Binds, NoJob
<1> QED BY <1>1, <1>2, <1>3, LoopStep DEF Upsert, Then, told

\* propose files a tag under its person's address, takes none back and settles
\* none.
LEMMA Proposed ==
  ASSUME TablesOK, SettledOK, NEW v \in Vid, NEW a \in Address, propose(v, filed(a)),
         answers' = answers
  PROVE  /\ proposals' \in [Vid -> [Address -> Status]]
         /\ proposals'[v][Session(a.who)] # "none"
         /\ \A w \in Vid, e \in Address : proposals[w][e] # "none" => proposals'[w][e] # "none"
         /\ SettledOK'
<1>1. filed(a) \in Address /\ filed(a) = Session(a.who)
  BY Spelling DEF filed
<1>2. /\ proposals' \in [Vid -> [Address -> Status]]
      /\ proposals'[v][filed(a)] # "none"
      /\ \A w \in Vid, e \in Address : proposals[w][e] # "none" => proposals'[w][e] # "none"
      /\ \A w \in Vid, e \in Address :
            proposals'[w][e] \in {"confirmed", "denied"} => proposals'[w][e] = proposals[w][e]
  BY <1>1 DEF TablesOK, propose, Status
<1>3. SettledOK'
  BY <1>2, Spelling DEF SettledOK, SettledFor
<1> QED BY <1>1, <1>2, <1>3

\* confirm_proposal on behalf of a caller is set out as it should be.
LEMMA CallersConfirm ==
  ASSUME NEW v \in Vid, NEW e \in Address
  PROVE  LET j == Confirming(v, e, Nobody)
         IN  Binds(j) /\ LoopCarries(j)'
BY DEF Confirming, Binds, BindJob, LoopCarries

LEMMA ProposeStep ==
  ASSUME InboxInv, NEW v \in Vid, NEW a \in Address, Propose(v, a)
  PROVE  InboxInv'
<1> DEFINE mail == [do |-> "mail", to |-> a, vid |-> v, about |-> "tag"]
<1>0. PICK j : j = IF proposals[v][filed(a)] = "confirmed" THEN Confirming(v, filed(a), Nobody)
                   ELSE mail
  OBVIOUS
<1>1. /\ proposals' \in [Vid -> [Address -> Status]] /\ proposals'[v][Session(a.who)] # "none"
      /\ \A w \in Vid, e \in Address : proposals[w][e] # "none" => proposals'[w][e] # "none"
      /\ SettledOK'
  BY Proposed DEF Propose, InboxInv, told
<1>2. TablesGrow
  BY <1>1 DEF Propose, TablesGrow
<1>3. TablesOK' /\ job' = [job EXCEPT ![EventLoop] = j]
  BY <1>0, <1>1, OneJob DEF Propose, Accept, InboxInv, TablesOK, Threads
<1>4. LoopCarries(mail)' /\ Binds(mail)
  BY <1>1 DEF LoopCarries, Binds, Speaks, TagMail
<1>5. filed(a) \in Address
  BY Spelling DEF filed
<1>6. LoopCarries(j)' /\ Binds(j)
  <2>1. CASE j = mail
    BY <1>4, <2>1
  <2>2. CASE j = Confirming(v, filed(a), Nobody)
    BY <1>5, <2>2, CallersConfirm
  <2> QED BY <1>0, <2>1, <2>2
<1> HIDE DEF mail
<1> QED BY <1>1, <1>2, <1>3, <1>6, LoopStep DEF Propose, told

LEMMA BindEmailStep ==
  ASSUME InboxInv, NEW v \in Vid, NEW a \in Address, BindEmail(v, a)
  PROVE  InboxInv'
<1>0. PICK j : j = Confirming(v, filed(a), Nobody)
  OBVIOUS
<1>1. /\ proposals' \in [Vid -> [Address -> Status]]
      /\ \A w \in Vid, e \in Address : proposals[w][e] # "none" => proposals'[w][e] # "none"
      /\ SettledOK'
  BY Proposed DEF BindEmail, InboxInv, told
<1>2. TablesGrow
  BY <1>1 DEF BindEmail, TablesGrow
<1>3. TablesOK' /\ job' = [job EXCEPT ![EventLoop] = j]
  BY <1>0, <1>1, OneJob DEF BindEmail, Accept, InboxInv, TablesOK, Threads
<1>4. filed(a) \in Address
  BY Spelling DEF filed
<1>5. LoopCarries(j)' /\ Binds(j)
  BY <1>0, <1>4, CallersConfirm
<1> QED BY <1>1, <1>2, <1>3, <1>5, LoopStep DEF BindEmail, told

LEMMA RecognizeStep ==
  ASSUME InboxInv, NEW v \in Vid, Recognize(v)
  PROVE  InboxInv'
<1>0. PICK j : j = [do |-> "record", vid |-> v, owner |-> rows[v].owner]
  OBVIOUS
<1>1. TablesGrow
  BY Unchanging DEF Recognize
<1>2. TablesOK' /\ job' = [job EXCEPT ![EventLoop] = j]
  BY <1>0, OneJob DEF Recognize, Accept, InboxInv, TablesOK, Threads
<1>3. rows[v].owner \in Address
  BY DEF Recognize, InboxInv, TablesOK, Row
<1>4. LoopCarries(j)' /\ Binds(j)
  BY <1>0, <1>3 DEF LoopCarries, Binds
<1> QED BY <1>1, <1>2, <1>4, LoopStep DEF Recognize, told

LEMMA RecordStep ==
  ASSUME InboxInv, Record
  PROVE  InboxInv'
<1>1. PICK old, n : old = job[EventLoop] /\ n = Len(recognitions)
  OBVIOUS
<1> DEFINE entry == [vid |-> old.vid, owner |-> lower(old.owner)]
           j == [do |-> "mail", to |-> old.owner, vid |-> old.vid, about |-> "recognition",
                 rid |-> n + 1]
<1>2. old.vid \in Vid /\ old.owner \in Address
  BY <1>1 DEF Record, InboxInv, JobsOK, LoopCarries
<1>3. /\ recognitions' = Append(recognitions, entry) /\ job' = [job EXCEPT ![EventLoop] = j]
      /\ UNCHANGED <<rows, proposals, forgets, receipts, answers, mails, handed>>
  BY <1>1 DEF Record, Then, told
<1>4. entry \in [vid : Vid, owner : Address] /\ entry.owner = Session(old.owner.who)
  BY <1>2, Spelling
<1> HIDE DEF entry
<1>5. /\ recognitions' \in Seq([vid : Vid, owner : Address]) /\ n \in Nat
      /\ n + 1 \in DOMAIN recognitions' /\ recognitions'[n + 1] = entry
      /\ \A i \in DOMAIN recognitions : i \in DOMAIN recognitions' /\ recognitions'[i] = recognitions[i]
  BY <1>1, <1>3, <1>4 DEF InboxInv, TablesOK
<1>6. TablesGrow
  BY <1>3, <1>5 DEF TablesGrow
<1>7. TablesOK'
  BY <1>3, <1>5, OneJob DEF InboxInv, TablesOK, Threads
<1>8. j \in RecognitionMail /\ Speaks(j)'
  BY <1>2, <1>4, <1>5 DEF RecognitionMail, Speaks
<1>9. LoopCarries(j)' /\ Binds(j)
  BY <1>8 DEF LoopCarries, Binds
<1> HIDE DEF j
<1> QED BY <1>3, <1>6, <1>7, <1>9, LoopStep

\* A mail that goes out says what its job carried.
LEMMA NotifyStep ==
  ASSUME InboxInv, Notify
  PROVE  InboxInv'
<1> DEFINE j == job[EventLoop]
           mail == [j EXCEPT !.do = "mailed"]
<1>1. /\ TablesGrow /\ UNCHANGED <<rows, proposals, recognitions, forgets, receipts, answers, handed>>
      /\ job' = [job EXCEPT ![EventLoop] = NoJob]
      /\ mails' \subseteq mails \cup {mail}
  BY Unchanging DEF Notify, Then
<1>2. TablesOK' /\ job'[EventLoop] = NoJob /\ job'[Worker] = job[Worker]
  BY <1>1, OneJob, InboxAssumption DEF InboxInv, TablesOK, Threads
<1>3. JobsOK'
  <2>1. LoopCarries(job[EventLoop])' /\ Binds(job[EventLoop])'
    BY <1>2 DEF LoopCarries, Binds, NoJob
  <2> QED BY <1>1, <1>2, <2>1, OthersCarry DEF JobsOK, Threads
<1>4. Speaks(mail)
  <2>1. j \in TagMail \cup RecognitionMail /\ Speaks(j)
    BY DEF Notify, InboxInv, JobsOK, LoopCarries
  <2>2. mail.vid = j.vid /\ mail.to = j.to /\ mail.about = j.about
        /\ (j.about # "tag" => mail.rid = j.rid)
    BY <2>1 DEF TagMail, RecognitionMail
  <2> QED BY <2>1, <2>2 DEF Speaks
<1>5. ToldOK'
  <2>1. \A m \in mails' : Speaks(m)'
    BY <1>1, <1>4, SpeaksOn DEF InboxInv, ToldOK
  <2> QED BY <1>1, <2>1 DEF InboxInv, ToldOK, Attests
<1> QED BY <1>1, <1>2, <1>3, <1>5, SettledStays DEF InboxInv

\* A tag is settled by its person, or by a caller.
LEMMA Settling ==
  ASSUME TablesOK, SettledOK, NEW v \in Vid, NEW e \in Address, NEW st \in {"confirmed", "denied"},
         NEW by, Settle(v, e, st, by), \A p \in People : e = Session(p) => by \in {p, Nobody}
  PROVE  /\ proposals' \in [Vid -> [Address -> Status]]
         /\ \A w \in Vid, a \in Address : proposals[w][a] # "none" => proposals'[w][a] # "none"
         /\ SettledOK'
<1>1. /\ proposals' \in [Vid -> [Address -> Status]]
      /\ \A w \in Vid, a \in Address : proposals[w][a] # "none" => proposals'[w][a] # "none"
      /\ \A w \in Vid, a \in Address : <<w, a>> # <<v, e>> => proposals'[w][a] = proposals[w][a]
  BY DEF TablesOK, Settle, Status
<1> DEFINE new == [vid |-> v, email |-> e, by |-> by]
<1>2. answers' = answers \cup {new} /\ new.vid = v /\ new.email = e /\ new.by = by
  BY DEF Settle
<1> HIDE DEF new
<1>3. SettledOK'
  <2> SUFFICES ASSUME NEW w \in Vid, NEW p \in People,
                      proposals'[w][Session(p)] \in {"confirmed", "denied"}
               PROVE  SettledFor(w, p)'
    BY DEF SettledOK
  <2>1. CASE w = v /\ Session(p) = e
    BY <1>2, <2>1 DEF SettledFor
  <2>2. CASE ~(w = v /\ Session(p) = e)
    BY <1>1, <1>2, <2>2, Spelling DEF SettledOK, SettledFor
  <2> QED BY <2>1, <2>2
<1> QED BY <1>1, <1>3

\* confirm_proposal, on the thread of its caller.
LEMMA BindingStep ==
  ASSUME InboxInv, NEW t \in Threads, LoadProposal(t) \/ Claim(t) \/ MarkConfirmed(t)
  PROVE  InboxInv'
<1>1. PICK j : j = job[t]
  OBVIOUS
<1>2. /\ j \in BindJob /\ \A p \in People : j.email = Session(p) => j.by \in {p, Nobody}
      /\ j.vid \in Vid /\ j.email \in Address
  BY <1>1 DEF LoadProposal, Claim, MarkConfirmed, InboxInv, JobsOK, Binds, BindJob
<1>3. PICK k : /\ job' = [job EXCEPT ![t] = k]
               /\ k = NoJob \/ (k \in BindJob /\ k.email = j.email /\ k.by = j.by)
  <2>1. ASSUME NEW d \in {"claim", "confirm"}
        PROVE  LET x == [j EXCEPT !.do = d] IN x \in BindJob /\ x.email = j.email /\ x.by = j.by
    BY <1>2 DEF BindJob
  <2>2. CASE LoadProposal(t)
    BY <1>1, <2>1, <2>2 DEF LoadProposal, Then
  <2>3. CASE Claim(t)
    BY <1>1, <2>1, <2>3 DEF Claim, Then
  <2>4. CASE MarkConfirmed(t)
    BY <2>4 DEF MarkConfirmed, Then
  <2> QED BY <2>2, <2>3, <2>4
<1>4. UNCHANGED <<recognitions, forgets, receipts, mails, handed>>
  BY DEF LoadProposal, Claim, MarkConfirmed, told
<1>5. /\ proposals' \in [Vid -> [Address -> Status]]
      /\ \A v \in Vid, a \in Address : proposals[v][a] # "none" => proposals'[v][a] # "none"
      /\ SettledOK'
  <2>1. CASE LoadProposal(t) \/ Claim(t)
    BY <2>1, SettledStays DEF LoadProposal, Claim, told, InboxInv, TablesOK
  <2>2. CASE MarkConfirmed(t)
    BY <1>1, <1>2, <2>2, Settling DEF MarkConfirmed, InboxInv
  <2> QED BY <2>1, <2>2
<1>6. rows' \in [Vid -> Row \cup {NoRow}]
  <2>1. CASE Claim(t)
    <3>1. rows' = IF rows[j.vid] = NoRow THEN rows
                  ELSE [rows EXCEPT ![j.vid].owner = j.email]
      BY <1>1, <2>1 DEF Claim
    <3> QED BY <1>2, <3>1 DEF InboxInv, TablesOK, Row
  <2>2. CASE LoadProposal(t) \/ MarkConfirmed(t)
    BY <2>2 DEF LoadProposal, MarkConfirmed, InboxInv, TablesOK
  <2> QED BY <2>1, <2>2
<1>7. TablesGrow
  BY <1>4, <1>5 DEF TablesGrow
<1>8. TablesOK'
  BY <1>3, <1>4, <1>5, <1>6, OneJob DEF InboxInv, TablesOK
<1>9. LoopCarries(k)' /\ WorkerCarries(k)' /\ Binds(k)
  <2>1. CASE k = NoJob
    BY <2>1 DEF LoopCarries, WorkerCarries, Binds, NoJob
  <2>2. CASE k \in BindJob /\ k.email = j.email /\ k.by = j.by
    <3>1. k.do \in {"load", "claim", "confirm"}
      BY <2>2 DEF BindJob
    <3> QED BY <1>2, <2>2, <3>1 DEF LoopCarries, WorkerCarries, Binds
  <2> QED BY <1>3, <2>1, <2>2
<1>10. CASE t = EventLoop
  BY <1>3, <1>4, <1>5, <1>7, <1>8, <1>9, <1>10, LoopStep
<1>11. CASE t = Worker
  BY <1>3, <1>4, <1>5, <1>7, <1>8, <1>9, <1>11, WorkerStep
<1> QED BY <1>10, <1>11 DEF Threads

\* Confirm and deny: only of a tag of the signed-in person's.
LEMMA AnsweringStep ==
  ASSUME InboxInv, NEW v \in Vid, NEW p \in People, NEW e \in Address,
         Confirm(v, e, p) \/ Deny(v, e, p)
  PROVE  InboxInv'
<1>0. \A q \in People : e = Session(q) => p \in {q, Nobody}
  BY DEF Confirm, Deny, Target, Session, lower
<1>1. PICK j : j = IF Confirm(v, e, p) THEN Confirming(v, e, p) ELSE NoJob
  OBVIOUS
<1>2. job' = [job EXCEPT ![Worker] = j]
  BY <1>1 DEF Confirm, Deny, Accept
<1>3. UNCHANGED <<rows, recognitions, forgets, receipts, mails, handed>>
  BY DEF Confirm, Deny, told
<1>4. /\ proposals' \in [Vid -> [Address -> Status]]
      /\ \A w \in Vid, a \in Address : proposals[w][a] # "none" => proposals'[w][a] # "none"
      /\ SettledOK'
  <2>1. CASE Confirm(v, e, p)
    BY <2>1, SettledStays DEF Confirm, told, InboxInv, TablesOK
  <2>2. CASE Deny(v, e, p)
    BY <1>0, <2>2, Settling DEF Deny, InboxInv
  <2> QED BY <2>1, <2>2
<1>5. TablesGrow
  BY <1>3, <1>4 DEF TablesGrow
<1>6. TablesOK'
  BY <1>2, <1>3, <1>4, OneJob DEF InboxInv, TablesOK, Threads
<1>7. WorkerCarries(j)' /\ Binds(j)
  <2>1. CASE j = NoJob
    BY <2>1 DEF WorkerCarries, Binds, NoJob
  <2>2. CASE j = Confirming(v, e, p)
    BY <1>0, <2>2 DEF WorkerCarries, Binds, BindJob, Confirming
  <2> QED BY <1>1, <2>1, <2>2
<1> QED BY <1>2, <1>3, <1>4, <1>5, <1>6, <1>7, WorkerStep

LEMMA DashboardStep ==
  ASSUME InboxInv, NEW v \in Vid, NEW p \in People,
         Forget(v, p) \/ \E on \in BOOLEAN : SetIdentify(v, p, on)
  PROVE  InboxInv'
<1>1. PICK j : /\ job' = [job EXCEPT ![Worker] = j]
               /\ j \in [do : {"delete"}, vid : Vid, who : People] \cup {NoJob}
  BY DEF Forget, SetIdentify, Accept
<1>2. UNCHANGED <<proposals, answers, recognitions, forgets, receipts, mails, handed>>
  BY DEF Forget, SetIdentify, told
<1>4. rows' \in [Vid -> Row \cup {NoRow}]
  BY DEF Forget, SetIdentify, Owned, InboxInv, TablesOK, Row
<1>5. TablesGrow
  BY <1>2, Unchanging
<1>6. TablesOK'
  BY <1>1, <1>2, <1>4, OneJob DEF InboxInv, TablesOK, Threads
<1>7. WorkerCarries(j)' /\ Binds(j)
  BY <1>1 DEF WorkerCarries, Binds, NoJob
<1> QED BY <1>1, <1>2, <1>5, <1>6, <1>7, WorkerStep

\* The job that follows a deletion carries a receipt of the row just written,
\* which no receipt names yet.
LEMMA DeleteStep ==
  ASSUME InboxInv, Delete
  PROVE  InboxInv'
<1>1. PICK j, n : j = job[Worker] /\ n = Len(forgets)
  OBVIOUS
<1> DEFINE entry == [vid |-> j.vid, by |-> j.who]
           receipt == [vid |-> j.vid, owner |-> lower(Session(j.who)), row |-> n + 1]
           signing == [do |-> "receipt", who |-> j.who, receipt |-> receipt]
<1>2. j.vid \in Vid /\ j.who \in People
  BY <1>1 DEF Delete, InboxInv, JobsOK, WorkerCarries
<1>3. /\ rows' = [rows EXCEPT ![j.vid] = NoRow]
      /\ UNCHANGED <<proposals, answers, recognitions, receipts, mails, handed>>
  BY <1>1 DEF Delete, told
<1>4. CASE rows[j.vid] = NoRow
  <2>1. forgets' = forgets /\ job' = [job EXCEPT ![Worker] = NoJob]
    BY <1>1, <1>4 DEF Delete, Then
  <2>2. TablesGrow
    BY <1>3, <2>1, Unchanging
  <2>3. TablesOK'
    BY <1>2, <1>3, <2>1, OneJob DEF InboxInv, TablesOK, Threads
  <2>4. WorkerCarries(NoJob)' /\ Binds(NoJob)
    BY DEF WorkerCarries, Binds, NoJob
  <2> QED BY <1>3, <2>1, <2>2, <2>3, <2>4, WorkerStep
<1>5. CASE rows[j.vid] # NoRow
  <2>1. forgets' = Append(forgets, entry) /\ job' = [job EXCEPT ![Worker] = signing]
    BY <1>1, <1>5 DEF Delete, Then
  <2>2. entry \in [vid : Vid, by : People]
    BY <1>2
  <2>3. /\ forgets' \in Seq([vid : Vid, by : People]) /\ n \in Nat
        /\ \A i \in DOMAIN forgets : i \in DOMAIN forgets' /\ forgets'[i] = forgets[i] /\ i <= n
        /\ n + 1 \in DOMAIN forgets' /\ forgets'[n + 1] = entry
    <3> HIDE DEF entry
    <3> QED BY <1>1, <2>1, <2>2 DEF InboxInv, TablesOK
  <2>4. TablesGrow
    BY <1>3, <2>3 DEF TablesGrow
  <2>5. TablesOK'
    BY <1>2, <1>3, <2>1, <2>3, OneJob DEF InboxInv, TablesOK, Threads
  <2>6. receipt \in Receipt /\ receipt.owner = Session(j.who) /\ receipt.row = n + 1 /\ receipt.vid = j.vid
    BY <1>2, <2>3, Spelling DEF Receipt
  <2> HIDE DEF receipt
  <2>7. Attests(receipt, j.who)'
    BY <1>2, <2>3, <2>6 DEF Attests
  <2>8. \A r \in receipts' : r.row # receipt.row
    BY <1>3, <2>3, <2>6 DEF InboxInv, ToldOK, TablesOK, Receipt
  <2>9. WorkerCarries(signing)' /\ Binds(signing)
    BY <1>2, <2>6, <2>7, <2>8 DEF WorkerCarries, Binds
  <2> HIDE DEF signing
  <2> QED BY <1>3, <2>1, <2>4, <2>5, <2>9, WorkerStep
<1> QED BY <1>4, <1>5

\* The receipt is stored, and then handed out as it was stored.
LEMMA AddReceiptStep ==
  ASSUME InboxInv, AddReceipt
  PROVE  InboxInv'
<1>0. PICK j : j = job[Worker]
  OBVIOUS
<1>1. CASE j.do = "receipt"
  <2>1. /\ j \in [do : {"receipt"}, who : People, receipt : Receipt]
        /\ Attests(j.receipt, j.who) /\ \A r \in receipts : r.row # j.receipt.row
    BY <1>0, <1>1 DEF InboxInv, JobsOK, WorkerCarries
  <2> DEFINE k == [j EXCEPT !.do = "hand"]
  <2>2. /\ receipts' = receipts \cup {j.receipt} /\ job' = [job EXCEPT ![Worker] = k]
        /\ UNCHANGED <<rows, proposals, answers, recognitions, forgets, mails, handed>>
    BY <1>0, <1>1 DEF AddReceipt, Then, told
  <2>3. k.do = "hand" /\ k.receipt = j.receipt /\ k.who = j.who
    BY <2>1
  <2>4. TablesGrow
    BY <2>2 DEF TablesGrow
  <2>5. TablesOK' /\ job'[Worker] = k /\ job'[EventLoop] = job[EventLoop]
    BY <2>1, <2>2, OneJob, InboxAssumption DEF InboxInv, TablesOK, Threads
  <2>6. Attests(j.receipt, j.who)'
    BY <2>1, <2>2 DEF Attests
  <2>7. JobsOK'
    <3>1. WorkerCarries(k)' /\ Binds(k)
      BY <2>2, <2>3, <2>6 DEF WorkerCarries, Binds
    <3> HIDE DEF k
    <3> QED BY <2>4, <2>5, <3>1, OthersCarry DEF JobsOK, Threads, Binds
  <2>8. ToldOK'
    <3>1. \A h \in handed' : h.receipt \in receipts' /\ Attests(h.receipt, h.to)'
      BY <2>2, <2>4, AttestsOn DEF InboxInv, ToldOK
    <3>2. \A m \in mails' : Speaks(m)'
      BY <2>2, <2>4, SpeaksOn DEF InboxInv, ToldOK
    <3>3. \A r \in receipts' : r.row \in DOMAIN forgets'
      BY <2>1, <2>2 DEF InboxInv, ToldOK, Attests
    <3>4. \A r, s \in receipts' : r.row = s.row => r = s
      BY <2>1, <2>2 DEF InboxInv, ToldOK
    <3> QED BY <3>1, <3>2, <3>3, <3>4 DEF ToldOK
  <2> QED BY <2>2, <2>5, <2>7, <2>8, SettledStays DEF InboxInv
<1>2. CASE j.do = "hand"
  <2> DEFINE h == [to |-> j.who, receipt |-> j.receipt]
  <2>1. j.receipt \in receipts /\ Attests(j.receipt, j.who)
    BY <1>0, <1>2 DEF InboxInv, JobsOK, WorkerCarries
  <2>2. /\ handed' = handed \cup {h} /\ job' = [job EXCEPT ![Worker] = NoJob]
        /\ UNCHANGED <<rows, proposals, answers, recognitions, forgets, receipts, mails>>
    BY <1>0, <1>2 DEF AddReceipt, Then
  <2>3. TablesGrow
    BY <2>2, Unchanging
  <2>4. TablesOK' /\ job'[Worker] = NoJob /\ job'[EventLoop] = job[EventLoop]
    BY <2>2, OneJob, InboxAssumption DEF InboxInv, TablesOK, Threads
  <2>5. JobsOK'
    <3>1. WorkerCarries(NoJob)' /\ Binds(NoJob)
      BY DEF WorkerCarries, Binds, NoJob
    <3> QED BY <2>3, <2>4, <3>1, OthersCarry DEF JobsOK, Threads, Binds
  <2>6. ToldOK'
    <3>1. \A g \in handed' : g.receipt \in receipts' /\ Attests(g.receipt, g.to)'
      BY <2>1, <2>2, <2>3, AttestsOn DEF InboxInv, ToldOK
    <3>2. \A m \in mails' : Speaks(m)'
      BY <2>2, <2>3, SpeaksOn DEF InboxInv, ToldOK
    <3> QED BY <2>2, <3>1, <3>2 DEF InboxInv, ToldOK
  <2> QED BY <2>2, <2>4, <2>5, <2>6, SettledStays DEF InboxInv
<1> QED BY <1>0, <1>1, <1>2 DEF AddReceipt

LEMMA CrashStep ==
  ASSUME InboxInv, Crash
  PROVE  InboxInv'
<1>1. TablesGrow
  BY Unchanging DEF Crash
<1>2. TablesOK' /\ \A t \in Threads : job'[t] = NoJob
  BY DEF Crash, InboxInv, TablesOK, Threads
<1>3. JobsOK'
  BY <1>2 DEF JobsOK, Threads, LoopCarries, WorkerCarries, Binds, NoJob
<1> QED BY <1>1, <1>2, <1>3, ToldStays, SettledStays DEF InboxInv, Crash, told

LEMMA NextInbox == InboxInv /\ [Next]_vars => InboxInv'
<1> SUFFICES ASSUME InboxInv, [Next]_vars PROVE InboxInv'
  OBVIOUS
<1>1. CASE \E v \in Vid : Mint(v) \/ Enroll(v) \/ Recognize(v)
  BY <1>1, MintStep, EnrollStep, RecognizeStep
<1>2. CASE \E v \in Vid, a \in Address : Propose(v, a) \/ BindEmail(v, a)
  BY <1>2, ProposeStep, BindEmailStep
<1>3. CASE \E v \in Vid, p \in People :
              \/ \E email \in Address : Confirm(v, email, p) \/ Deny(v, email, p)
              \/ Forget(v, p)
              \/ \E on \in BOOLEAN : SetIdentify(v, p, on)
  BY <1>3, AnsweringStep, DashboardStep
<1>4. CASE \E t \in Threads : LoadProposal(t) \/ Claim(t) \/ MarkConfirmed(t)
  BY <1>4, BindingStep
<1>5. CASE Upsert \/ Record \/ Notify \/ Delete \/ AddReceipt \/ Crash
  BY <1>5, UpsertStep, RecordStep, NotifyStep, DeleteStep, AddReceiptStep, CrashStep
<1>6. CASE UNCHANGED vars
  BY <1>6 DEF vars, told, InboxInv, TablesOK, SettledOK, SettledFor, JobsOK, ToldOK, LoopCarries, WorkerCarries, Binds,
       Speaks, Attests
<1> QED BY <1>1, <1>2, <1>3, <1>4, <1>5, <1>6 DEF Next, Threads

\* A mail about a recognition outside its reader's list has Limit newer ones
\* before it: whoever is listed is newer.
LEMMA ListedIsNewer ==
  ASSUME TablesOK, NEW p \in People, NEW rid \in DOMAIN recognitions,
         recognitions[rid].owner = Session(p), rid \notin my_recognitions(p)
  PROVE  \A i \in my_recognitions(p) : i > rid
<1> DEFINE mine == {i \in 1 .. Len(recognitions) : recognitions[i].owner = Session(p)}
           newer(i) == {j \in mine : j > i}
<1>1. Len(recognitions) \in Nat /\ DOMAIN recognitions = 1 .. Len(recognitions)
  BY DEF TablesOK
<1>2. my_recognitions(p) = {i \in mine : Cardinality(newer(i)) < Limit}
  BY DEF my_recognitions
<1>3. SUFFICES ASSUME NEW i \in mine, Cardinality(newer(i)) < Limit, ~(i > rid) PROVE FALSE
  BY <1>2
<1>4. newer(rid) \subseteq newer(i)
  BY <1>1, <1>3
<1>5. IsFiniteSet(newer(i)) /\ IsFiniteSet(newer(rid))
  <2>1. IsFiniteSet(1 .. Len(recognitions))
    BY <1>1, FS_Interval
  <2>2. newer(i) \subseteq 1 .. Len(recognitions) /\ newer(rid) \subseteq 1 .. Len(recognitions)
    OBVIOUS
  <2> HIDE DEF newer, mine
  <2> QED BY <2>1, <2>2, FS_Subset
<1>6. Cardinality(newer(rid)) \in Nat /\ Cardinality(newer(i)) \in Nat
      /\ Cardinality(newer(rid)) <= Cardinality(newer(i))
  BY <1>4, <1>5, FS_Subset, FS_CardinalityType
<1>7. Cardinality(newer(rid)) < Limit
  BY <1>3, <1>6, InboxAssumption
<1>8. rid \in mine
  BY <1>1
<1> HIDE DEF newer, mine
<1> QED BY <1>2, <1>7, <1>8

\* What notify.py speaks of its reader finds: the tag waits in the pending list
\* or was settled by its reader or a caller, and the recognition is in the
\* reader's list or behind newer ones.
THEOREM MailsAreBacked == Spec => []MailIsBacked
<1>1. InboxInv => MailIsBacked
  <2> SUFFICES ASSUME InboxInv, NEW m \in mails
               PROVE  IF m.about = "tag"
                      THEN m.vid \in my_pending(m.to.who) \/ SettledFor(m.vid, m.to.who)
                      ELSE \/ m.rid \in my_recognitions(m.to.who)
                           \/ /\ recognitions[m.rid].owner = Session(m.to.who)
                              /\ \A i \in my_recognitions(m.to.who) : i > m.rid
    BY DEF MailIsBacked
  <2>1. Speaks(m) /\ m.to.who \in People
    BY Spelling DEF InboxInv, ToldOK, Speaks
  <2>2. CASE m.about = "tag"
    <3>1. proposals[m.vid][Session(m.to.who)] \in {"pending", "confirmed", "denied"}
      BY <2>1, <2>2, Spelling DEF Speaks, InboxInv, TablesOK, Status
    <3> QED BY <2>1, <2>2, <3>1 DEF Speaks, InboxInv, SettledOK, my_pending
  <2>3. CASE m.about # "tag"
    <3>1. m.rid \in DOMAIN recognitions /\ recognitions[m.rid].owner = Session(m.to.who)
      BY <2>1, <2>3 DEF Speaks
    <3> QED BY <2>1, <2>3, <3>1, ListedIsNewer DEF InboxInv
  <2> QED BY <2>2, <2>3
<1> QED BY InitInbox, NextInbox, <1>1, PTL DEF Spec

\* What consent_api.forget handed out is listed under my_deletion_receipts
\* ever after, and names a ledger row no other receipt names.
THEOREM ReceiptsAreListed == Spec => []ReceiptsListed
<1>1. InboxInv => ReceiptsListed
  <2> SUFFICES ASSUME InboxInv, NEW h \in handed
               PROVE  /\ h.receipt \in my_deletion_receipts(h.to)
                      /\ forgets[h.receipt.row].vid = h.receipt.vid
                      /\ forgets[h.receipt.row].by = h.to
                      /\ \A r \in receipts \ {h.receipt} : r.row # h.receipt.row
    BY DEF ReceiptsListed
  <2>1. h.receipt \in receipts /\ Attests(h.receipt, h.to)
    BY DEF InboxInv, ToldOK
  <2>2. h.receipt \in my_deletion_receipts(h.to)
    BY <2>1 DEF Attests, my_deletion_receipts
  <2>3. forgets[h.receipt.row] = [vid |-> h.receipt.vid, by |-> h.to]
    BY <2>1 DEF Attests
  <2>4. \A r \in receipts \ {h.receipt} : r.row # h.receipt.row
    BY <2>1 DEF InboxInv, ToldOK
  <2> QED BY <2>2, <2>3, <2>4
<1> QED BY InitInbox, NextInbox, <1>1, PTL DEF Spec
=============================================================================
