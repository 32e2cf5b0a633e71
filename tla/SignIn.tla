------------------------------- MODULE SignIn -------------------------------
(***************************************************************************)
(* Sign-in of a data subject (auth.py SessionManager and GoogleOAuth,      *)
(* consent_api.py login, callback, logout): one browser with several tabs, *)
(* its two cookies, Google's part of the flow, and a service that          *)
(* restarts, with or without a configured FPM_SESSION_SECRET.              *)
(*                                                                         *)
(* All tabs share one state cookie, and callback reads it before and       *)
(* deletes it after the calls to Google, so flows in two tabs meet.        *)
(***************************************************************************)
EXTENDS Naturals

CONSTANTS Tabs,      \* tabs of one browser
          Emails,    \* accounts Google offers
          StateTTL,  \* max_age of the state cookie
          SessionTTL,\* FPM_SESSION_TTL_SEC
          MaxLogins, \* bound on flows started
          MaxTime,   \* bound on the clock
          MaxBoots,  \* bound on starts of the service
          None

ASSUME SignInAssumption == /\ {StateTTL, SessionTTL, MaxLogins, MaxTime} \subseteq Nat
                           /\ MaxBoots \in Nat \ {0}
                           /\ None \notin Emails
                           /\ None \notin [value : Nat, exp : Nat]
                           /\ None \notin [email : Emails, exp : Nat, key : Nat]

VARIABLES clock,
          configured, \* FPM_SESSION_SECRET is set
          boot,       \* which start of the service this is
          jar,        \* the browser's cookies
          tab,        \* tab -> where its flow is
          logins,     \* states handed out so far
          met,        \* tab -> what its login met since
          last        \* the last sign-in: who, when, in which process, logged out since

signInVars == <<clock, configured, boot, jar, tab, logins, met, last>>

\* The key in use: the configured one, or a random one of this process.
Secret == IF configured THEN 0 ELSE boot

Idle == [at |-> "idle", state |-> 0, email |-> None]
NothingMet == [login |-> FALSE, callback |-> FALSE, expired |-> FALSE]
InFlow(t) == tab[t].at \in {"google", "exchange"}

\* What the others' flows do to the state cookie of a flow that waits.
Meets(t, what) ==
  met' = [u \in Tabs |-> IF u = t THEN met[t]
                         ELSE IF tab[u].at = "google" THEN [met[u] EXCEPT ![what] = TRUE] ELSE met[u]]

----------------------------------------------------------------------------
\* Mutant: a state cookie that is still there is kept.
Login_KeepsState(t) ==
  /\ ~InFlow(t)
  /\ logins < MaxLogins
  /\ logins' = logins + 1
  /\ jar' = [jar EXCEPT !.state = IF @ = None THEN [value |-> logins + 1, exp |-> clock + StateTTL] ELSE @]
  /\ tab' = [tab EXCEPT ![t] = [at |-> "google", state |-> logins + 1, email |-> None]]
  /\ met' = [met EXCEPT ![t] = NothingMet]
  /\ UNCHANGED <<clock, configured, boot, last>>

\* login: a fresh state goes to Google's page and into the cookie.
Login(t) ==
  /\ ~InFlow(t)
  /\ logins < MaxLogins
  /\ logins' = logins + 1
  /\ jar' = [jar EXCEPT !.state = [value |-> logins + 1, exp |-> clock + StateTTL]]
  /\ tab' = [tab EXCEPT ![t] = [at |-> "google", state |-> logins + 1, email |-> None]]
  /\ met' = [u \in Tabs |-> IF u = t THEN NothingMet
                            ELSE IF tab[u].at = "google" THEN [met[u] EXCEPT !.login = TRUE] ELSE met[u]]
  /\ UNCHANGED <<clock, configured, boot, last>>

\* Mutant: any state cookie will do.
StateMatches_Present(t) == jar.state # None

\* The state the callback carries is the one in the cookie it comes with.
StateMatches(t) == jar.state # None /\ jar.state.value = tab[t].state

\* callback, up to the exchange: 400 on a state mismatch, or when the user
\* declined and there is no code; else Google is asked who it was.
Return(t) ==
  /\ tab[t].at = "google"
  /\ \/ ~StateMatches(t) /\ tab' = [tab EXCEPT ![t].at = "mismatch"]
     \/ StateMatches(t) /\ tab' = [tab EXCEPT ![t].at = "declined"]
     \/ StateMatches(t) /\ \E e \in Emails :
          tab' = [tab EXCEPT ![t].at = "exchange", ![t].email = e]
  /\ UNCHANGED <<clock, configured, boot, jar, logins, met, last>>

\* callback's answer: the session cookie is set and the state cookie goes,
\* whichever flow's it is by then.
SignedIn(t) ==
  /\ tab[t].at = "exchange"
  /\ jar' = [state |-> None,
             session |-> [email |-> tab[t].email, exp |-> clock + SessionTTL, key |-> Secret]]
  /\ tab' = [tab EXCEPT ![t].at = "home"]
  /\ last' = [email |-> tab[t].email, time |-> clock, boot |-> boot, out |-> FALSE]
  /\ Meets(t, "callback")
  /\ UNCHANGED <<clock, configured, boot, logins>>

\* exchange_email raises: transport, no token, no verified email (401).
Fails(t) ==
  /\ tab[t].at = "exchange"
  /\ tab' = [tab EXCEPT ![t].at = "failed"]
  /\ UNCHANGED <<clock, configured, boot, jar, logins, met, last>>

Logout ==
  /\ jar.session # None
  /\ jar' = [jar EXCEPT !.session = None]
  /\ last' = [last EXCEPT !.out = TRUE]
  /\ UNCHANGED <<clock, configured, boot, tab, logins, met>>

\* verify: signed with the key in use, and not expired.
Verify(cookie) == IF cookie # None /\ cookie.key = Secret /\ cookie.exp >= clock
                  THEN cookie.email ELSE None

\* Mutant: the expiry is not looked at.
CurrentUser_NoExpiry == IF jar.session # None /\ jar.session.key = Secret
                        THEN jar.session.email ELSE None

\* current_user, the answer of every request this browser sends now.
CurrentUser == Verify(jar.session)

----------------------------------------------------------------------------
\* The browser drops the state cookie at its max_age; the session cookie may
\* outlive its own (a restored browser session), so verify decides.
Tick ==
  /\ clock < MaxTime
  /\ clock' = clock + 1
  /\ LET old == jar.state # None /\ jar.state.exp < clock + 1
     IN  /\ jar' = IF old THEN [jar EXCEPT !.state = None] ELSE jar
         /\ met' = [t \in Tabs |-> IF old /\ tab[t].at = "google"
                                   THEN [met[t] EXCEPT !.expired = TRUE] ELSE met[t]]
  /\ UNCHANGED <<configured, boot, tab, logins, last>>

\* A restart loses the callbacks in flight and a key that is not configured.
Restart ==
  /\ boot < MaxBoots
  /\ boot' = boot + 1
  /\ tab' = [t \in Tabs |-> IF tab[t].at = "exchange" THEN Idle ELSE tab[t]]
  /\ UNCHANGED <<clock, configured, jar, logins, met, last>>

SignInInit ==
  /\ clock = 0
  /\ configured \in BOOLEAN
  /\ boot = 1
  /\ jar = [state |-> None, session |-> None]
  /\ tab = [t \in Tabs |-> Idle]
  /\ logins = 0
  /\ met = [t \in Tabs |-> NothingMet]
  /\ last = [email |-> None, time |-> 0, boot |-> 0, out |-> TRUE]

SignInNext ==
  \/ \E t \in Tabs : Login(t) \/ Return(t) \/ SignedIn(t) \/ Fails(t)
  \/ Logout
  \/ Tick
  \/ Restart

SignInSpec == SignInInit /\ [][SignInNext]_signInVars

----------------------------------------------------------------------------
(* Properties.                                                             *)

\* A sign-in is refused for its state only when another flow of the same
\* browser took the cookie over or a callback's answer removed it, or when
\* it expired: never for a flow that was alone.
RefusedOnlyIfMet ==
  \A t \in Tabs : tab[t].at = "mismatch" => met[t].login \/ met[t].callback \/ met[t].expired

\* No two flows hold the same state past the check, and a flow that was
\* overtaken by another login before it came back does not get past it: the
\* callback that goes on belongs to the newest login of its moment.
OnlyNewestPasses ==
  \A t \in Tabs : tab[t].at = "exchange" =>
    /\ ~met[t].login
    /\ \A u \in Tabs \ {t} : tab[u].at = "exchange" => tab[u].state # tab[t].state

\* Requests are authenticated exactly as the last sign-in of this browser
\* says: for SessionTTL, until a logout, across restarts if and only if the
\* secret is configured, however flows in other tabs, failures and restarts
\* interleave.
SessionMeansSignIn ==
  CurrentUser = IF /\ ~last.out
                   /\ clock <= last.time + SessionTTL
                   /\ configured \/ last.boot = boot
                THEN last.email ELSE None
=============================================================================
