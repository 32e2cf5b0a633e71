# Verification of VFTE's consent plane and identity engine

VFTE keeps voiceprints, recognises speakers against them, and lets the person behind
a voiceprint see, name, silence and erase it. This directory models the parts of the
service where a mistake would be a broken promise to that person, and the parts they
rest on. TLC checks small instances of the models; TLAPS proves central results for
every instance.

Paths below are relative to the repository's `src/`; `store.py` is `fpm/store/store.py`,
`identify.py` is `fpm/identify.py`, and so on.

## 1. Inventory

| component | state | operations | hard behaviour | what makes it correct |
|---|---|---|---|---|
| Voiceprint store (`store.py`, `fpm/store/models.py`) | SQLite tables; `_centroids` and `_flags` caches; one `threading.Lock` | upsert, set_name, delete, set_flags, claim_owner, propose, confirm, deny, receipts, recognitions, ledger, open | readers take no lock; commit and cache write are apart; restart | caches say what the rows say; workspaces do not mix |
| Dashboard handlers (`consent_api.py`) | none of their own | flags, forget, export, import, confirm, deny, listings, login | several store calls per request, on pool threads, each a commit | receipts match deletions; the subject's choice stands |
| Machine endpoints (`main.py`) | rate limiter, store, signer on `app.state` | enroll, identify, identify-spans, knowledge, propose, recognitions | interleave with the dashboard's threads | no third party names a person; gate honoured |
| Enrolment (`fpm/enroll.py`) | none | read, change, write a whole row | lost update, gate | erased stays erased; a retry is accepted |
| Session identifier (`identify.py`, `identify_spans.py`) | votes, exemplars, locks, transcript, sealed flag, audio buffer | feed, finish, seal, lock, mint, relabel | the store changes under a session; the buffer loses its front | transcript agrees with the lock; ledger agrees with the locks; audio is the segment's |
| Match (`match.py`) | none | classify | thresholds and ties | one answer, moved by nobody else's change |
| Rate limiter (`ratelimit.py`) | `_hits` per token | allow | clock read before the lock | bursts bounded; refusals earned |
| Exemplars (`models.py`, `enroll.py`) | list of embeddings, centroid | add, evict, recompute, export, import | eviction against an older centroid | centroid derived; restore exact |
| Keys, enclave, receipts (`enclave.py`, `receipts.py`, `crypto.py`) | key files, keys held, dstack client | derive, fall back, generate, sign | agent away at one start and back at the next; death between two file writes | every row readable; no key lost |
| Sign-in (`auth.py`) | two signed cookies | login, callback, verify, logout | two tabs, expiry, restart with a random key | a session belongs to who signed in last |
| Notification mail (`notify.py`) | none | three kinds of mail | transport fails; spelling of addresses | what was mailed can be found |
| Diarization service (`deploy/diarize-service/service.py`) | event loop, pool, one diarizer behind one lock | decode, stream, heartbeat, run | retry behind a running call; decode blocks the loop | own session, own answer, every stream ends |
| Dashboard (`frontend/`, `webapp/`) | React state | load, act | stale loads | (not modelled) |
| Embedder, audio, configuration, evaluation, scripts | none | numerical code, tools | windows of a span | every sample is embedded |

How they interact: FastAPI runs `async def` endpoints (all of `main.py` that enrols,
names or proposes) on one event loop, and their bodies contain no `await` after the
request is read, so they exclude each other. `def` endpoints (all of `consent_api.py`)
and the generator of `/v1/identify-spans` run in a thread pool. Both kinds share one
`VoiceprintStore` object, whose methods exclude each other by the lock, and nothing
excludes two *handlers*. That is why the models make every store call of a handler a
step of its own. At start-up `lifespan` opens the store and then makes the signer; both
ask the enclave agent for their keys. Sessions, the audio buffer and the matcher work
inside one request. The diarization service is a process of its own.

`PROJECT.json` lists the hazards found in this code, each at its line, with the properties
that cover it or the reason why none does.

## 2. Modules

| module | stands for | state |
|---|---|---|
| `VoiceprintStore` | `store.py` | tables, both caches, the lock, the cache writes its holder has still to make |
| `DeletionProof` | abstract: what "forget me" promises about receipts | ids deleted, due a receipt, issued; restarts |
| `ConsentPlane` | handlers of `consent_api.py`, `main.py`, `enroll.py` over the store | extends the store with the job each thread has in hand, downloaded exports, and history variables |
| `SubjectInbox` | what a subject is told and shown: `notify.py`, the listings, receipts, recognitions | rows by owner's spelling, tags by address, recognitions, receipts, jobs in hand; who settled a tag, mails sent |
| `SessionIdentifier` | `identify.py`, `identify_spans.py`: votes to transcript | the session's fields by their Python names, a store of rows, the span in hand |
| `AudioWindow` | `identify.py` `_append`/`_slice`, `identify_spans.py`, `OnnxEmbedder.extract` | `_buf`, `buf_start`, samples by number, the last cut |
| `Exemplars` | `models.py` and the gate of `enroll.py` | one profile, the file its owner keeps |
| `Match` | `match.py` | centroids as cosines in ticks, the answer |
| `RateLimiter` | `ratelimit.py` | `_hits`, in-flight calls, clock, granted calls |
| `KeyBoot` | `enclave.py`, `crypto.py`, `receipts.py`, `lifespan` | configured model and dimension, key files, stamp, rows by key, by the deployments that embedded them and by vector length, the process's phase, the agent |
| `SignIn` | `auth.py`; login, callback, logout of `consent_api.py` | cookie jar, tabs, clock, start number |
| `DiarizeService` | `service.py` | streams, queue, jobs, lock, buffer, the decode that holds the loop |
| `*_proofs` | theorems of the modules they extend: one module each, but `Recognition_proofs` for `AudioWindow`, `Match` and `Exemplars`, and `Subject_proofs` for `SignIn` and `SubjectInbox` | |
| `MC*` | constants of the TLC instances | |

**Correspondence.** Store operators bear the names of the methods (`set_flags`,
`claim_owner`, ...). `upsert`, `delete` and `set_flags` are a commit step that takes
the lock, followed by `RefreshPrint` and/or `RefreshFlags` by the same thread, since
readers see the caches between them; every other method touches no cache and is one
step. A handler is a chain of jobs: `job[t]` holds the next store call and the values
already read, which is how stale values appear (`ConsentPlane`, `SubjectInbox`). `Crash`
loses jobs and caches and runs `open()`. A transaction cut before its commit leaves
nothing. In `KeyBoot` the phases of `proc` are the points between two effects of a
start: a key file is two steps, the temporary file and `os.replace`. In `DiarizeService`
the event loop takes one coroutine step at a time, and a decode keeps it for up to
`MaxDecode` heartbeat intervals.

**Composition and refinement.** `ConsentPlane` EXTENDS the store, and `UsesTheStore`
(`StoreSpec` as a property of the plane) shows that each handler step is a step the store
takes under arbitrary callers: what is proved of the store under any callers
(`CachesCoherent`, `WorkspacesIsolated`, `TypeCorrect`) holds inside the service.
`ConsentPlane` also implements `DeletionProof` under a refinement mapping (`deleted` =
"forget" rows of the ledger, `due` = the ledger rows of the receipt jobs that a thread has
in hand or will have once its caches are written, `issued` = rows of `deletion_receipts`,
`restarts` = crashes): `ReceiptProtocol` is the safety part, `ReceiptsArrive` the fair one.
Both refinements are proved (`StoreImplemented`, `ReceiptsImplemented`), the fair part is
only checked.

**Abstractions.** In the plane an exemplar is the clip it came from and a centroid the
set of clips (it is always recomputed before an upsert); what exemplars and centroids do
as vectors is `Exemplars`, with integer vectors of equal length, whose sum has the
direction of the code's normalised mean; their arithmetic is exact, where float32 rounds. A cosine in `Match` is an integer number of
ticks; who matches whom in a session is any outcome the stored voiceprints allow. Audio
is sample numbers. Keys and signatures are names. Addresses are model values in the plane
and a person with a spelling in `SubjectInbox`. A request refused before it changes
anything is left out, and so are response bodies, timestamps, counters and pages.

## 3. Runs

| run | instance | shows |
|---|---|---|
| `store` | 2 workspaces, 1 id, 2 threads, 2 log rows | caches equal rows outside the method in flight, restarts included; no call crosses workspaces |
| `plane` | 6 mixes of endpoints (below), 3 threads, fairness | receipts name the right ledger row; receipts arrive; the flags are the subject's last choice, and after an opt-out no later match gets the name, unless an enrolment in flight wrote over the choice; owner before name; no third party confirms; restores are ledgered; every request ends; handler steps are store steps |
| `sessions` | 1 session, 2 speakers, 2 ids, 4 spans, 1 change by others | transcript follows the lock; strict majority; exact ledger; gated mint |
| `rate_limit` | 2 keys, 2 threads, budget 2, window 2 | two budgets per window at most; refusals earned |
| `match` | 4 ids, 9 scores around each threshold | one answer; no stolen match |
| `keys` | 1 row, 2 embedders of different dimension, `FPM_ID_EMBED_DIM` set to either (4 deployments), 2 stops, agent that stays or comes and goes | a serving process reads every row; no key is lost; rows are made under the stamp's dimension, and have it unless a deployment misdeclared its model's; the service comes back |
| `diarize` | 3 calls, 2 workers, decodes of 0 or 1 interval | own session; own answer; bounded silence; every stream ends |
| `sign_in` | 2 tabs, 2 accounts, 3 logins, clock 0..4, 2 starts | a refused state had a cause; the newest flow passes; the session is the last sign-in's |
| `inbox` | 2 people, 2 ids (one enrolled with capitals, one minted), 6 requests, 1 crash, list limit 1 | a tag that was mailed waits in its reader's list or was settled by the reader or a caller; a mailed recognition is listed or behind newer ones; a receipt handed out is listed |
| `exemplars` | 3 exemplars, 8 directions of 3 dimensions, 7 operations | centroid derived; retry accepted; restore exact |
| `audio_window` | window 6, blocks to 3, latency 1, 10 samples | cuts are the segment's; nothing is lost; windows cover |
| `enroll_revives_erased` | enroll and forget, 2 requests | *violation*: an enrolment in flight brings an erased voiceprint back after its receipt |

**The mixes of `plane`.** A behaviour of the plane starts by choosing one element of
`Traffic`: the voiceprint at hand, the endpoints called, how many requests and how
many restarts. Splitting the endpoints keeps the instance within reach. Two
endpoints race only in a mix that has both, so the pairs behind the hazards that the plane's
properties are listed for share a mix, also the one that costs the flag properties their
exception (Overtaking); the theorems are about every mix there can be:

| mix | endpoints | requests | restarts | for |
|---|---|---|---|---|
| Erasure | enroll, forget, export, import, rename | 3 | 1 | receipts, restores |
| OptOut | flags, forget, import, identify | 3 | 0 | flags, gate |
| Overtaking | enroll, flags, identify | 3 | 0 | an enrolment that writes over a choice |
| Handshake | propose, confirm, deny, knowledge, recognize; minted voiceprint | 3 | 1 | owner before name |
| Tagged | propose, confirm, forget | 3 | 0 | a confirm and a forget of one voiceprint |
| Subject | propose, confirm, flags, forget | 2 | 0 | every pair of the subject's own calls |

A mix that imports may begin with a file exported earlier, so that an export need not use
up a request; a stored voiceprint may be claimed or not.

**Bounds and why they suffice.** Every race covered by a property of the plane needs at
most two requests that interleave plus the one that set the scene (a tag, an erasure, an
opt-out), hence three requests and three threads: the event loop and two pool threads.
One voiceprint per behaviour is enough: no store call touches a second one
(`CachesCoherent` and `WorkspacesIsolated` prove it for caches and logs). The store run has
a second workspace so that every call can be made under the wrong one; its `MaxTrail` bounds
the append-only logs, which the module itself leaves unbounded. Four spans let
one speaker lock (two votes), be relabelled, tie or be outvoted, with a second speaker in
between; one outside change is enough for each race with the three reads of a lock. The
limiter's clock covers two whole windows, and counts go one past the budget. The scores
of `match` are below, at and above each threshold and margin. `keys` needs two stops for
the shortest loss: make a key, lose the process, meet the agent again. One row suffices there:
each is compared with the key and the stamp and never with another row, and the proof is for any ids. Three calls on two
workers give a running job, one that waits for the lock and one that waits for a thread; a
decode of one interval is enough to make a stream late, and `IdleLimit` = 3 lets the latest
stream within `SilenceBounded` live. Two tabs and three logins give a flow overtaken
before and after its return; the clock passes both lifetimes. Six requests of the inbox
cover tag, confirm, two recognitions (beyond the limit), forget and one more. Three
exemplars and seven operations reach eviction, the clip after it, export, forget and
import; some of the directions are at the gate's exact limit. The window of six with blocks of three drops its front several times in ten samples.

**Deadlock.** The plane checks it: `Rest` is a step only when nothing is in flight, so
a request that waits for ever is reported; so do `store` and `match`. It is off where
a bound or the end of the work stops the instance: a session whose spans are used up, clocks at
their bound, calls all answered, operations all made.

**Fairness.** `FairPlaneSpec` assumes weak fairness of each thread's `Continue`: a thread
with a request in hand is runnable, and the lock's holder never waits for anything before
it releases it. Arrivals and crashes are not fair, and the promises about receipts are
made until the next restart, as `DeletionProof!Restart` says. `KeyBoot!FairSpec` assumes
that the steps of a start and the next launch happen: the containers are restarted
whenever they stop, and a start waits for nothing. `DiarizeService!FairSpec` assumes that
the event loop runs the coroutines that are due and pool threads run their jobs;
the lock's holder leaves it on return and on an exception. Drops, refusals and failures are
not fair.

**History variables.** `heard`, `erased`, `chosen`, `late`, `undone` (plane), `grants`, `refused`
(limiter), `met`, `last` (sign-in), `answers`, `mails`, `handed` (inbox) and `last`, `built` (exemplars) record what
users did and got. They guard only what users do (a new clip per enrolment, a mint once).

Each property of a passing run has a mutant in `PROJECT.json`: a changed definition of
the model, as a plausible bug would change the code, with which TLC finds it violated.

## 4. Proofs

All for arbitrary constants within the modules' named assumptions, which TLC evaluates on
every run of their module. Each safety property of a passing run is stated by a theorem. Invariants that are hard to see were checked by TLC on the run's
instance before they were proved.

* `VoiceprintStore_proofs`
  * `TypeCorrect`: `StoreSpec => []StoreTypeOK`.
  * `CachesCoherent`: `StoreSpec => []CacheCoherent`. Not inductive alone: what the
    lock's holder will write must be right *when it writes it*. `StoreInv` adds that
    `refresh` carries what the rows say (`RefreshTrue`), that the lock is free exactly when
    nothing is left to write -- so no method changes rows in between -- and that an id
    stays in its workspace (`RowsAtHome`), without which an upsert could change what
    another workspace's cache should hold.
  * `WorkspacesIsolated`: from `StoreInv`, as each cache write is a projection of a row
    at home and each audit or erasure row is written only after the row was found
    under the workspace named. `StoreAssumption` says that an id belongs to one workspace:
    ids are derived from the workspace, random, or carried with it by a signed file.
  * `TrailsAppendOnly`: `[][TrailsGrow]_storeVars`. The ledger, the audit and the
    receipts only grow, and a proposal keeps its id and whom it tags.
* `ConsentPlane_proofs`, for any mix of endpoints, threads and voiceprints
  * `StoreImplemented`: every handler step is a store step. A job holds values read some
    store calls ago, so the step needs `PlaneInv`: besides `StoreInv`, each job fits the
    tables as they are by then (`JobsFit`: the ledger row a receipt will name is there and
    says the same, the proposal tags whom it did) and so does each file (`FilesFit`).
    That the trails only grow carries a job's values over the other threads' steps.
  * `ReceiptsSound`, `ReceiptsImplemented`: the receipt protocol of `DeletionProof`, step by
    step. The abstract `Issue` takes an id out of a set, so no two threads may owe a
    receipt for one ledger row, nor owe one that was issued (`OneHolder`).
  * `NamesAreOwn`: a name put on a voiceprint comes from a proposal that names its
    confirmer, and `JobsFit` keeps that to the last of the four commits.
  * `OwnerIsFirst`: whoever is about to write a name or a status has claimed the
    voiceprint, and nothing takes an owner away while the row is there (`OwnerInv`).
    The hypothesis `BareNamesClaimed` says that where the legacy bare-name channel is open
    the stored voiceprints are claimed at the start: that channel names without a claim
    on purpose (`main.py:321`), so without it the claim is false.
  * `SubjectsSetFlags`, `OptOutIsHonoured`, with no hypothesis about the mix: rows have the
    flags last chosen, so caches do, and every match after an opt-out reads it. `enroll`
    writes back the flags it read (`enroll.py:82`), so both have one exception, `undone`:
    a flag chosen between that read and the write counts as written over until it is
    chosen again. `FlagsInv` says of rows what the property says (`AsChosen`) and of the
    enrolment in hand that each flag it will write back is still the one chosen, or was
    chosen too late for it (`late`), or was undone before (`HandFits`).
  * `RestoresAreLedgered`: until a crash, a voiceprint that is back after a "forget" row has
    its own row in the ledger, or a thread is on its way there (`RestoreInv`).
  * `NobodyStuck`, `ChainsEnd`: what `RequestsFinish` rests on, for any number of threads and
    requests. The lock is held exactly by the thread with caches to write (`LockInHand`),
    so whoever waits waits for one that waits for nobody. `Work(t)` counts the steps thread
    t has left: at most six, none when the request is done, fewer after each of its own
    steps and never more after anyone else's (`Shortens`). A mix has a bounded number of
    requests, so only finitely many steps can come before a waiting thread's; what is left
    to fairness is that a thread whose step stays possible takes it. `Ready` spells out the
    guards of `Continue`, since ENABLED cannot be used in a proof.
* `SessionIdentifier_proofs`, for any sessions, speakers, ids, vote floor and cap, and
  recordings of any length
  * `SessionTypes`, `LocksHaveMajority`, `MintsAreGated`, `TranscriptsFollowLocks`,
    `LedgersMatchLocks`. A lock is several store calls, between
    which others change the store: `InFlight` says what of the decision still stands when
    the label is written. `LockInv` adds that a minted voiceprint is the label of the speaker
    it was minted for, so a lock onto it needs no votes; `LedgerInv` counts each session's
    ledger rows as its locks to voiceprints and the one whose row is written and label
    is not.
* `Recognition_proofs`
  * `AnswerUnique`: of two centroids with the same best score each is the other's
    runner-up, and the margin is positive; `MatchTypeCorrect`.
  * `MatchesStay`: a match leads by the margin (`MatchLeads`), the runner-up is the greatest
    of the other scores (`RunnerUp`), and a change of one centroid leaves the lead of
    whoever matched over each third (`NoTheft`). That a bounded set of integers has a
    greatest member comes from the well-foundedness of the naturals (`Greatest`).
  * `BufferAlignedAlways`, `CutIsSegmentsAlways`, `NothingIsLostAlways`, for any window,
    block, latency and stream. `WindowInv` gives `buf_start` in closed form (the stream's
    length less the window, or 0) and the buffer as the samples from there on; a cut of it is
    again a run of samples (`CutSound`).
  * `WindowsCoverAlways`: the last hop at or below a sample starts a window that holds it
    (`HopBelow`, `Covered`), for any length of the cut.
  * `CentroidDerived`, `RestoresExactly`, `RetriesAccepted`, `EnrolledStaysOpen`, for any
    dimension, cap and number of operations. Sums and the loop over the exemplars are
    recursive functions; that they exist and what they satisfy is an induction over
    their length, made by `UpTo` from the well-foundedness of the naturals, since the
    library's induction theorems take an operator. The sum is linear (`SigmaPlus`,
    `SigmaChange`), so an exemplar added or replaced changes the centroid by just that
    (`TotalAppend`, `TotalReplace`).
  * Why a retry is accepted: below the cap the clip pulls the sum towards itself
    (`GateWhenJoining`). At the cap it takes the place of the exemplar nearest to the sum.
    If the sum is at least half as long as a clip, the gate's own condition on both
    suffices. A shorter one is turned by a single replacement, and the gate would not
    suffice; but with m the nearest exemplar's product with the sum and A the sum's
    square, a replacement leaves 2m - A no smaller, and it was large enough when
    the sum became short (`GateWhenReplacing`). So `ExemplarsInv` says that one exemplar of every enrolled
    voiceprint fits its centroid with that room (`Fits`, `Gated`), and so of the file an
    import restores. In the run's instance no sum becomes that short (with three exemplars it
    takes some ten enrolments in three dimensions), so that case rests on the proof.
* `RateLimiter_proofs`
  * `RefusalsEarned`, `BurstsBounded`, `LimiterTypeCorrect`. The invariant `LimiterInv`
    says what an entry of `_hits` remembers of the grants: which grant opened the
    window, and that windows opened earlier are already a window apart. Lemmas
    say what each kind of counted call does to it; clocks may be stale throughout.
* `DiarizeService_proofs`
  * `SessionIsOwnAlways`, `AnswerIsOwnAlways`, for any calls and workers.
    `SessionIsOwn` is the lock's invariant. The answer needs that a job runs once
    (`QueuedOnce`: a call is queued from one decode, before its job exists) and that a finished job
    keeps its result (`ResultsOwn`); `ServiceInv` joins them with the types.
  * `SilenceIsBounded`: the silence of a stream so far, the wait it has left, what is left of
    the decode that holds the loop and a whole decode for each call not yet read never
    exceed the bound together (`SilenceInv`): a tick moves a unit from one to the other.
* `Subject_proofs`
  * `RefusalsAreMet`, `NewestPasses`, for any tabs and flows: a flow that waits at Google still
    matches the state cookie or has met what took it away, and one that was overtaken
    waits for a state older than the cookie's (`WaitsFor`); states only grow (`StatesGrow`).
  * `SessionsMeanSignIn`: the session cookie is what the last sign-in left (`CookieInv`).
  * `MailsAreBacked`, `ReceiptsAreListed`, for any list limit, requests and restarts. What is
    told was fixed in a job some steps before, so `InboxInv` says of jobs what the
    properties say of mails and receipts, and `TablesGrow` that nothing they speak of is
    taken back. Of a tag `SettledOK` says that it is pending until somebody who may settle
    it, its person or a caller, has: whoever is on the way to confirm one got past the
    check of its target (`JobsOK`). That a recognition outside its list is behind `Limit` newer ones is a
    matter of cardinalities (`ListedIsNewer`).
* `KeyBoot_proofs`
  * `ServesWhatItReadsAlways`, `NoKeyIsLostAlways`, `OneDimensionAlways`, for any ids, embedders, dimensions,
    deployments and stops. `BootInv` says that a key is held only once it can be derived again
    (`KeysHeld`: a generated one when its file is in place), that past the load every row was
    readable under the key held (`RowsRead`), and that past the check of the meta table the stamp has
    the dimension the deployment is configured with, and whatever rows and exports are made
    of was embedded under it (`StampHolds`, `ForStamp`). Nothing is assumed of how that dimension
    relates to the model's own; where they differ, `OneDimension` says so itself.

**Only model-checked**: liveness (`RequestsFinish`, `ReceiptsArrive`, `ComesBack`,
`EveryStreamEnds`), as fairness and ENABLED are beyond the prover. For
`RequestsFinish` the part that needs neither is proved (`NobodyStuck`, `ChainsEnd`).

## 5. What the code does otherwise

One disagreement has a run: `enroll_revives_erased`. `enroll`'s upsert is an INSERT ..
ON CONFLICT of everything it read, so a forget in between is undone, exemplars included,
after a receipt was issued (`fpm/enroll.py:82`).

The following were met while the models were written and bound what the properties say.
They are described here and not checked by a run.

*Consent plane.*
The opt-out of a subject is lost in the same way, since the upsert writes back every
column (`store.py:276`): the match that follows gets the name. `SubjectSetsFlags` and
`OptOutHonoured` name this as their one exception (`undone`), and the mix Overtaking reaches it;
in an erased row that an enrolment brings back, the flags it read count as chosen. An owner
or a name that a confirm writes between that read and the upsert is lost too.
Import also writes whole rows; the flags in the file count as the subject's choice.
A confirm that has passed the stay-anonymous gate writes the name over an opt-out
committed meanwhile (`store.py:542-547`); every later match withholds it.
Two confirmations for different people may leave the owner of one and the name of the
other (`store.py:545`). A former owner's forget, checked before the voiceprint was
rebound, still erases it (`consent_api.py:193`). Enrolment renames without an audit row
(`enroll.py:79`). A denied tag is mailed again with every propose (`main.py:388`), as if it waited, and is then in
no list of its reader (`store.py:602`). A caller that binds an address confirms a tag its
person has denied (`main.py:334`), and so does a propose that found the tag confirmed when a
deny commits before `confirm_proposal` reads the status again (`main.py:381`, `store.py:538`).
Knowledge reports a rebinding of a confirmed voiceprint that it did not do (`main.py:333`).

*Sessions.* A speaker is minted from spans of which one may have matched (`identify.py:216`), and
two sessions may mint the same person (`identify.py:180`). A locked label keeps its name
after an opt-out (`identify.py:170`), a relabelled chunk with the right id keeps its old
name (`identify.py:247`), and a provisional match names a speaker without an `identify`
row (`identify.py:198`).

*Keys.* A store opened under the fall-back key refuses rows sealed under the other one,
so the service is down until the agent is back (`store.py:255`; `enclave.py:13-15` calls
the fall-back transparent). The published `in_tee` is the environment's, not the key's
(`main.py:150`). Embedders of equal dimension share a store (`store.py:222`). Nobody compares the loaded embedder
with `FPM_ID_EMBED_DIM`, which is set apart from `FPM_ID_EMBED` (`config.py:58-60`): when they
are out of step the store opens, new rows have the model's length, `get` cuts them into
vectors of the configured one (`store.py:245`), and comparing or joining the two raises.

*Diarization.* Heartbeats stop while an upload is decoded (`service.py:116`); a clip that
is too long is reported in a 200 stream and not as 413 (`service.py:130`).

*Sign-in and inbox.* A retry of a sign-in is refused when another tab's callback removed the state
cookie (`consent_api.py:89`). An owner in capitals is mailed but not listed
under voiceprints (`store.py:460`), and recognitions beyond the limit are never shown
(`store.py:634`).

*Exemplars.* At the cap the exemplar evicted is the most typical one, so that consistent
clips can spread the exemplars until their mean nearly vanishes (`models.py:74`). Clips each close enough walk a profile away from where it began
(`enroll.py:71`); a match adds no exemplar (`identify.py:221`). A merge on import is not gated, so `RetryAccepted` speaks of
profiles never merged.

## 6. Not modelled, and why

* Ciphers, signature bytes and the attestation quote: functions, whose correctness is no
  question of states. `KeyBoot` models which key they use.
* Filter banks, the network, decoding by ffmpeg, the quality score, normalisation:
  stateless numerical code. Sub-centroids: only a test matches against them.
* Dashboard (`frontend/`, `webapp/`): a client whose requests are among those the plane and
  the inbox make in any order; nothing the service promises depends on its state.
* Configuration: constants read once; those that matter are CONSTANTS.
* Evaluation and demo scripts: offline.
* Vocabulary (`add_vocab`), the HTML page, clip streaming, health and error envelopes,
  the token table and its scopes: no state that the properties tell apart.
* A statement that fails inside a store method, leaving its transaction open for the
  next method to commit: SQLite errors are not modelled.

## 7. What could be added

1. `StoreTransactions`: failing statements inside a method.
2. Two sessions and one unknown person over the plane's store.
3. An abstract ledger of who was named by whom, implemented by the plane.
4. The sub-centroids of a mature profile, should anything come to match against them.
