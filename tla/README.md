# A TLA+ verification project for Auto Applier

Auto Applier aggregates job postings, keeps a confirmed profile and CVs per user,
and fills a job's own application form in the user's browser on an explicit
"Open & Fill". It never submits a form. The repository has a Go backend
(`src/backend`), a React web app (`src/web`), a Manifest V3 browser extension
(`src/extension`) and a package of form mappings (`src/packages/fill-mappings`).

This directory holds TLA+ models of the parts of it whose correctness depends on
interleavings, failures and restarts; the TLC configurations that check them; and
proofs, checked by TLAPS, of theorems about them.

## 1. Inventory

| Component | State it keeps | Operations | Interacts with | What is hard, and what correctness means |
|---|---|---|---|---|
| Arming store, `extension/src/arming.ts` | arms in `chrome.storage.session`, CV bytes by content hash in IndexedDB, one alarm | arm, consume, peek, sweep, clear | background worker, alarms | the worker may be stopped between two awaits; storage may reject; payloads are shared. One-shot arms, no arm without its CV, no CV without an arm for ever |
| Background worker and content script, `background.ts`, `content*.ts` | `armGeneration`, tabs, messages | openAndArm, inject, clearState, runContentFill | arming store, browser tabs, guard | tab loads race the arm, reloads race the injection, logout races everything. One fill per click, on the armed page, guarded; logout forgets |
| Submission guard, `guard.ts` | activation and authorization of forms | capture listeners, wrapped submit methods | the page | event order. No submission without a fresh user action |
| Fill engine, `packages/fill-mappings`, `apply.ts`, `fill.ts` | none | mapping of fields to values | page DOM | pure: never touches a submit control |
| Web bridge, `web/src/api/openfill.ts`, `auth/session.tsx` | pending request ids, the user's session | requestOpenAndFill, clearExtensionState, signOut | server, extension | 3 s timeout racing a late answer, a sign-out racing a click. The card says what became of its click; a confirmed sign-out leaves nothing armed |
| Applications and alerts, `internal/m5` | applications, job states, saved filters | create, update, confirm submit, notify | mailer, feed | read-modify-write without locks. A submission is known to the feed; each new match alerted once |
| Profile, `internal/profile` | one profile per user with `confirmed` | patch, apply parsed CV, confirm, arm, fill | cv, extension | whole-row read-modify-write. What is filled was confirmed |
| CVs, `internal/cv`, `internal/storage` | CV rows and versions, blobs | upload, parse, update, delete | parser, profile, account | blob and row are written in two steps. No blob without a row, one primary version as long as there are CVs |
| Account, `internal/account` | none | export, delete | cv, profile, m5, auth | several deletes in order, any may fail. Deletion can be retried and leaves nothing |
| Auth, `internal/auth` | users, sessions, verification and reset tokens, rate windows | register, verify, login, Google login, logout, reset | mailer, account | a registration is rolled back by hand, a login and a reset overlap. No half-made account, no session with an old password |
| Ingest, `internal/ingest`, `ingestctl`, `queue` | jobs with first/last seen, breakers, the running flag | RunOnce, Upsert, SweepStale, Trigger | sources, feed | boards that change between two pages, partial failure of sources, a pass racing the sweep. A seen job is not swept, a broken source starves no other, stated pay is a posting's |
| Feed, `internal/feed`, `web`'s `JobFeed.tsx` | the page shown | query, turn, dismiss | jobs, job states | offsets into a list that shrinks, one filter in SQL and in Go. Pages skip nothing; both filters agree |
| Parser, discover, telemetry, seed, `cmd` | none | request/response | LLM service, ATS boards | I/O |

Hazards, each at its line, are listed in `PROJECT.json`.

## 2. Plan

The most important behaviour comes first; what is done is marked.

1. **Open & Fill**, the program's core promise: `ArmStore`, `SessionArming`, `OpenFill`
   (done). The abstract store, the durable store that implements it, and the worker,
   tabs and content script composed with it. Theorems: every safety property of both,
   and the refinement (done).
2. `SubmissionGuard`, the guard's event protocol, with its theorems (done).
3. `AccountErasure`, uploads, parses and deletions that fail half-way, with its theorems
   (done).
4. `ProfileGate`: patch, parse, confirm and arm as concurrent read-modify-writes of one
   row, with its theorems (done).
5. `IngestPass` over `SourceFetch`, `JobListing` and `JobSearch`: the sources page by
   page, passes with circuit breakers and caches, upserts and sweeps, the trigger and the
   queue (done).
6. `Requests` and what is built on it: `ApplicationTracker`, `CvVersions`, `MatchAlerts`,
   `Credentials` over `RateLimiter`, `JobFeed` over `JobSearch` and `ApplicationTracker`,
   and next to them `WebBridge`; composed in `MCSeeker` (done). Their
   theorems are in `SeekerProofs`, those about `WebBridge` in `WebBridgeProofs` (done).
7. Further proofs: every safety property of `IngestPass`, in `IngestPassProofs`;
   `StatedPayOnly` under the condition that makes it true (done).
8. Left to model: the answer snippets, the parsers' retries, and the export of an account.

## 3. Modules

### ArmStore

The abstract store, translated from the in-memory `ArmingStore` of `arming.ts`: one arm
per tab, each operation one step. `Take` removes an arm and `Deliver` hands it to the
page, because the code removes the entry first and answers afterwards; `Forfeit` is a
take whose answer is lost. `times` holds the times at which the requests that are still
outstanding were made: an operation works with the clock of its request, not of its step,
and may use none but those.

### SessionArming

`SessionArmingStore`: `session` is `chrome.storage.session`, `payloads` is IndexedDB
(the expiry of each content hash), `alarm` the expiry alarm. The promise chain `serial`
is `queue`, its running link `job`; every `await` of an operation is a `step`, and an
action runs from one await to the next. `local` is the operation's copy of the entries,
written back by `Persist`. At each await the call may reject (`JobFails`, `ReadFails`),
the worker may be stopped (`Kill`, and `Suspend` when it is idle), and the browser may
restart (`BrowserRestart`: session storage goes, IndexedDB stays, the alarm may stay).
`Wake` is the start-up sweep. URLs are compared after normalization, so a URL here is a
normalized one; CV bytes are their hash.

`ImplementsArmStore` maps the entry that a consume has found to `taken` once its removal
is persisted, which is the moment the arm is spent.

### OpenFill

`openAndArm` (`open`), `inject` (`inject`, one flow per `complete` event and one of
`openAndArm` itself), the tabs (`tab`: which document, whether complete, whether
guarded), messages (`ops` behind the store's queue, `answers` on their way to a content
script) and `runContentFill` (`fills`). It uses `ArmStore` through INSTANCE; what
`SessionArming` shows is what entitles it to. A tab may reload, be redirected or close
at any point, a logout may arrive at any point, and the worker may die.

### SubmissionGuard

`installSubmissionGuard` runs in the page's own thread, but page code is re-entrant: the
model has a `stack` of events, page scripts and guarded calls. An event passes the
guard's capture listener first (`phase` before/after), then any number of page listeners,
then its default action. A microtask runs when no script is left on the stack; that is
the rule of the HTML event loop the code depends on at `guard.ts:231`.

### MCGuardAndStore

One run for `SubmissionGuard` and for the liveness of `SessionArming`. The guard lives in a
page and the store in the worker, and they share no state, so each has a scenario of its own.

### AccountErasure

One account and the requests on it. A request is a program counter over the calls its
handler makes to Postgres and to the object store; each call may fail without effect
(`CallFails`), or take effect and lose its reply (`Goes`, `Ends`), and the server may
stop (`Crash`). Foreign keys are part of the model: a row cannot be written once the
users row is gone, and goes with it. The four deletes of M5 tables are one step, as no
property tells those tables apart. The in-memory repositories have no cascade and are
for development; the model is of Postgres.

### ProfileGate

`profile` is the user's row. A handler is `Load` (it reads the row and changes its copy),
`Save` (it writes the copy back) and the reply, kept per client in `request`; `Changed`
says what each handler makes of the row. `RequestFails` stands for a request that is
refused, a repository call that fails and a reply that is lost, each of which ends in the
same catch clause of the client. On the web side a `Panels` member is one mount of
`ProfilePanel`: `form` is what its inputs hold, `badge` what it says of the confirmation,
`loaded` that it is past its skeleton, `shown` the mount each tab shows and `home` the
tab of a mount. The end of a parse mounts a new panel (`ParseDone`); a handler of the old
one that is still running finds its panel gone, but still sets the App's `gate`. Confirm
is two requests, a PATCH of the form (`ClickConfirm`) and a POST (`ThenConfirm`).
`filling` is one `requestOpenAndFill`; such flows only read, so one is followed.

Fields are grouped by who writes them: `parsed` stands for those a parse overwrites,
`added` for those it keeps. A value is named after the panel or the parse it came from.
Left out: a client that gives up while its handler still runs, the rules for single
fields, and which CV a snapshot carries.

### JobListing, JobSearch, SourceFetch

Pure operators. `JobListing` is what becomes of one posting: the raw job that each kind of
source makes of it (`RawJob`), `Normalize`, `ParseSalaryIDR`, dates, seniority, the place.
Text is abstracted to the set of needles that the code looks for in it, and a number that
is printed and parsed back to the tokens it leaves, so that `%d` and `%g` differ.
`JobSearch` is what is done with a row: the filter of the feed in SQL (`FeedWhere`) and in
Go (`FeedMatches`), the filter of the alerts (`AlertMatches`), order and page, tags, score,
estimate and card. The order is stated rather than computed: `Ordered` is the listing of the
rows in which each comes before the next ones, of which there is one. `SourceFetch` is the registry (`BuildRegistry`) and, for each source,
what one page of its board adds to a fetch and whether it is the last, given the total that
the reply carries.

### IngestPass

`pass` is the pass that holds `runMu`: the source it is at, whether it fetches or stores,
and what it has read. A fetch goes page by page, and the board may change between two
pages (`Withdraw`, `Republish`); a conditional source may answer 304 for what the cache
holds. `breaker` and `cache` live in the process and are lost by `Restart`; `rows`, the
job table, and the queue's `job` survive. `ctl` is the controller's claim with its
throttle, `alive` the context of the periodic job, which may end while the job waits for
`runMu`. Time is kept as ages that stop growing where nothing depends on them any more.
`Sweep` may run at any time, also during a pass.

### Requests

The slots of requests that the modules below share: `req` holds for each what it asks,
about what, its next call, what it has read and its answer. A call may fail with or without
effect, bounded by `MaxFailures`, and calls of different requests interleave freely.

### ApplicationTracker

Creation, PATCH and confirmation of applications and the three changes of a job state, as
the reads and writes their handlers make; `apps` and `jobStates` are the two tables. The
history `lost` names jobs whose row was written over with an older copy: the code takes no
lock, and `SubmittedIsMarked` says exactly what that may cost; what it costs the statuses is
the finding `application_status_returns`.

### CvVersions

`files` and `primary` are the rows of `cv_files` and its `is_primary` column under the
partial unique index of migration 0010; uploads, updates, reads and the erasure of all
rows. The objects behind the rows are in `AccountErasure`.

### MatchAlerts

`pass` is the periodic pass over the users with the filters of the current one; requests
in the other slots notify one filter by hand, and create, delete and erase. `Look`, `Send`
and `Touch` are the three calls of a notification. `untouched`, `repeats` and `late` are
history: mails without their touch, filters that may therefore repeat themselves, and jobs
stored between a look and its touch.

### RateLimiter and Credentials

`RateLimiter` is the fixed window with its sweep. `Credentials` follows one address:
registration behind `registrationGate` and its roll-back, the verification link, logins with
a password or Google, the guarded routes, logout and the reset. A row is named by the
request that created it, a password by the request that set it; foreign keys cascade. A
token may expire at any time. `ServerStops` ends what runs and empties the limiters.
`unrolled` and `overtaken` are history: roll-backs that failed, and logins between whose
check of the password and whose session a reset took place.

### JobFeed

`view` is the list of jobs of one reader: the filters, the offset, the state of its fetch,
total and cards. A fetch is the two statements of `searchFeed` (count, then page) and the
states of its cards; a card that is dismissed goes through `ApplicationTracker`, whose
`jobStates` decide what is visible. The jobs themselves do not change here. `walk` is
history: what was shown since the filters were set, and whether the feed stood still.

### WebBridge

`flow` is `requestOpenAndFill` for each click: the two requests to the server, then the
message to the extension. `bridge` says whether there is an extension and whether the page
messages it directly or through its content script; `inbox` and `answers` are the
messages. `leaving` is `signOut`: the server's session ends first, then the store is
cleared. The worker remembers `armGeneration`, creates the tab, and arms it if no clear
has come between; it may stop at any time (`WorkerStops`), and the bridge gives up after
three seconds (`GiveUp`), which in the model is at any time. What happens to a tab once it
is armed is in `OpenFill`. `crossing` is history: clicks whose snapshot was on its way when
the clear was sent.

### MCSeeker

`ApplicationTracker`, `JobFeed`, `MatchAlerts`, `CvVersions`, `Credentials` and `WebBridge`
in one specification. `JobFeed` and `ApplicationTracker` share their tables and are
composed; parts that share no table commute, and each runs in scenarios of its own, ten in
all, that say which slots, failures, jobs and filters it has.

## 4. Runs

| Run | Instance | What it shows |
|---|---|---|
| `session_arming` | 2 tabs, 2 pages, 2 CVs, TTL 2, clock to 3, 2 arms, 1 waiting request, 1 rejected call, 1 crash | arms are one-shot; a live arm keeps its bytes and a timely lookup gets them; a store at rest holds no orphaned bytes and its alarm is right; all steps are steps of `ArmStore` |
| `open_fill` | 1 click, 3 documents, TTL 1, clock to 1, 1 logout, 1 kill | at most one form per click, on the armed page; guarded as long as the tab shows its first document; logout forgets; an acknowledged arm is used, unless the tab leaves the page, the arm expires or the worker dies |
| `guard_and_store` | the guard: 2 forms, 2 user gestures, 3 runs of page code, 2 calls; the store: 2 tabs, 1 page, 1 CV, TTL 1, 1 crash, no rejected call | submissions are paid for; the user's own is not refused; windows and permissions do not outlive their reason; CV bytes are erased in the end |
| `submission_guard_canceled` | 1 form, 1 gesture, 1 page listener | finding: a canceled user submission loses its authorization |
| `account_erasure` | 2 uploads, 1 parse, 2 erasures, 1 failed call, 1 stop | failures orphan nothing; listed CVs are stored; erasures can be repeated and an answered one is complete |
| `account_erasure_overlap` | 1 upload, 1 erasure, no failure | finding: an upload that overlaps an erasure leaves its object behind |
| `profile_gate` | 2 tabs, 2 panels, 1 parse, 3 clicks on Save or Confirm, any number of failures | only what is complete and stands confirmed is handed out; an uncrossed Confirm confirms its form; a tab shows its parse |
| `profile_gate_unreviewed` | 1 tab, 1 panel, 1 parse, 1 click | finding: a parse nobody has seen can be confirmed and armed |
| `ingest` | 5 worlds with one fault or one change of a board, 7 quiet worlds for the other kinds of source; page size 2, 2 failures to a breaker, all periods 1 tick | a listing that was seen is not swept; a board that keeps still is read whole; SQL, Go and alerts filter alike; stated pay is a posting's; a listing that stays is shown again and again |
| `ingest_printed_pay` | 1 quiet world with pay of ten million | finding: pay in numbers is printed so that it cannot be read back |
| `seeker` | 10 scenarios, each of up to 3 requests, up to 2 failed calls, clock to 2; 2 clicks and 1 failure for the page | submissions are known to the feed; alerts are exact; CVs have a primary one; accounts are whole and sessions current; pages cover the feed; a card tells the truth; a confirmed sign-out leaves nothing armed |
| `application_status_returns` | 3 requests on 1 job, no failure | finding: a submitted application goes back to `form_filled` |

**Why the bounds are enough.** Two tabs and two CVs let arms share and not share bytes.
A TTL of 2 with a clock to 3 lets a request be asked before and served after an expiry.
One waiting request behind a running one is the shortest queue in which requests get
old; longer ones repeat it. One rejected call or crash is placed at every await. Three
documents are a first load, a reload and a reload during the second injection. With one
click, `open_fill` leaves out two clicks at a time: they share the store's queue and
`armGeneration`, which `session_arming` (two tabs) and logout cover, but no tab id. Two gestures make
a stale authorization of an earlier one possible; three runs of page code nest a listener
in a handler in a task. Two erasures with one failed call let the second meet what the
first left behind. Two panels are either two usable tabs or, in one tab, a panel and the
one that replaces it after a parse, so that an orphaned handler meets its successor; three
clicks are a Confirm, a write that crosses it, and a Confirm after that. Tabs and panels
are interchangeable in the profile model (no operator picks one of them), which is what
its `SYMMETRY` uses; the run has no liveness property.

In `ingest` a page of two postings gives boards of three and four a second page, which the
limits of the paged sources leave room for; Remotive and Jobicy may keep three postings and
ask for two; two failures open a breaker and one tick closes it, so that a source is skipped
and tried again; one tick to staleness lets a listing be swept between two passes. A fault is
a failed request or upsert, a reply with a total that falls short, an ended context or a
restart, placed at every step of two passes and more; one change of a board falls between any
two pages. The postings carry the cases of the parsers: no name, not local, remote with and
without a place, hidden, pay in numbers, in words and in another currency. The quiet worlds
are for the sources that differ in how they page and read, not in how they fail. The printed
pay of the finding is kept out of them: on the board of a source that prints numbers, pay in
rupiah has at most six digits (`Stipend`), which print as they stand. `MCIngest` assumes, and
TLC evaluates, that all worlds of `ingest` are of this sort (`LegibleWorlds`, by
`PayIsLegible`) and that the world of the finding is not (`PrintedWorlds`).

In `seeker` three slots are the least for a request that overlaps two others, such as a
confirmation that is repeated after it failed while a dismissal is under way, or a first
upload between the two statements of an update; the credentials need three for a login
that overlaps a reset of a registered account. Two failures fail a call and its
roll-back. The alerts have the loop and one manual notification, two filters of two users
and jobs with and without a date; a clock to 2 has a time before, at and after a cutoff.
Two clicks of the page are one that has armed and one that is under way when the user
leaves. `Symmetry` permutes the slots, which only equality tells apart; the run has no
liveness property.

`CHECK_DEADLOCK FALSE` is set where a model stops when its bounds are used up, and each of
those programs is idle when nobody asks anything of it. `ingest` checks deadlock: its
clock and its queue always go on.

**Fairness.** `guard_and_store`: the guard needs none; for the store the event loop runs what is queued (`Serve`), time
passes, a due alarm fires, and a stopped worker starts again, which every tab that
finishes loading does through `onUpdated`. No call is assumed to be answered in any
order. No storage call is allowed to reject in this run: `arming.ts:165` throws the
rejection of an alarm's sweep away and the alarm is gone, so that after a rejection
nothing is promised until the next operation. `open_fill`: the worker's tasks run,
and the browser creates and loads tabs. Nothing the user does is fair. `ingest`: the pass
that holds `runMu` goes on (each call has a timeout), a waiting pass gets the mutex, the
queue schedules its periodic job and hands it to a worker, and time passes. No trigger,
sweep, restart, board change or fault need happen, and a source may be down for ever.

**Findings.**

1. `submission_guard_canceled` (`guard.ts:231`): the microtask that restores the
   authorization of a canceled submission runs between the guard's listener and the
   page's when the user submitted (no script on the stack), so it sees
   `defaultPrevented` still false. The test dispatches from script, where it works.
2. `account_erasure_overlap` (`cv/service.go:159`): an upload that stores its row after
   the erasure has listed the files loses the row without its object.
3. `profile_gate_unreviewed` (`ProfilePanel.tsx:227-228`, `profile/service.go:388-400`):
   `parsedcv.go:12` says that the user must review parsed data before a fill can be
   armed. `handleConfirm` confirms the row it reads, not the one its client has seen: a
   parse from the CV panel of the same page that is saved after Confirm's PATCH and before
   its POST is confirmed unseen.
4. `ingest_printed_pay` (`atssource.go:301`): pay in numbers is printed with `%g`, which
   writes ten million as `1e+07`, and parsed back from that text: the row states a pay that
   no posting has.
5. `application_status_returns` (`m5/service.go:514`): `handleUpdateApplication` refuses to
   move a status back ("application status cannot move back to form_filled", line 511) by
   the row it has read, and writes in a statement that does not look again: a submission
   that is written in between is undone by a PATCH to `form_filled`, which the tracker's list
   of statuses offers (`EnhancementsPanel.tsx:194`).

Met while modelling, and either within what a property allows or of a kind these models
do not check:

- The two `executeScript` calls of `inject` (`background.ts:71-79`) name a tab, not a
  document: if the tab reloads between them, the guard stays in the old document and the
  content script fills the new one. `UnreloadedFormIsGuarded` says what is left.
- A snapshot that the page receives after it has sent the clear of its sign-out still arms
  the extension with the profile of the user who has left; `SignedOutHoldsNothing` excuses
  exactly that. `signOut` ignores whether the clear was confirmed, and a logout that fails
  skips it.
- Workday and SmartRecruiters end a fetch at `offset + page >= total` without asking whether
  the reply has a total (`workdaysource.go:92`, `smartrecruiterssource.go:81`; the other
  paged sources test `total > 0`): a reply without one ends the fetch after its page. Nothing
  in the repository says what these boards promise, so that `FetchPage` counts it as a fault
  of the board, like a total that is too small.
- The guard authorizes a form at the keydown of Enter and again at the implicit click
  (`guard.ts:168`), and `SubmissionsAreActivated` counts both: page code that submits once
  more after an Enter is within it.
- A PATCH to `submitted` marks the job as applied; one to `viewed`, `rejected` or
  `interview` straight from `form_filled` does not.
- A registration that is rolled back while a Google login links the same new row deletes
  the account of the user whom Google has vouched for (`auth/service.go:457`).
- A filter that is deleted, or an account that is erased, during a pass of the alerts ends
  the pass for every later user. A job stored between a look and its touch, with a date
  before the touch, is never told of. `NotifyNewMatches` tests `u.Verified`, which holds
  for every user who can have a filter.
- Migration 0009 leaves `UNIQUE (user_id, name)` unnamed, so that Postgres names it
  `saved_filters_user_id_name_key`; `m5/pgxstore.go` looks for
  `saved_filters_user_name_key` (and likewise for snippets), so that a duplicate name is
  answered 500 and not 409.
- `m5.ExportUser` returns `(UserData, error)` and so does not satisfy
  `account.AdditionalExporter` (`account/service.go:45`); the assertion at line 65 fails
  quietly and the export omits the M5 data.

## 5. Proofs

`SessionArmingProofs` proves, for every number of tabs, pages, CVs, requests, failures
and crashes, every TTL and every bound:

- `TypeCorrect`: `Spec => []TypeOK`;
- `OneShot`: `Spec => []NoSecondGrant`, no consume materializes an arm that a page has
  already received;
- `LiveArms`: `Spec => []LiveArmHasItsPayload`, and `MatchedCvs`:
  `Spec => []MatchedCvIsThere`;
- `NoOrphans`: `Spec => []QuietStoreHasNoOrphan`, and `AlarmIsSet`:
  `Spec => []QuietAlarmIsNextExpiry`;
- `Implements`: `Spec => ImplementsArmStore`.

They rest on `SessionArmingAssumption` and on `NoneAssumption` (`null` is neither an
entry nor a request nor a match). `NoSecondGrant` is not inductive: it says
nothing of the copy an operation works on. `OneShotInv` adds

- `JobShape`: which kind of job can stand at which await;
- `CopyShape`: what `local` may hold relative to `session`, before and after `Persist`;
- `IdsAreUnique`: an id names one arm, stored, taken or granted;
- `FoundIsTaken`: the arm a consume found is, before `Persist`, the one its tab still
  holds, and afterwards no tab's.

The steps that leave the core variables alone, those that drop the running job, and those
that copy the session into `local` are one lemma each (`CoreFrame`, `IdleFrame`,
`BeginFrame`); every other action has a step of its own in `ShapeStep`.

That an arm has its CV needs an account of time, because a request is served with the
clock of its call. `LiveArmHasItsPayload` speaks of the present; what keeps it true is a
statement about every request that may still act. `PayloadInv` says

- `CopyIsExact`: `local` is, at each await, exactly what the operation makes of `session`;
- `TimesOrdered`: requests are served in the order of their times, none of them ahead of
  the clock;
- `ReleasedIsUnused`: what is about to be deleted is what the copy no longer refers to,
  so that a shared CV stays;
- `ArmsKeepPayloads`: an arm whose expiry lies after the time of *any* outstanding request
  has its payload, stored until that expiry or longer. The present alone would not do: a
  lookup that has waited past an expiry still matches the arm by its own clock, and has to
  find the CV then (`MatchedCvIsThere`).

`MatchedCvIsThere` is then part of the invariant. `TidyInv` is about the converse, no CV
without an arm: unless a sweep waits or the running job ends in one, everything stored
beyond the arms' CVs is in the list that the running job deletes. `Implements` maps the
step that writes the copy back to the operation of the promise (`PersistStep`), the answer
of a consume, or its loss, to `Deliver` and `Forfeit` (`EndStep`), and every other step to
nothing or to a change of the outstanding times (`UnseenStep`). It is `CopyIsExact` and
`TimesOrdered` that make those steps the promise's.

`OpenFillProofs` proves, for every number of clicks, documents, logouts and kills, from
`OpenFillAssumption`:

- `OpenFillTypes`: `Spec => []TypeOK`;
- `OneFill`: `Spec => []OneFillPerClick`;
- `LogoutForgets`: `Spec => []LogoutForgetsClicks`;
- `GuardFirst`: `Spec => []UnreloadedFormIsGuarded`.

The invariant `OpenFillInv` adds

- `Types`: the full types, those of the operations in the queue included;
- `OpsInv`: what a waiting operation says of its tab, and that behind the clear of a logout
  only arms of clicks made after that logout wait (`InOrder`), one for each tab;
- `FlowInv`: the generation a click remembers lags behind the worker's by exactly the logouts
  since that click. This is why comparing the two is enough, and why a kill, after which the
  worker counts from 0 again, cannot make an old click pass for a new one: it loses the
  clicks too;
- `ArmInv`: the arm of a click is at one place, still to be stored, in the store, taken,
  on its way to a document, or in a filled form. A document that asked for it had the guard
  if it was the tab's first (`AskedOn`), which is what `GuardFirst` needs.

`SubmissionGuardProofs` proves, for every set of forms and however deep the page nests
its events, from `SubmissionGuardAssumption` (the bounds are numbers):

- `GuardTypes`: `Spec => []TypeOK`;
- `Activated`: `Spec => []SubmissionsAreActivated`;
- `NotRefused`: `Spec => []UserIsNotRefused`;
- `Scoped`: `Spec => []PermissionsAreScoped`;
- `Latest`: `Spec => []ActivationIsLatest`, which is inductive by itself.

A step changes the top of the stack only, so the proofs number its frames from below
(`At`), where a frame keeps its number for as long as it is there. `GuardInv` says

- `Layered`: what may lie on what: listeners on events, calls on listeners and handlers,
  and events that are not the user's on page code;
- `Started`: what the user has started lies at the bottom, and leads to a submission only
  of a form that is authorized or whose authorization page code has used up, which is
  `UserIsNotRefused` before it is too late;
- `Called`: a form with the permission of a method has that method on the stack;
- `CreditInv`: the counting argument. A form's submissions that took place, the submit
  events under way that will submit it or hand their authorization back (`Owing`), and the
  permissions that stand for it (`Standing`) are together no more than its activations.
  Each action moves a unit from one of these to another or drops it; only the user adds one.

The lemmas about pushing, popping and replacing a frame come once for each of the four
(`LayerPush`, `CountPop`, `StartedBecome`, ...), and each action then has a lemma that
cites them.

`AccountErasureProofs` proves, for every number of uploads, parses, erasures, failures
and stops, from `AccountErasureAssumption` (the kinds of request are disjoint, and
"nobody" is none of them), that every reachable state satisfies `TypeOK`,
`StoredBlobIsListed`, `ListedCvIsStored`, `ErasureErrsWithCause` and `ErasedIsGone`. The
invariant `Inv` adds

- `Protocol`: requests are answered when they are done, and rows come last in an upload;
- `Cover`: beside a running erasure, every upload counts as overlapped and every row
  with an object is overlapped or in the erasure's remaining list, which is what makes
  it safe to delete the rows by user once the list is empty;
- `Gone`: account, eraser and rows agree, for the cascade and the second erasure;
- `Uploaded`: an upload about to write its row has its object.

`ProfileGateProofs` proves, for every number of tabs, panels, parses and clicks, from
`ProfileGateAssumption` (panels, parses and the two special values are distinct, the bound
is a number):

- `TypeCorrect`: `Spec => []TypeOK`;
- `ConfirmationIsFaithful`: `Spec => []ConfirmedAsShown`;
- `ParseReachesReview`: `Spec => []ParseIsShown`;
- `GateHolds`: `Spec => FilledIsConfirmed`, an action property.

Their invariant `Inv` adds

- `Protocol`: who sends which request, and that only a POST to confirm is about to write
  a confirmed row, and a complete one;
- `Standing`: a stored confirmation is of what is stored, complete, which is what
  `handleFill` relies on when it checks `confirmed` alone;
- `Uncrossed`: from the PATCH of a confirming panel to the end of its POST the row is the
  panel's form, unless another write came between;
- `Mounting`: a tab shows a panel of its own, and a panel that saves has loaded;
- `Following`: a panel that is shown after a parse has ended loads a row that has been
  through it. It holds because `ParseDone` mounts a new panel whose first load is later
  than the save; of the old panel, which may still be waiting for its own first load,
  nothing is claimed.

`Inv` too was checked with TLC first. `GoesOn` and the other lemmas on `request` say
what one step does to it; each conjunct then has a step lemma with a case per action.

`SeekerProofs` is about what is built on `Requests`. It first says what one step makes of
the slots (`GoesOn`, `IsAnswered`, `Begins`, `NoneRuns`), for any set of operations, calls,
readings and answers. Of `ApplicationTracker` it proves, for every number of requests, jobs
and failed calls, from `RequestsAssumption` and `TrackerAssumption` (the listed jobs are jobs, and `None` is
neither an operation nor an answer):

- `TrackerIsTyped`: `TrackerSpec => []TrackerTypeOK`;
- `SubmissionsAreMarked`: `TrackerSpec => []SubmittedIsMarked`.

The invariant, `TrackerInv`, adds `MarkProtocol`: which request makes which call, and what it
holds when it makes it. `SubmittedIsMarked` is inductive beside it because a step that
takes the mark away puts the job into `lost`, and the step that answers a submission has
marked its job (`MarkMoves`, `MarksStay`, `KeepsMarks`).

Of `CvVersions` it proves, for every number of uploads, updates and failed calls, from
`RequestsAssumption` and `VersionsAssumption`:

- `VersionsAreTyped`: `VersionsSpec => []VersionsTypeOK`, with at most one primary row;
- `PrimaryIsKept`: `VersionsSpec => []FilesHavePrimary`.

The invariant, `VersionInv`, adds `VersionProgress`, the most interesting part of which is that an upload about to
insert a row has seen that it is the first, or finds that there is a file, or an erasure
took place in between; and `Excused`, which names the request that accounts for a user
without a primary version.

Of `MatchAlerts` it proves, for every number of users, filters, jobs, notifications by hand
beside the pass, and failed calls, from `RequestsAssumption` and `AlertsAssumption` (the
pass has a slot, and `None` is no time):

- `AlertsAreTyped`: `AlertsSpec => []AlertTypeOK`;
- `AlertsTellOnce`: `AlertsSpec => []AlertsAreExact`.

`AlertsAreExact` compares what was told with the present rows, but a notification works
with a row it has read some calls ago. `AlertsInv` therefore adds `Notifying`: of a row that
was read, by a notification or as one of those the pass still has before it, only the
cutoff has moved on since, and a mail holds exactly the jobs behind the cutoff it was made
with. `Passed` says that a touch has passed every job that was told, unless the filter is in
`untouched`; this is why the next look does not select it again. `Past` (no filter and no
job is dated later than now) is what makes a touch pass everything that its look saw.

Of `Credentials` it proves, for every number of requests, failed calls and stops of the
server, from `RequestsAssumption`, `CredentialsAssumption` (the bounds are numbers, and the
request of before is not one of those that run) and `UserRowsAssumption` (`None` is no row
of users):

- `CredentialsAreTyped`: `CredentialsSpec => []CredentialTypeOK`;
- `AccountsKeepWhole`: `CredentialsSpec => []AccountsAreWhole`;
- `SessionsEndWithPassword`: `CredentialsSpec => []SessionsAreCurrent`.

`CredentialInv` adds what each request knows of the row it works on. `Acquainted`: the row of
a request that has created it is there until its own roll-back, for nobody else deletes it;
another's row may be gone at any call, and then the statement misses. `Owning`: a request
whose row is there has been answered or still works on that row. `Advanced`: before a
registration is answered, its account has consented and has its token or is verified, and a
login that has checked a password opens its session with the present one, or was overtaken.
`RowWhole` says that nothing refers to a row that is not there, that a token means consent
(so that `VerifyUser` cannot verify an account without it), and contains
`SessionsAreCurrent`. Most steps keep the row (`RowKept`), and then the other requests know
what they knew (`OthersKnow`); the two that create and delete it have a lemma of their own
(`StrangersKnow`). The limiters only decide which requests go on and have no part in the
invariant.

Of `JobFeed` it proves, for every finite table of jobs, page size up to `MaxLimit`, query and
number of dismissals and failed calls, from the assumptions of `ApplicationTracker` and
`FeedAssumption` (the table has a row for each listed job, rank numbers tell rows apart, dates
are numbers or missing):

- `FeedIsTyped`: `FeedSpec => []FeedTypeOK`, with scores between 0 and 100;
- `PagesCover`: `FeedSpec => []PagesCoverFeed`.

What a page holds depends on the order of the list, and `OrderedIs` says what that is: the
place of a row is the number of rows up to it. Rows are compared by date, then by rank, and
no two are equal, so the places are 1 to the number of rows, one each (`OrderIs`), and the
listing that `Ordered` chooses exists (`OrderExists`) and is this one. `ResultIs` and `PageIs`
are the total and the page that are cut from it. The invariant `FeedInv` adds `WalkInv`: as
long as neither the feed nor the reader's filters have moved, the jobs before the offset have
all been seen, the count that was read is the size of the list, and the rows that were read
are its page. A step that changes a job state ends this (`ListKept` is about those that do
not), as the property says. `ScoreIs` is the one piece of arithmetic, a percentage that is
rounded and capped.

`WebBridgeProofs` proves, for every number of clicks, faltering calls and stops of the
worker, from `WebBridgeAssumption` (the bound is a number, and the message `"clear"` is no
click):

- `BridgeIsTyped`: `BridgeSpec => []BridgeTypeOK`;
- `CardIsTrue`: `BridgeSpec => []NoticeIsTrue`;
- `SignOutClears`: `BridgeSpec => []SignedOutHoldsNothing`.

The page, the worker and the messages between them each hold a part of a click, and the
properties relate only the ends. `BridgeInv` adds

- `PlaceInv`: a click is in one place at a time, with the page, once in the inbox, with the
  worker, or answered; an answer "yes" is on its way only for an arm that was acknowledged;
- `CardInv`: who may have opened the posting. `opened` is at most one by the worker and one
  by the page, and the page opens it only after it gave the click up or where there is no
  extension;
- `ClearInv`: a clear is sent once, after the session has ended; no click stands behind it
  in the inbox, and no worker step of the present generation is under way once it has been
  answered, except for the clicks in `crossing`. This is where `armGeneration` is needed: a
  tab created before the clear was handled has a smaller generation, or was lost with the
  worker that counted.

Each part has a step lemma with a case per action; `OpeningMoves` and the lemmas on `flow`
say what a step makes of the record of one click.

`IngestPassProofs` proves, for all worlds (configurations, boards, faults and changes), every
page size, and all limits of time, from `PageSizeAssumption` (a page has room),
`IngestAssumption` (the limits are numbers), `WorldsAssumption` (each source that the
world's configuration registers is of a known kind, has a positive limit, as the constructors
see to, and a board, which is a sequence of postings whose figures and dates are numbers or
missing), and for `FiltersAgree` `QueriesAssumption` (the figures of a query too):

- `IngestIsTyped`: `Spec => []TypeOK`;
- `SeenStaysActive`: `Spec => []SeenIsActive`;
- `WholeBoardFetched`: `Spec => []WholeBoardIsFetched`, for any totals in the replies but
  those that fall short (`FallsShort`), after which the code promises nothing of a fetch;
- `FiltersAgree`: `Spec => []SearchAgrees`;
- `PagesAgree`: `Spec => []SearchesAgree`, that `Search` of the Go repository and `searchFeed`
  of Postgres give the same total and the same page of any reachable table, for every limit,
  offset and order;
- `PayIsStated`: `Spec /\ PayIsLegible(world) => []StatedPayOnly`.

`WholeBoardIsFetched` speaks of the end of a page loop; `FetchInv` is the loop invariant. As
long as the board has not changed since the first page and no total has fallen short, the
fetch has read a prefix of it and kept the named postings of that prefix (`Reading`), fewer
than the limit; Workday and SmartRecruiters, which skip whole pages, may stand past its end.
That a page moves
from one prefix to the next is `NamedOfSum`: the postings kept of two pages are those kept of
the first and then those of the second. For this `NamedOf` names the n-th kept posting by its
position, and the lemmas about positions count them by induction over the naturals, in the
form of a smallest element (`SmallestIsThere`, from `WFMin`). `PageIsRead` then has a case for
each kind of source, which shows that what makes the kind stop (a short page, a total that is
reached, an offset past the limit, a single request for at most a page) means that it has enough (`Enough`), or that it belongs to
the kinds that count dropped postings and owes nothing of such a board. `OwedInv` follows the
fetch into the table: what is still to be stored are the last of the owed postings.

`SeenIsActive` needs `RowsInv`: no row is older than the last time that its listing was shown,
and a swept row is older than `StaleAfter`. It is the pass that could break it, because it
notes a listing as shown only when its source is done; `StoreInv` is the account in between:
each listing that was shown and not lost is still to be stored, or has a row that is no older
than the fetch.

The two filters of the feed write their comparisons the other way round and with NULL, so they
agree only where rows hold numbers. `FiguresInv` says that they do: `RowHasFigures` follows a
posting through the raw job that each kind of source makes of it (`RawIs`), the pay that is
printed and parsed back (`PayIsText`, `PayIs`), the dates and the years of experience, and
`FiguresKept` the row through upserts, sweeps and time. That both searches page alike
(`PagesAgree`) follows.

`StatedPayOnly` is false of some worlds, as `ingest_printed_pay` shows, so `PayIsStated` has a
hypothesis about the world: on the board of each source, a text that the source passes on as
pay states figures of its posting, in rupiah, and rupiah figures that the source prints are
below a million, which `%g` writes in full. The run `ingest` is of such worlds only, and the
world of the finding is not one. `LegibleInv` follows the hypothesis through the pass: boards
show only what they showed at the start, and a fetch has kept only postings of its source's
board. `RawPays` shows, for each kind of source, that what it makes of a legible posting reads
as pay of that posting or as none; `EstimateIs` that an estimate has its bounds in order;
`RowIsPaid` and `PaidKept` that this is so of the row that is stored and stays so.

The invariants were checked with TLC before they were proved, those of `OpenFillProofs` in
a form that ranges over the operations in the queue. The type invariants of
`AccountErasure`, `ProfileGate`, `ApplicationTracker`, `CvVersions`, `MatchAlerts`,
`Credentials`, `JobFeed` and `WebBridge` are proved and therefore not among the properties of
the runs.

Only model-checked: liveness under fairness (`PayloadsAreErased`, `AcknowledgedArmIsUsed`, and
`ListedJobIsShown` of `ingest`), which is out of the prover's reach, and the counterexamples of
the five findings. What a recursive computation yields for every input is
out of reach too; the models avoid it by stating the order of the feed and the kept postings of
a page as what they are, not how they are computed.

## 6. Not modelled

`PROJECT.json` lists every component with its status.

- The fill engine is a pure mapping run to its end in one task of the content script; its
  field maps are data.
- The parsers, the telemetry service, discovery, seeding and the safety scans are
  request/response code or command-line tools around services that are not here, and keep
  no state between calls.
- Of the HTTP shell and the commands, the registration gate, the alert loop and the start of
  the passes are in the models; wiring, middleware and migrations are not, except for the
  keys and indexes that decide what a statement does.
- The in-memory repositories are for development and demonstration. The models are of
  Postgres; `FeedMatches`, the Go filter, is there to be compared with the SQL one.
- `HTMLSource` is wired by no registry. Answer snippets are one statement each. The export
  of an account only reads.
- Message validation, origin checks, bearer tokens and the parsing of headers decide what
  counts as a request, and appear as the requests the models enumerate.
- A job dated in the future, two clicks of one card, and erasures of an account while
  `Credentials` runs are left out; the last are in `AccountErasure`.
