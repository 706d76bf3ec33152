# Verification of FeedyRuby's stateful core

FeedyRuby is a survey platform: a Next.js server (`apps/web`), a survey client that runs in
the respondent's browser (`packages/surveys`), an SDK that decides when a survey is shown
(`packages/js-core`), and packages shared by them. This directory holds TLA+ models of the
parts whose correctness depends on the order in which things happen, TLC configurations that
check them on small instances, and proofs checked by TLAPS.

## 1. Inventory

| Component | State it keeps | Operations | What is hard |
|---|---|---|---|
| Response queue (`packages/surveys/src/lib/response-queue.ts`) | in-memory queue, map to IndexedDB ids, two locks shared by all instances of a survey | `add`, `processQueue`, `sendResponseWithRetry`, `syncPersistedResponses`, `sendResponse` | two sending paths, suspended at a dozen awaits, compete for the same answers; retries; instances replaced under way |
| Pending responses and progress (`offline-storage.ts`) | two IndexedDB stores | add, list, count, remove; save, patch, clear progress | failing requests, writes nobody waits for, reload between two writes |
| Survey page (`components/general/survey.tsx`) | current block, error card, "sent" flag, sync guard | submit, back, retry, restore, sync effect | effects re-run while calls of the earlier run go on |
| Survey state (`survey-state.ts`) | response id, display id, accumulated answers, bootstrap flag | updated by both sending paths | shared and mutable across awaits |
| Response endpoints (`apps/web/app/api/v1`, `v2`, `client/.../responses`) | responses and displays in PostgreSQL | create, update | commit and reply are not atomic; duplicates; finished responses |
| Quotas (`modules/ee/quotas`) | quota links of responses | evaluate, count, screen in or out | concurrent counts against a limit |
| js-core command and update queue (`packages/js-core/src/lib/common/command-queue.ts`, `user/`) | queued SDK calls, debounced user update | add, run, wait, processUpdates, logout | a pending flush racing new updates and logout |
| js-core widget and survey selection (`survey/`) | the survey being shown, delays, closed surveys | trackAction, render, close | timers and asynchronous rendering |
| Response pipeline (`modules/response-pipeline`) | jobs, webhooks, response counts | process a job, auto-complete | jobs delivered more than once |
| Telemetry (`.../telemetry.ts`) | last-sent time and a lock in the cache | send once a day | several servers, cache failure |
| Survey scheduling (`modules/survey/scheduling`) | publish and close dates, delayed jobs | schedule, reconcile, run | lost, late and stale jobs |
| Background jobs (`packages/jobs`, `instrumentation-jobs.ts`) | worker, retry timer | start, retry, shut down | start and shutdown racing |
| Cache (`packages/cache`) | Redis keys | withCache, tryLock | fail-open errors, stale fills |
| License check (`modules/ee/license-check`) | answers, record and lock in Redis, memory of each instance | request, recheck | several instances, failing service, lifetimes that follow one another |
| Billing, accounts, contacts, integrations, editor, dashboards, rendering | database records, caches | request handlers | little interleaving inside the code itself |

`PROJECT.json` lists every component with its status, and under `hazards` the lines where the
code can go wrong in a way tests hardly reach.

## 2. Plan

| Module | Models | State |
|---|---|---|
| **ResponseQueue**, **ResponseQueueClaims** | the two sending paths, IndexedDB, the page that drives them, the server's replies | done |
| **ResponseQueue_proofs**, **ResponseDelivery_proofs** | type invariant, one sender, head is sent; nothing forgotten, "sent" is stored, one response | done |
| **SdkQueues**, **SdkQueues_proofs** | CommandQueue, UpdateQueue, `setUserId`, attributes, `logout`, setup | done, every invariant proved |
| **Widget**, **Widget_proofs** | which survey the SDK shows, and when | done, every invariant proved |
| **SurveyDates**, **IdealSchedule**, **SurveyStatus**, **SurveyStatus_proofs** | status and dates of a survey; what scheduling promises; who changes it, in which steps; the refinement | done, every safety property proved |
| **ResponseServer**, **ResponseServer_proofs** | creates and updates with quotas, and the job of a finished response | done, every safety property proved |
| **License**, **License_proofs** | the license check of several instances over one Redis | done, every property proved |

Left: a proof of `AppliedInOrder`, the one safety property that is only model-checked (section 3);
start and shutdown of the background workers, telemetry's lock and the cache package.

## 3. ResponseQueue

JavaScript runs one task at a time, so a step is the code between two awaits. A suspended async
function is a record (`Frame`): the await it is at and the locals it uses afterwards. Frames that
wait for IndexedDB are in the sequence `dbq` (transactions on one object store are ordered);
frames that wait for the network or for a back-off timer are in `net`, and any of them may resume.

| Model | Code |
|---|---|
| `queue`, `known` | `ResponseQueue.queue`, the keys of `pendingDbIds` |
| `syncing`, `busy` | the module-level maps `syncingBySurvey`, `requestInProgressBySurvey` |
| `rid`, `disp`, `boot`, `acc` | the fields of the shared `SurveyState` |
| `cur`, `syncRef`, `err`, `ended`, `finished` | the component's memo, ref and state |
| `idb` | the store of pending responses of this survey |
| `srv` | the server's responses: display linked, answers merged, finished, deleted |
| `Submit` | `onSubmit` → `onResponseCreateOrUpdate` → `add` up to the first await |
| `ProcessQueue`, `AddDone`, `CountDone` | `processQueue`, its guards read again after the count |
| `PqAccepted`, `PqRefused`, `BackoffEnds` | the loop of `sendResponseWithRetry` and the handlers |
| `StartSync`, `GetDone`, `SendEntry`, `SyncReplied`, `SyncRemoveDone`, `CompleteSync`, `EndSync` | `syncPersistedResponses` from await to await |
| `RunEffect`, `PendingCountDone` | the effect of `survey.tsx` and its `syncPending` |
| `ServerReply`, `CommitCreate`, `CommitUpdate` | POST and PUT of a response |

`ResponseQueue.add` writes to IndexedDB and processes the queue when that promise resolves;
`AddDone` does both. `CompleteSync` calls `ProcessQueue` before `EndSync`, as the code does, with
the lock still set. A reply is chosen by what the server has stored: a display that already has a
response, a finished response or a deleted one give the refusals the handlers give. A committed
request may be answered with an error (the pipeline job could not be queued, or the connection
broke) when `LostReplies` is set, and a request in order may be refused (rate limit, spam check,
validation) when `Refuses` is set.

Abstractions. An answer is its number, an entry has only the snapshot fields the sync reads, the
status of a reply is its class (400–499, 404, other, spam check). A quota reply whose action does
not end the survey counts as `"ok"`. IndexedDB entries are sorted by `createdAt`, which the model
takes to grow with the answers. The server end of a request is atomic, and the end of a sync does
not wait for the progress store to be cleared (`clearSurveyProgress`). Answers of one session come
in order and the last one finishes the survey; going back to an earlier block is not modelled.

### Runs

| Run | Bounds | Shows |
|---|---|---|
| `offline` | 2 answers, 1 instance, 2 responses, 2 attempts, lost replies, refusals, deletions | type correctness; the locks exclude each other and are held exactly while their call is under way; no answer disappears from everywhere |
| `instances` | 3 answers, 2 instances, 2 attempts, every reply arrives | what is shifted is what was sent; one response per page; answers applied in order |
| `online` | 3 answers, persistence off, 4 attempts (as configured), lost replies, refusals, deletions, fairness | "sent" means stored; an answer is stored or the error card appears |
| `dbfaults` | 2 answers, refusals, IndexedDB requests fail or reject, fairness | neither lock is held for ever |
| `kickoff` | 2 answers | refutes line 287: an answer whose write ended during a sync is left in the queue, with nothing under way that would send it |
| `cut` | 2 answers | refutes line 237: a sync cuts an answer it has not sent |

Why the bounds are enough. The races need a call suspended at each await of one path and one
answer more than that call has seen: two answers show them, the third lets an answer arrive
between two others. Two instances are one more than the code has at a time; their suspended calls
share the locks, so a third adds no lock state. Two responses are one more than there should be.
`MaxEffects` bounds how many `syncPending` calls wait at once; flicker of the connection could
otherwise start any number of them, each of which only reads a count and tries the lock.
Deadlock is not checked: a page whose answers are all sent and that nobody touches stops.

Fairness (`online`, `dbfaults`). IndexedDB, `fetch` and timers call back in the end, so the
database and the network steps are weakly fair. `dbq` is served in order and `net` holds one
frame, so fairness of the disjunction is fairness of each frame. Nothing is assumed of the
respondent, the connection or what the server answers.

Where properties stop. `NoAnswerForgotten` is false when IndexedDB writes fail: the answer lives
in memory only and a later sync cuts it by count. With
`Persist`, `AppliedInOrder` needs an IndexedDB that works and a server that refuses nothing: under
any one of `Refuses`, `Deletions` and `DbFaults`, TLC finds an answer applied after a later one,
since a sync that stops early leaves delivered answers in the memory queue. Both are hazards of
`PROJECT.json`.

### Proofs

`ResponseQueue_proofs` proves, for every value of the constants under `BoundsAssumption` and
`ModeAssumption`:

- `TypeCorrect`: `Spec => []TypeOK`
- `OneSender`: `Spec => []OneSenderPerSurvey`
- `HeadIsSent`: `Spec => []SentIsHead`

They share the inductive invariant `IInv == TypeInv /\ Locks(...) /\ Sent(...)`. None of the three
is inductive alone: that a step finds an entry to send rests on the sync that fetched it, that the
head is the sent answer rests on no sync cutting the queue meanwhile, and that rests on the locks.
`Locks` and `Sent` take the state they relate as parameters, so that an action that calls several
functions in turn (`CompleteSync` calls `ProcessQueue` and then `EndSync`) is followed from call
to call. `TypeInv` adds that the entries form a chain, every non-empty subset of which has an
oldest element; chains are closed under adding an entry and under subsets, so that `Oldest` is
defined without an induction over finite sets. There is a lemma per operator, then one per action,
and the theorems combine them.

`ResponseDelivery_proofs` goes on from `IInv` to what is delivered:

- `NothingForgotten`: `Spec => []NoAnswerForgotten`, under `Persist => ~DbFaults`
- `SentIsStored`: `Spec => []FinishedIsStored`, under `~Persist`
- `OnePage`: `Spec => []OneResponse`, under `~LostReplies /\ ~Deletions`

The hypotheses fix modes of the model, not the state, and each is needed: where it does not hold the
code breaks the property. A failed write leaves an answer in memory only, and a sync cuts it (a
hazard in `PROJECT.json`). With persistence a page that is offline says "sent" by design. After a
lost reply the page does not know the response's id and, without a display, the server cannot tell
a second create from a first; after a deletion the code means to create again. Refusals, retries,
failing connections and recreated queues are covered by all three, lost replies and deletions by
the first two.

The first two share the inductive invariant `Delivery`. `NoAnswerForgotten` counts an answer in an
in-memory queue as held, but a step may cut that queue, so `Kept` leaves it out when there is
persistence: what a sync cuts must be stored, refused, in IndexedDB or on its way there already.
What makes steps keep this is what suspended calls promise (`Faithful`, `FaithfulDb`): an accepted
request's answers are stored, an entry is removed from IndexedDB only after its answer was stored
or refused, and while the bootstrap create is out, what it does not carry is kept. `InMemory` says
that without persistence IndexedDB and syncs are idle, so that the queue itself can be counted on.

`OnePage` rests on `Single`: every response id anyone holds (the page, an entry, a request, a
write under way) is of a stored response, and as long as the page has no id and no accepted create
is unread, nothing is stored. A create on the wire is then the first, because the locks allow one
request at a time and its reply is read before the next is sent.

Only model-checked: `AppliedInOrder`, which needs besides all this an order between the answers in
IndexedDB, in the queues and in the frames of `dbq`; and the liveness properties
`DeliveredOrReported` and `LocksReleased`, which are out of the prover's reach.

## 4. SdkQueues

The host page calls the SDK (`index.ts`) at any time; `CommandQueue` runs the calls one after the
other, and `UpdateQueue` collects what `setUserId` and `setAttributes` change and sends it in one
request 500 ms after the first of them. A step is a JavaScript task. `Settled` says that promises
are resumed before timers and replies are handled.

| Model | Code |
|---|---|
| `cmds`, `at`, `now` | `CommandQueue.queue` and what `run` is suspended at; `at = "loop"` with no commands is `running = false` |
| `isSetup`, `saved` | `status.ts`; whether the config in local storage fits, is missing or is an error state |
| `user`, `lang` | `config.user.data.userId`, `.language` |
| `updates`, `flush`, `sending` | `UpdateQueue.updates`, `pendingFlush` and what its handler waits for, the updates in the request |
| `stored` | the attributes the server has of each user |
| `Call`, `Run`, `RunAfterFlush`, `Execute` | `add`; `run` up to its first await and after the flush; the command |
| `SetUserId`, `SetAttributes`, `Logout` | `user.ts`, `attribute.ts` with `updateUserId`, `updateAttributes`, `tearDown` |
| `SetupAtOnce`, `SetupFetches`, `SetupDone` | the ways through `setup` |
| `Debounced`, `SendDone` | the handler of `processUpdates` up to the request, and from the reply on |

`allowed`, `owner`, `langs` and `lost` are history: who may be identified since the last logout,
whom an attribute was set for, which attributes are the language, and which were set during a
request or not stored by theirs: a request that failed, or one the server answered ok while it
left them out (an email that exists, a type that does not fit, an invalid or reserved key, too many
keys). `Store` leaves out any of them, in a reply of either kind; a language that was left out is in
the reply all the same (`LangInReply`), as `updateUser` returns what was sent.

Abstractions. An attribute is the number of the call that set it, each under its own key, so
that one never overwrites another. `track` and `registerRouteChange` are commands that wait and
then do nothing here. The legacy init that passes a user id to setup, debug mode, the periodic
refresh of the cached state and `waitForPendingWork` of the widget, which at most reuses a flush,
are left out. The handler can reject only when the config is null in a page that is set up, which
no call leads to.

| Run | Bounds | Shows |
|---|---|---|
| `sdk` | 4 calls, 3 users (one with too long an id), fairness | type correctness; a flush is never overlooked; logout is final; the three ways in which attributes can go missing; every call is run |
| `switch` | as `sdk` | refutes `user.ts:23`: attributes of the previous user are sent for the next one |

Four calls are setup, two that leave something pending or in the request, and one that meets it;
the saved config may already have a user. Five calls were tried too and show nothing more. Two
users with valid ids are what a switch needs. Calls may stop, so deadlock is not checked.
Fairness: `SdkStep` is weakly fair, because promises are resumed, the debounce timer fires, and
`fetch` ends with a reply or an error. Nothing is assumed of the page or of what the server
answers. One disjunction is enough: with the calls bounded, at most one of its actions waits
while another goes on, and each takes a command, a flush or a setup to its next stage.

`SdkQueues_proofs` proves, for every set of users and number of calls (`UsersAssumption`,
`CallsAssumption`), `TypeCorrect` (`TypeOK`), `FlushVisible` (`FlushIsVisible`), `LogoutIsFinal`
(`LogoutSticks`) and `AttributesAccounted` (`AttributesAccountedFor`). `LogoutSticks` alone is not
inductive: nothing in it stops a reply from setting a user after a logout. `IInv` adds that a flush
is under way exactly when there are updates, that the request is for a user who may be
identified, and that nothing is pending before setup; logout, which runs only with no updates,
then meets no request. `AttributesAccountedFor` also needs that every call is run once (the call
numbers in the queue grow and are above those already used: `Fresh`) and that the reply wipes only
what is in the request or counted as lost (`Pending`). That `Latest` yields a call number rests on
the library's theorem that the naturals are well-founded. `EveryCallRuns` is liveness and stays
with TLC.

## 5. Widget

A tracked action (the page's code, a page view, time spent on a page) goes through the surveys that
`filterSurveys` has left; `renderWidget` sets the flag `isSurveyRunning`, loads the survey library,
perhaps reCAPTCHA, and sets a timer for the survey's delay; the timer renders the survey, and
`closeSurvey` clears the flag. Between these steps the visitor navigates, logs in and out, answers
and closes, replies arrive, and the workspace state is refreshed.

| Model | Code |
|---|---|
| `cmds`, `at`, `cmd`, `todo`, `cur` | `CommandQueue.queue`, and where the running command is: `"flush"` (pending identification), `"loop"` in `trackAction`, `"load"` and `"captcha"` in `renderWidget` |
| `running` | `isSurveyRunning` |
| `timers`, `stack` | timers set by `renderWidget`, and `TimeoutStack.timeouts`, which keeps entries whose timer has fired |
| `screen` | the surveys rendered: container in the document or removed, component open, closing or closed |
| `person`, `live`, `filtered` | `config.user.data`, `config.workspace.data.surveys`, `config.filteredSurveys` |
| `pending`, `contacts` | the user in the update queue; what the server knows of each user |
| `dwell` | the entry of `timeOnPageTimers` |
| `fetch` | the user state that the refresh of the workspace captured before its request |
| `Run`, `RunAfterFlush`, `TriggerSurvey`, `LoadDone`, `CaptchaDone` | the command from await to await |
| `DelayEnds`, `DisplayDone`, `Answer`, `Close`, `Closed` | the timer, `onDisplayCreated`, `onResponseCreated`, `close` in `render-survey.tsx`, `onClose` |
| `Navigate`, `DwellEnds` | `checkPageUrl` with `checkTimeOnPage`, and the dwell timer |
| `FetchWorkspace`, `FetchDone` | `intervalHandler` before and after its await |

Removing a container unmounts nothing. A survey whose container a teardown or another survey's end
has removed still listens on the document, so `Close` (Escape, a click outside, or a timer of the
survey) is possible for every open survey, and `Closed` clears the flag and removes the first
container a second later, whoever they belong to.

`strays`, `stuck` and `stale` are history: the renderings the flag was taken from while they went
on; `renderWidget` was rejected; the refresh filtered for an earlier user. Each marks one thing the
code does, and the invariants say that nothing else breaks what they state. `strays` grows
(`LoseFlag`) by whatever is being loaded, waits or is mounted when the flag is cleared by something
that is not the end of the survey it was set for: a teardown; a navigation that takes back an entry
of the `TimeoutStack` whose timer has fired, or whose survey had lost the flag; the end of a survey
that had lost it. `OneAtATime` speaks of the others (`Holders`), so it goes on to say something
after such an event: the surveys let in later are one at a time, until one that was left behind
takes the flag from them, too.

Abstractions. There is one page view and one time-on-page action, with the same URL filter. Days
since the last display are a Boolean (`recent`), a display limit is one. `displayPercentage` and
missing languages are the choice to leave a survey out. The wait for an identification inside
`renderWidget` (lines 65–81) is left out because no command that tracks runs while one is pending;
`TypeOK` states it. The respondent's answers are those of one survey session, whose sending is
ResponseQueue.

| Run | Bounds | Shows |
|---|---|---|
| `widget` | 2 surveys (one by code, targeted and protected; one by page view and time on page), 1 user, 2 pages, 1 call, 2 navigations, 3 renderings, 1 refresh, fairness | one survey at a time; the flag never stays set without cause; the filtered list is up to date; every tracked action ends |

Two renderings are what it takes for one survey to meet another; the third is let in when a survey
that a logout has left behind is closed by Escape and takes the flag from the second. Two
navigations let a page be entered and left around them. `Pages` has one page that matches the filter and one that does not.
Tracking may come from a navigation as often as from a call, so that one call (a logout, a
`setUserId` or a track) meets up to four tracked actions. `OneAtATime` counts a survey from the moment its
rendering began to the end of its second of closing. A visitor may stop at any time, so deadlock
is not checked.

Fairness: `SdkStep` and `Identified` are weakly fair, since promises are resumed, the polling of
`waitForSurveysGlobal` gives up after ten seconds, script elements load or fail, and the update
request ends. Nothing is assumed of timers, the visitor or the refresh.

`Widget_proofs` proves, for all sets of surveys, users and pages, all filters and every number of
calls, navigations, renderings and refreshes, `TypeCorrect` (`TypeOK`), `OneSurveyAtATime`
(`OneAtATime`), `NeverStuckRunning` (`RunningHasCause`) and `FilterIsCurrent` (`FilteredIsCurrent`,
which every step keeps by itself).

- `CommandInv` adds to the types that a command that loads or awaits is a `track`, and that timers
  and containers are together no more than the renderings begun.
- `OneInv`: the flag is set as long as a survey holds it, and one at most does. `OneAtATime` alone
  does not say that the flag is set, which is what turns the next survey away. While a survey is
  loaded, all that wait or are mounted have lost the flag.
- `IdInv`: renderings have numbers of their own, so that the end of the survey that holds the flag,
  or its being taken back, leaves none that does.
- `CauseInv` is `RunningHasCause` with its conclusion named: the flag, when set, has a survey
  that loads, waits, is closing or is on screen with its container in the document. A container may
  be removed by another survey's closing, which takes the first one in the document.

`TimeoutStack` is the set `stack`: an entry has the number of its timer, and its place in the array is
the order of these numbers. `EveryTrackEnds` is liveness and stays with TLC.

## 6. Survey scheduling

A survey has a publication and a closing date, both optional. A daily job publishes paused surveys
and closes running ones whose date has come; so does every save, after it has written. **SurveyDates**
has the pure part: when a date is due, what the two transitions do, what saving does to the dates.
**IdealSchedule** says what this promises: the status changes at the very instant of the date.
**SurveyStatus** is the code: savers that hold a copy of some age, the daily job, and the response
limit, one database call per step, any of which may fail.

| Model | Code |
|---|---|
| `survey` | status, `publishOn` and `closeOn` of the row |
| `copy`, `current` | the survey in the editor, the status menu or the PATCH request; the status `normalizeSurveyScheduling` is given as the current one (read anew by `updateSurveyInternal`, as old as the copy in `executeV3SurveyPatch`) |
| `phase`, `time` | where a saver or the job is; the `now` its reconciliation captured |
| `Decide`, `Refuse`, `Write` | what the user chose; the validation error; the update of the whole row |
| `Start`, `LoadPublish`, `ApplyPublish`, `LoadClose`, `ApplyClose` | `reconcileDueSurveySchedules`: look for a due survey, update it if it still is, first to publish, then to close |
| `LimitReached` | `handleSurveyAutoCompleteSafely`, which sets the status and leaves the dates |
| `Fail` | a database error or the end of the process between two calls |

Time is a number and a day has two instants: the odd one is the run of the day, at which all
normalised dates lie, the even one is any later time of the day. An editor offers days whose run is
still to come. A survey begins as a blank draft, as `createSurvey` usually stores it. There is one
survey: the batches of `reconcileTransition` treat each on its own.

The refinement maps the survey to what it is once all that is due has happened (`AtTime(survey,
now)`), and a save that has begun to a pending decision, aged in the same way. `ActsOnTime`
then says that neither the job nor the reconciliation, nor how long they take or whether they fail,
can be seen: the one thing they change is how soon the row shows it.

| Run | Bounds | Shows |
|---|---|---|
| `schedule` | 3 instants, an editor and a menu or PATCH, 1 failure, 1 response limit, fairness | type correctness; nothing a run carried out comes back; the refinement; dates take effect |

Three instants are a run, a time between two runs, and the next run; a fourth was tried. Two savers
can overtake each other, the job and the limit. `NothingComesBack` has one exception in its history
variables: a save that ended between its write and its reconciliation leaves what it wrote to the
next run.

Fairness: the job is started again and again (the daily schedule of `instrumentation-jobs.ts`) and
its calls return. Users are not fair. Failures are bounded, so that a run gets through in the end.

`SurveyStatus_proofs` proves, for every set of editors and menus, every last instant and any number
of failures (`MaxTimeAssumption`, `SaversAssumption`, `BoundsAssumption`), `TypeCorrect`,
`NothingIsUndone` (`NothingComesBack`) and `Implements == Spec => ActsOnTime`. `TypeOK` is inductive. It gives the refinement two facts: dates
in the row are runs of the job, so that normalising them again changes nothing, and the publication
lies before the closing, so that publishing and closing at once is closing after publishing. The proof
then has a lemma per action: the job's and the reconciliations' steps are stutters, because
`AtTime` absorbs a transition applied with an earlier time; `Tick` ages; `Write` is the ideal save.

`NothingComesBack` speaks of moments between saves. Its invariant `SettledInv` holds at all times: a
closing that was due when the survey was last settled is owed by a saver that has written, still
reconciles, and does so with a time no earlier; a publication, by one that has not passed the first
half of its reconciliation; and the same holds of publications at the time of a run of the job that
has passed its first half, so that the end of the run settles both. `DatesTakeEffect` is liveness
and only model-checked.

What this does not show: a tab that still has the draft saves it as a draft again after the survey
was published elsewhere. The model allows it (a saver's copy may be of any age), and no document
says otherwise.

## 7. ResponseServer

The server side of ResponseQueue, for one survey: requests that create and update responses, each in
a transaction that evaluates the quotas, and the `responseFinished` job. Requests and jobs
run concurrently.

| Model | Code |
|---|---|
| `rows`, `links` | the responses and their `ResponseQuotaLink`s, as committed |
| `phase`, `req` | where each request is: `"checked"` (past the checks before the transaction), `"read"` (`updateResponse` has read the row), `"stored"` (written and evaluated, the row locked), `"committed"`; what it holds |
| `Arrive`, `Accepts` | the checks of the two handlers |
| `Read`, `Merged`, `Store`, `Write` | `updateResponse` or `createResponse`, then `evaluateResponseQuotas` |
| `Passed`, `ScreenedIn`, `Full`, `Ends`, `Linked`, `Ended` | `evaluateQuotas` and `handleQuotas` |
| `Conflict` | the unique constraints on `displayId` and `singleUseId` |
| `Announce`, `Fail` | `sendToPipeline`, or an error or the end of the process before or after the commit |
| `job`, `tries`, `count`, `emails` | the job of each request, `attemptsMade`, the response count it has read, e-mails sent |
| `Attempt`, `CompleteSurvey`, `Stall` | `processResponsePipelineJob` up to the e-mails; the auto-complete; BullMQ taking up the job of a dead worker |
| `Switch` | a change of the survey's status by hand |

PostgreSQL runs these transactions read committed: others see a transaction when it commits, and a
second writer of a row waits for the first. Requests are numbered in the order they arrive and
responses in the order they are first named. What a request submits is chosen when it is first
used. An answer either meets the quotas' logic or does not, and `WideQuotas` accept any answer, so
that an answer can be changed both ways. All quotas have the same limit. A webhook that is down (`broken`) is down for good.

The exceptions are part of the properties, as history variables that mark where the code itself
gives way: `raced` (two open transactions both passed a quota, and neither sees the other; or the
quotas could not be evaluated for a response that passed or was linked, which
`evaluation-service.ts:82` logs and ignores), `met` (two requests
for one response were under way at once: the check for a finished response is made before the
transaction, so that a late update takes back what the other has written), `dropped` (the queue
failed after the commit, and a retry is refused), `stalled` (the worker died after the e-mails).
`EndedByQuota` is the exception of `FinishedIsAnnounced`: a PUT that the quotas finish
reports the row of before (`[responseId]/lib/response.ts:11`), so that no `responseFinished` is sent.

| Run | Bounds | Shows |
|---|---|---|
| `responses` | 2 responses, 3 requests, 2 quotas with limit 1 (one ends the survey; the other counts partial submissions and accepts any answer), auto-complete at 2, 2 attempts, 1 failure or change of status, fairness | quota limits, announcement, one notification, the response limit, nothing taken back, every request and job ends |

Three requests are two that race for one response or one quota and one that comes late. Two
responses are what a limit of one and an auto-complete of two need. Four requests without
disturbances were tried and hold, too. Requests stop arriving, so deadlock is not checked.

Fairness: one weak fairness condition for all requests and jobs together: something goes on as long
as anything can. That is less than what the server and BullMQ give each of them, and enough because a
locked row belongs to a transaction that can go on.

`ResponseServer_proofs` proves, for every number of responses, requests and attempts, all quotas,
limits and bounds (`QuotasAssumption`, `NumbersAssumption`), `TypeCorrect`, `QuotaHolds`,
`FinishedAnnounced`, `OnceNotified`, `NothingIsTakenBack` and `AutoCompletes`: every property of the
run but `EverythingEnds`, which is liveness. None is inductive.

- For the quotas the invariant says that a place an open transaction has counted as free still is
  when it commits, unless it raced; the link is then within the limit.
- For the announcement, a finished response that no quota ended has a job, or a committed request
  that has yet to announce it, or the queue has failed.
- For the notifications, a response that has not met has one request under way and one job at most,
  the request knows the committed row, and a job that waits has sent no mail.
- For what is taken back, that knowledge of the row: a commit writes over what its request has read.
- For the auto-complete, the responses whose jobs have read too small a number are fewer than the
  limit as long as the survey is open: each has a row that the next job counts, so the one that
  would make them as many reads a number large enough.

## 8. License

A self-hosted installation asks the license service at most daily. Its answer is kept in Redis for
all instances, what follows from it in the memory of each, and a record of the last active check
starts a grace period of three days.

| Model | Code |
|---|---|
| `fetched`, `previous`, `lock` | the three keys of `getCacheKeys`, with the time they expire |
| `memory` | `memoryCache` of each instance |
| `check` | the requests (`getEnterpriseLicense`) and rechecks (`recheckLicenseAction`) under way: the await each is at, its answer and `previousResult` |
| `Ask`, `TryLock`, `Poll`, `Fetch`, `Store` | `fetchLicense` from await to await; `Fetch` is `fetchLicenseFromServerInternal` with its retries, `Store` the write of its answer, also that of the recheck |
| `Previous`, `Compute` with `Live`, `UseGrace`, `Default` | `computeLicenseState` |
| `Recheck` | the recheck up to its request, with `clearLicenseCache` |
| `Tick`, `Forget` | keys expire; a memory does after a minute, the lock after 90 seconds |
| `Change`, `Restart` | the license service changes its mind; an instance is restarted |

The unit of time is long against a check, a lock and a memory, so that it passes only when no check
is under way: which of two clocks of the same unit is ahead does not matter to lifetimes of hours
and days. `"unreachable"` stands for every failure that `fetchLicenseFromServerInternal` turns into
null, `"refused"` for 400 and 403. Callers that join a promise under way are one check; there is
one recheck per instance at a time.

`GraceKept` has three exceptions, and each of them alone breaks it: a failing call to Redis (a read
that fails is a record that is not there, and is then overwritten as one), a record written by
another check between a check's read and its verdict, and (`raced`) that record overwritten with a
failure.

| Run | Bounds | Shows |
|---|---|---|
| `license` | 2 instances, 5 units, lifetimes 2 (answer), 1 (no answer), 4 (record), grace 2, 2 events (changes, rechecks, restarts, failures) | the license ends in time; grace is given in full; answers are no older than they may be |

The lifetimes keep the order of the configured ones, with the record outliving the grace period by
the lifetime of an answer (four days, three days and one). Five units are the first answer, its
renewal by a cached one, and the grace period after that. Two events are a change and what meets it,
or two changes. Time is bounded, so deadlock is not checked; instances are interchangeable, hence
the symmetry.

`License_proofs` proves, for every set of instances, all lifetimes and any number of events
(`TimesAssumption`, `BoundsAssumption`), the four properties of the run: `TypeCorrect`,
`LicenseEnds`, `StatusStaysRecent` and `GraceIsKept`. The inductive invariants are

- `AnswersInv`: an answer about to be stored has just been given, and one in Redis, in a check or in
  a memory is within its lifetime, wherever it came from;
- `LicenseInv`: a record that says active is no younger than the last such answer allows;
- `GraceInv`: as long as no exception has happened, either the last check that found the license
  active is a grace period ago or the record is there and at most an hour older, and a check that
  need not renew the record it has read can rely on the one that is there now. The latter is what
  makes two checks at once harmless, and it needs that an hour is less than the grace period.

## 9. Not modelled

Everything `PROJECT.json` lists as `not_modelled`, with the reason there. In short:

- **Progress and restore** of the survey page, and going back to an earlier block: what a reload
  finds depends on rendering and survey logic more than on the order of steps.
- **Survey logic, validation, recall**: sequential functions of large inputs, well covered by the
  unit tests; their state is in the components modelled here.
- **Quota editing, integrations, follow-ups, responseCreated**: either administration, or effects
  whose failure is logged and passed over.
- **Telemetry, start and shutdown of workers, the cache package**: small pieces of coordination that
  remain for later; License contains what the cache's lock and its errors do to a caller.
- **Billing, accounts, contacts, feedback sources, rate limiting, file storage**: request handlers
  around single database or service calls.
- **Editor, dashboards, rendering, translations, types, schema, build configuration**: no state of
  their own that a model of steps could say something about.

Out of the prover's reach, and checked by TLC only: the liveness properties (`DeliveredOrReported`,
`LocksReleased`, `EveryCallRuns`, `EveryTrackEnds`, `DatesTakeEffect`, `EverythingEnds`).
