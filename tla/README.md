# A formal model of Jobilee

Jobilee is a job-application tracker: a React client, an API gateway, four
services (auth, jobs, resume, ai) over one Postgres schema each, Redis for
queues, counters and events, and an S3-compatible store for uploaded files.
This directory holds TLA+ modules translated from its source, the TLC
configurations that check them on small instances, and TLAPS proofs of the
results that matter most for every instance. Paths below are relative to the
repository's root; line numbers are in `PROJECT.json`, which maps every
definition to the code it stands for.

## 1. Inventory

### ai-service (`services/ai-service`)

The only part with concurrency of its own, and the core of the product: a
generation costs money, takes half a minute, and must survive closed tabs,
failing upstreams and restarts.

| Component | State | Operations | Correct means |
|---|---|---|---|
| task creation, `tasks/tasks.service.ts` | row in `generation_tasks`, quota counter, BullMQ job | `create`: consume, insert QUEUED, enqueue; on failure refund, mark FAILED | a unit is kept exactly by the tasks that did not fail; no row is left that nobody will settle |
| generation worker, `queue/generation.worker.ts` | row, job, locals of each execution | `process`: read row, RUNNING, generate, persist, deliver, SUCCEEDED; on failure rethrow or FAILED + refund + `UnrecoverableError` | SUCCEEDED only after delivery; a stored text is never generated again; every accepted task settles |
| queue, `queue/queue.service.ts` | BullMQ job: state, attempts, stalls, lock | `enqueueGeneration`; retries and stalled-job recovery by BullMQ | attempts counted the same by BullMQ and by the worker |
| delivery, `delivery/delivery.service.ts` | none | `deliver`: PUT an artifact, or POST a tailored version | the owner holds the text the row stores |
| daily quota, `quota/quota.service.ts` | one Redis counter per user and UTC day | `consume`, `refund`, `remaining` | counter = units taken minus units given back; never more than the cap keep one |
| events and stream, `tasks/task-events.service.ts`, `tasks/task-stream.controller.ts` | Redis pub/sub, one listener per open stream | `publish`, `subscribe`, `stream` | a client that watches learns the outcome; nothing leaks when it leaves |

Hard here: BullMQ delivers at least once, so every step of `process()` can run
again from any point, in this process or, when a lock is lost, at the same
time; three stores (Postgres, Redis, the owning service) are written one after
the other with no transaction; the quota is charged in one process and given
back in another.

### resume-service (`services/resume-service`)

Base resume and tailored versions (`resume/resume.service.ts`): version numbers
by read-then-insert under a unique index, retried at most `VERSION_RETRIES`
times. Files (`files/files.service.ts`, `storage/storage.service.ts`): an
object store and a table written one after the other. Correct means: versions
of a job are 1, 2, ..., n; a row always points at an object; an object
without a row is removed.

### jobs-service (`services/jobs-service`)

Jobs with their stage, the history of stage changes and the artifacts
ai-service puts there. `changeStage` reads the stage and writes it later in a
transaction; `putArtifact` is an upsert; deleting a job cascades. Correct
means: the history is the path the stage took.

### gateway (`services/gateway`)

Verifies the access token, replaces identity headers, limits the rate with a
fixed window in Redis (open when Redis fails), counts responses in flight and
proxies. Correct means: a window admits its limit however requests race, a
service only ever hears of a verified user, the gauge counts what is open.

### auth-service (`services/auth-service`)

Register, login, refresh, me, with stateless JWTs. No revocation, hence no state
beyond the user table.

### Client (`apps/web`)

`api/client.ts`, `api/tokens.ts`: one refresh in flight, replay of the request
that met 401. `auth/AuthProvider.tsx`: boot, login and logout. `api/ai.ts`:
follows a task by stream and falls back to polling.
`components/GenerationPanel.tsx` starts generations and `routes/JobDetail.tsx`
shows the job it saves them to, in a query that every change invalidates.
Correct means: the client learns the outcome of its task, no request carries
somebody else's token, "Saved." is never said over the page of before, and text
being typed survives refetches.

### Libraries

`packages/http-client` (timeouts, retries of idempotent calls, error
classification; it is how ai-service delivers a brief), `packages/shared-types` (schemas), `packages/service-kit`,
`packages/logger`, `packages/prompts`.

### How they interact

    web --HTTP/SSE--> gateway --HTTP--> jobs, resume, auth, ai
    ai: TasksService.create --BullMQ--> GenerationWorker --HTTP--> jobs | resume
    ai: GenerationWorker --Redis pub/sub--> TaskStreamController --SSE--> web
    ai: TasksService, GenerationWorker --Redis INCR/DECR--> quota counter

`PROJECT.json` lists under `hazards` what in this code is hard to test, line by
line, with the properties that stand guard over it.

## 2. Modules

| Module | Models | Kind |
|---|---|---|
| `TaskLifecycle` | what a client and the owning services may see of a task | abstract specification |
| `GenerationTasks` | task creation, worker, queue, delivery of ai-service | detailed specification |
| `MCGenerationTasks` | instances and fault models for TLC | bounds |
| `GenerationTasksProofs`, `GenerationSafetyProofs` | theorems about `GenerationTasks` | proofs |
| `Quota`, `MCQuota` | the daily counter and its races, over midnight | specification, bounds |
| `QuotaProofs` | theorems about `Quota` | proofs |
| `TailoredVersions`, `MCTailoredVersions` | version numbers in resume-service | specification, bounds |
| `TailoredVersionsProofs` | theorems about `TailoredVersions` | proofs |
| `TaskStream`, `MCTaskStream` | following a task by stream and polling | specification, bounds |
| `TaskStreamProofs` | theorems about `TaskStream` | proofs |
| `Gateway` | a request's way through the gateway | component |
| `ResumeFiles`, `MCResumeFiles` | uploaded files in resume-service, composed with `Gateway` | specification, bounds |
| `ResumeFilesProofs` | theorems about `Gateway` and `ResumeFiles` | proofs |
| `WebSession`, `MCWebSession` | a browser tab's session against auth-service | specification, bounds |
| `WebSessionProofs` | theorems about `WebSession` | proofs |
| `Jobs` | jobs-service, and http-client's PUTs to it | component |
| `JobPage`, `MCJobPage` | the page of a job and its panel, composed with `Jobs` | specification, bounds |
| `JobPageProofs` | theorems about `Jobs` and `JobPage` | proofs |

`ResumeFiles` EXTENDS `Gateway` and `JobPage` EXTENDS `Jobs`: the composed module
has the state of both, its `Next` interleaves the component's steps
(`Pass`/`NextWindow`, `JobsNext`) with its own, and they meet where the code
does: a request at `upstream` is the service's, an answer goes back through
`UpstreamAnswers`, the page's mutations are the service's `CheckStage`,
`CheckEdit` and `Remove`.

### GenerationTasks: state and actions

| Variable | In the code |
|---|---|
| `req` | where `TasksService.create` stands for this request |
| `charge` | net `consume`/`refund` on the quota for this task |
| `row` | status and result in `generation_tasks` |
| `job` | the BullMQ job: state, `attemptsMade`, stalled count, lock holder |
| `slot` | the worker's concurrent executions of `process()`: place, task, `result` local, `attemptsMade` as read at the start |
| `billed` | calls of `generate()` in which the model produced tokens for the task |
| `owned` | what jobs-service or resume-service holds for the task |
| `faults` | which faults this behaviour is exposed to, chosen once |

One action per `await`. An action's name is the call it makes: `Consume`,
`InsertRow`, `Enqueue`, `GiveBack`, `MarkUnqueued` for `create`; `FindTask`,
`StartRunning`, `AnnounceRunning`, `Generate`, `Persist`, `Deliver`,
`MarkSucceeded`, `AnnounceSucceeded`, `MarkFailed`, `AnnounceFailed`, `Refund`
for `process`; `Complete`, `GiveUp`, `Retry` for how it ends (return,
`UnrecoverableError`, any other error). `Take`, `Stall`, `LoseLock` and the
settling part of the last three are BullMQ, modelled from how the code relies
on it. A text is a number, that of the billed call which returned it; 0 is `null`. A
`Generate` that fails may be billed or not: usage is per streamed message, and a
stream that breaks off, an empty answer or an error after a paused turn follow tokens.
`Caught` is the catch block's decision: retry while the error is retryable and
attempts are left. Which errors are retryable (`describeFailure`) is left open.

A failing call is a disjunct of the action that makes it, enabled by a member of
`faults`; with `lostReply` the call fails towards its caller and takes effect all
the same. The properties say which faults they withstand (`Spared`), and each
fault model in `MCGenerationTasks` keeps at least one conditional property in
force. Left out: prompts, how many tokens a call used, error texts, logs, the `usage` row fields.

### TaskLifecycle and the refinement

`GenerationTasks` maps to `TaskLifecycle` by `status <- row[t].status` and
`delivered <- owned[t] # <<>>`. With calls that fail but nothing that is run
again, it implements `LiveSpec`: statuses move forward only, terminal statuses
are final, SUCCEEDED comes after delivery, and every submitted task ends. Under
all faults it implements `ReplaySpec`: a job BullMQ runs again may overwrite a
terminal status, but SUCCEEDED is still written only after delivery.

### Quota

| Variable | In the code |
|---|---|
| `key` | the Redis counter of each UTC day: whether it exists, its value, whether it expires |
| `call` | where a `consume` stands, the day it was counted on |
| `refund` | where a call of `refund` stands, the request it is for, the day it went to |

One action per Redis round trip: `Consume` is the MULTI of INCR and TTL,
`SetExpiry` the EXPIRE that follows when there was no TTL, `Refund` the DECR,
`DeleteKey` the DEL that follows a negative result, `Die` and `DieRefunding` a
failure between the two, `Midnight` the change of the UTC day that names the key.
A rejected request stays counted, as in the code. A refund is a process of its
own, for any request that was admitted, and a request may have several: the
worker refunds again when it dies after the first refund and the stalled job
fails once more, or when `create` refunded a job that was queued all the same.
`OwnRefundsOnly` says of a day that this did not happen on it, and that no refund
crossed midnight into it.

### TailoredVersions

`Read` is the `findFirst` of the latest version, `Insert` the `create` under the
unique index, which commits or collides and loops until `VersionRetries` is used
up; `Fail` is any other database error, after which an insert may have committed.

### TaskStream

| Variable | In the code |
|---|---|
| `status`, `worker` | the row and, of `process()`, only its writes and publishes |
| `channel` | events published and not yet handed to the service's subscriber |
| `stream` | the handler of a tab's stream request, the status it read, its connection |
| `wire` | what was written to the response and not yet read |
| `client` | where `useGeneration` stands, its polls, what it reported |

`ReadTask` is the awaited `tasks.get`; `OpenStream` is all that follows without
an await: the replay, the terminal close, or the subscription with its timers and
the listener for the close of the response. An event that arrives between the
two reaches nobody, as in the code. `EventArrives` is the emitter handing one
event to all listeners, each of which writes it and closes on a terminal one.
`Expire` is `maxLifetime`, `CloseEvent` the response's one close event, `Hear`,
`StreamEnds`, `Poll`, `Answer` the two loops of `api/ai.ts`. A poll is read and
answered in two steps, because the row may change in between. The worker is
cut down to what can be observed of `GenerationTasks`: the row's status and the
publish after each write. Heartbeats are left out: they change no state.

### Gateway and ResumeFiles

| Variable | In the code |
|---|---|
| `window`, `used` | the limiter's current window, and its counter per identity and window in Redis |
| `inFlight` | the gauge of `Metrics` |
| `exchange` | a request and its response: the middleware it awaits in, token, `X-User-Id`, window named, what the limiter made of it, status, whether the client listens |
| `row`, `objects` | `resume_files` and the bucket, both by upload |
| `handler` | where `FilesService.upload`, `signedUrl` or `remove` stands |

`Arrive` is everything up to the first await: `requestId`, `accessLog` with the
gauge, the strip of inbound identity, and `authenticate`'s early 401. `Verify` is
`jwtVerify` settling, `RateLimit` and `FailOpen` the MULTI of INCR and EXPIRE,
`UpstreamAnswers` and `ProxyFails` the proxy, `Finish`, `Close` and `LateFinish`
the response's events that `accessLog` listens to, in the orders in which Node
can emit them. `PutObject`, `CreateRow`, `CleanUp`, `Find`, `DeleteRow` and
`DeleteObject` are one await of `FilesService` each. A handler outlives its
exchange: the gateway may have answered 502, or the browser left, long before.

### WebSession

| Variable | In the code |
|---|---|
| `accounts` | rows of `users` |
| `stored`, `access` | the refresh token in localStorage, the access token in memory, by the account they name |
| `user`, `loading` | the state of `AuthProvider` |
| `refresh` | `refreshInFlight` and whose token it sent |
| `call` | the `apiFetch` of boot, of the forms, and of two page requests: what goes out, not what the query cache answers |
| `crossed` | history: a sign-in met an unfinished check, refresh or call of another account, or another tab |

`RefreshAccessToken` is what `apiFetch` does on a first 401: fail, join or start
a refresh. `Settle` is the refresh's answer with the microtasks that resume all
who wait; `ForgetRefresh` is the timeout of 0 that clears `refreshInFlight`, and
until it fires a 401 gets the landed result again, as in the code (`Joined`); with
no refresh token in store a 401 fails whatever the refresh in flight says, since
the code looks for the token first. `OtherTab` is what another tab does to the shared localStorage.

### Jobs and JobPage

| Variable | In the code |
|---|---|
| `job`, `history`, `text` | the row of `jobs`, its `stage_events` (of open transactions too), the present content of its artifact |
| `change`, `edit`, `put` | handlers of `changeStage`, `update` and `putArtifact`, each between two awaits |
| `call` | by delivery (a brief and the how-manieth time it is delivered): the retry loop of http-client around one PUT; the attempts it gave up may still arrive |
| `task`, `ends` | how far the worker is with a task, and the ends recorded of it, each told by an event |
| `shown`, `fetch` | the query's cached job, with the one brief that `get` returns, and the fetch that is out, with those who await it |
| `select`, `deletion`, `saving` | pending mutations |
| `draft`, `typed` | the editors, and what the user last typed (history) |
| `run`, `running`, `cancelled`, `abortRef`, `aborted` | the runs of `useGeneration`, its state and its refs |
| `notice` | whom "Saved." is about |
| `by`, `held`, `written`, `before`, `raced`, `astray`, a snapshot's `former` | history that the properties compare with: `by` is the delivery that wrote `text`, `former` the briefs it had replaced when it was read |

`history` is in the order in which its events were inserted; a reader sees the
positions of `Timeline`, those of committed transactions, and a transaction that
aborts takes its event out. A PUT's attempt goes over `wire` to `checked` to its upsert, whether or not its
caller still listens. `Invalidate` is `invalidateQueries`: it calls off the fetch
that is out and moves those who await it. `Begin` is `generation.run` up to its
first await, `Start` the panel's `start`, which for a tailored resume fetches the
base resume before. A task is its own progress here; how it comes about is
`GenerationTasks`, how its status travels is `TaskStream`. `Finish` is the first
execution's delivery, `Rerun` that of a later one - after a delivery, a record of
the outcome or an event of it that failed, or a stall - which delivers the same
brief by a new call, while the old one may still be out: the call of a worker
that died stays so for ever. `Settle` records an outcome, which a rerun may change.

## 3. Runs

| Run | Instance | Shows |
|---|---|---|
| `generation` | one RESUME_TAILOR task, two slots, six fault models | all safety properties of the pipeline, and `ReplaySpec` |
| `lifecycle` | two tasks of both kinds, two slots, failing calls | `LiveSpec`, liveness included |
| `recovery` | the same, with crashes at any point | accepted tasks settle |
| `shutdown` | one task, publishes may throw | finding 1 |
| `quota` | four requests, three refunds, cap 2, two days | counter and cap under all interleavings, a second refund of one task included |
| `quota_refund` | the same | finding 2 |
| `versions` | five writers, three tries | dense, unique, ordered versions |
| `task_stream` | one tab, two attempts, three polls, three fault models | what a tab reports and learns, and that nothing stays subscribed |
| `stream_hang_up` | one tab that may leave | finding 3 |
| `gateway_files` | one upload, two other requests, one sign-in, two users, seven fault models | limits, identity and gauge of the gateway; rows and objects agree |
| `web_session` | two accounts, two page requests, boot and forms, three fault models | no request of a page carries somebody else's token; the session ends only for cause; every call ends |
| `job_page` | three stages, changes and edits, two briefs delivered up to twice, one tailored resume, twelve sets of occasions | history, which delivery stands, what the page says and keeps, what it leaves open |

Bounds, and why they are enough. Tasks share nothing in `GenerationTasks` but the
slots, so one task in two slots shows every overlap of two executions of one job,
and two tasks in two slots every competition for a slot. `MaxAttempts` is 2 (the
code's default is 3): one attempt that is retried and one that is the last, the
two cases the code distinguishes. `MaxStalls` is 1, BullMQ's default. A
RESUME_TAILOR task is the harder kind, because its delivery appends; the other
kind is in the runs with two tasks. Executions that outlived their lock are
bounded by the slots, attempts and stalls, so no counter needs an artificial cap.
The six fault models of `generation` take a condition of each property away and
put it back; in the last the model answers and stores hold, with everything else
failing, so that the bound of one bill is in force. Those of `recovery` combine the
crash with calls that fail before a text is stored, and with those around it.
In `Quota` the cap of 2 (default 50) with four requests lets two be admitted, one
be refunded and replaced, and another rejected; three refunds are two of one task
and one of another, or two on one day and one on the next; two days have one midnight.
In `TailoredVersions` three tries (the code makes five) and five writers reach
the conflict with one writer to spare. In `TaskStream` tabs do not affect each
other, so one is enough; three polls are a first, a middle and a last one; two attempts put a repeated RUNNING, and with
`rerun` a second end, on the channel. 

In `ResumeFiles` a user's limit is 2 with three requests that can be charged to
one user, so one is refused while others race; a sign-in's limit is 1, and that
it alone shares the address's bucket is enough, since identities share nothing.
Two windows have one boundary. One upload with two requests that may remove or
download it shows every order of removals racing each other and the upload. The
seven fault models are single faults of the gateway, and those of the files
together with a boundary; single faults suffice because the gateway's faults act
on different variables, and `ResumeFilesProofs` covers every combination. In
`WebSession` two accounts are one and another one; two page requests are one that
starts a refresh and one that joins it, next to boot's and the form's. In
`JobPage` three changes let one overlap two, three edits let a save fail and be
tried again after another tab's, two briefs are an older and a newer text, two
attempts one given up and its retry, and two deliveries of a brief the first
and that of a rerun. The occasions split the product: each set holds the actors
that share state and so can disturb one another. Reruns are checked apart from
timeouts, whose product is too large for a run; `JobPageProofs` covers every
combination.

`Generation.cfg`, `Quota.cfg`, `Versions.cfg`, `ResumeFiles.cfg` (users, and
requests of one kind) and `JobPage.cfg` (changes, briefs) use symmetry: the
specifications tell their members apart by nothing but their state, and none of
these runs checks liveness.

Deadlock is checked by `web_session`, where somebody can always sign in or ask.
It is not by the others: their requests end, and the system may stop.

Fairness (`FairSpec`). A request handler and an execution run on (Node resumes
an awaiting function once its call returns; HTTP calls have timeouts, and a Redis
command waits for a reconnect that is taken to come), BullMQ hands a waiting job to a free slot, and its
stalled check runs. No client has to send a request, no fault has to occur, and
no retry has to succeed. `Recovery.cfg` allows any number of crashes: each costs a
stall, and `AcceptedSettles` excludes the job that stalled too often.

In `WebSession` fetches end, because the gateway answers within its proxy
timeout or the browser gives the connection up, and callbacks that are due run;
people and other tabs owe nothing. `ResumeFiles` and `JobPage` state no fairness,
and no liveness.

In `TaskStream` the handler, the timers, the close event and the tab's loops are
fair, as the runtime runs them; neither the worker nor the arrival of events is,
so the liveness properties hold although no event ever comes. The one thing
assumed of the network is that the browser notices a broken connection: the
client has no watchdog, and a connection that dies silently is outside the model.

## 4. Findings

1. *A recorded failure may be run again* (`shutdown`). In the catch block of
   `generation.worker.ts` the publish of FAILED stands between the row's update
   and the refund and `UnrecoverableError`; when it throws, BullMQ sees a plain
   error, and with attempts left retries a task whose row says FAILED, against
   the comment "Stop BullMQ retrying a failure we've already recorded as terminal."
2. *A refund may give nothing back* (`quota_refund`). `consume` counts before it
   rejects and keeps the rejected count, so once a request was rejected, the DECR
   of a later refund leaves `remaining()` where it was, against "a failure should
   not consume quota" in `tests/integration/src/generation.test.ts`.
3. *A tab that leaves early leaves its subscription* (`stream_hang_up`).
   `task-stream.controller.ts` listens for the close of the response only after
   the awaited read; a tab that leaves during it is not noticed, and subscription
   and timers stay until the task ends or ten minutes pass, against "The client
   navigating away or closing the tab must release the subscription and the
   timers." That they do go in the end is `SubscriptionsEnd`.

Properties that are conditional record the rest of what the code leaves open: a
crash between insert and enqueue strands a QUEUED row and its unit; a publish
or write that throws outside the try block on the last attempt strands a RUNNING
row; an overlap of two executions may deliver one text and store another; a
refund after midnight goes to the wrong day. Likewise:

- `BillIsBounded`: a call of the model that fails after it has produced tokens is
  billed, and the retry makes it again.
- `CountIsExact`, `CapHolds`: a second refund of one task gives a unit back that was
  not taken, and the day gets more generations than the cap; so does a task that was
  refunded because `queue.add` seemed to fail and then succeeds.
- `GaugeCountsOpen`: a response cut between its end and its flush stays in the
  gauge for ever (`CutAfterEnd`).
- `WindowAdmitsItsLimit`: the limiter fails open with Redis, and two windows
  admit two limits around their boundary.
- `RowsHaveObjects`: a `create` that throws although it committed has its object
  removed under the row. `OrphansHaveACause`: a crash, or a storage error while
  cleaning up, leaves an object nobody will remove.
- `AskedAsShown`: a sign-in while the session check or a refresh of another
  account is out may end with the other account's token (`crossed`). It is about
  requests: the query cache of `App.tsx` outlives sign-out and sign-in under keys
  without a user, so the next user of the tab is shown what is cached of the last
  one's jobs, and no request is made.
- `SessionIsKept`: a refused refresh may be the old user's, and end a new session.
- `HistoryTellsStage`: changes of stage that overlap may repeat an entry, and
  leave a newest entry that is not the job's stage (`raced`).
- `OldTextOnlyFromStray`: an attempt given up after its timeout may still
  overwrite a newer text, and so does a task that is run again, whose delivery of
  the older text is the later one.
- `SavedIsShown`: another tab's brief, or a late PUT, may stand under "Saved." in the
  place of the brief it was said of.
- `NoSocketAfterLeaving`: two runs of one panel share its refs, and the first to
  end forgets the other's controller; a run begun after leaving is never aborted
  (`astray`).

## 5. Proofs

Theorems hold for every set of tasks and slots, any number of attempts and
stalls, any set of fault models; for `TailoredVersions`, for any finite set of
writers and any number of tries; for `TaskStream`, for any set of tabs and any
number of attempts and polls; for `Quota`, for any finite sets of requests and
refunds, any cap and any number of days; for `Gateway` and `ResumeFiles`, for any finite set
of requests, any users, limits and windows, and any set of fault models; for
`WebSession`, for any accounts and page requests and any faults together; for
`Jobs` and `JobPage`, for any stages, changes, edits, texts, deliveries, attempts and
runs, and any set of occasions. The assumptions are the modules' named ASSUMEs.

| Theorem | States | Argument |
|---|---|---|
| `TypeCorrect` | `[]TypeOK` | inductive; one step per action, on lemmas for `Go`, `Caught`, `Update`, `Hand` |
| `SucceededAfterDelivery` | `[]SucceededIsDelivered` | `DeliveryInv`, below |
| `PipelineImplementsReplay` | `Spec => Lifecycle!ReplaySpec` | each step maps to a `ReplayNext` step or a stutter |
| `DeliveredStored`, `StoredReused` | `[]DeliveredIsStored`, `StoredIsReused` | `StoreInv`, below |
| `BillBounded` | `[]BillIsBounded` | `BillInv` under every fault, `OnceInv` for the bound of one, below |
| `NobodyStranded` | `[]NoTaskIsStranded` | `AttendedInv`, below |
| `ChargeMatches` | `[]ChargeMatchesOutcome` | `ChargeInv`, below |
| `PipelineImplementsLifecycle` | `Spec /\ Orderly => Lifecycle!Spec` | the safety half of `ImplementsLifecycle`: `ForwardInv`, below, and each step mapped to `Submit`, `Start`, `Deliver`, `Succeed`, `Fail` or a stutter |
| `VersionsStayDense` | `[]VersionsAreDense` | `VersionInv`, below |
| `ConflictOnlyAmongRivals` | `[]ConflictNeedsRivals` | from `VersionInv` |
| `NewestIsLast` | `CommitsNewest` | a commit takes number n + 1 while rows are 1..n |
| `StreamTypeCorrect` | `[]TypeOK` of `TaskStream` | inductive, one lemma per actor |
| `OutcomeMatchesRow` | `[]OutcomeIsRecorded` | `StreamInv`, below |
| `VersionsTypeOK` | `[]TypeOK` of `TailoredVersions` | from `VersionInv` |
| `QuotaTypeOK`, `QuotaCountIsExact`, `QuotaCapHolds`, `QuotaRejectedOnlyOverCap`, `QuotaKeysExpire` | `[]TypeOK`, `[]CountIsExact`, `[]CapHolds`, `[]RejectedOnlyOverCap`, `[]KeysExpire` | `QuotaInv`, below |
| `FilesTypeOK` | `[]TypeOK` of `ResumeFiles` | from `FilesInv` |
| `GaugeIsExact`, `WindowsAdmitTheirLimit`, `IdentityIsVerified` | `[]GaugeCountsOpen`, `[]WindowAdmitsItsLimit`, `[]ForwardedAsVerified` | `GateInv`, below |
| `RowsKeepObjects`, `OrphansAreExplained` | `[]RowsHaveObjects`, `[]OrphansHaveACause` | `FilesInv`, below |
| `TypeCorrect` of `WebSessionProofs` | `[]TypeOK` of `WebSession` | from `SessionInv` |
| `SessionKept` | `SessionIsKept` | action by action from `SessionInv`, below |
| `AskedAsThemselves` | `[]AskedAsShown` | `Uncrossed`, below |
| `TypeCorrect` of `JobPageProofs` | `[]TypeOK` of `JobPage` | service and page separately, composed over `ServiceStep` |
| `HistoryTold` | `[]HistoryTellsStage` | `HistoryInv`, below |
| `OldTextStrays` | `OldTextOnlyFromStray` | `DeliveryInv` of `JobPageProofs`, below |
| `SocketsClosed`, `TypedTextStays`, `NoticeIsTrue` | `[]NoSocketAfterLeaving`, `[]TypingIsKept`, `[]SavedIsShown` | `SocketInv`, `TypingInv`, `NoticeInv`, below |

`SucceededIsDelivered` is not inductive: that a row says SUCCEEDED does not tell
why the execution about to write it may. `DeliveryInv` adds `AboutToSucceed` (an
execution at `succeed` works for a task whose owner has a copy), which `Deliver`
establishes and nothing takes away because `owned` never shrinks, and
`NotYetInserted` (before its INSERT a request has no row, so the INSERT never
overwrites one).

The rest of the pipeline rests on one fact about BullMQ's lease. `LeaseInv` holds
under every fault: a lock belongs to an active job, its holder has BullMQ's own
count of attempts, nothing was done for a job never queued, and attempts and
stalls are within their limits while the job may run. From it:

- `BillInv` weighs what is billed, plus the executions that may still bill,
  against attempts, stalls and the execution under way. That sum is what a step
  cannot exceed; `billed` alone could not be bounded, since an execution that
  outlived its lock bills later.
- `ExclusiveInv` adds, without `lostLock`, that a busy slot holds the lock of its
  active job, hence that two slots never work for one task.
- `StoreInv` says on top of it what an execution's local `text` is at each place
  relative to the row, and that all the owner holds is what is stored. It is why
  `Deliver` delivers the stored text and `Generate` finds none. `OnceInv` adds,
  where no call of the model fails, writes hold and nothing crashes, that what was
  billed is stored or in hand.
- `AttendedInv` says who sees to a task: an accepted request has a job, an ended
  job has an ended row, and an execution rethrows only with attempts left, or when
  its row is gone. The last part fails if the worker's count and BullMQ's could differ.
- `ChargeInv` gives the charge of a task at every place of request and execution.
- `ForwardInv` gives its status there: `QUEUED` until started, `RUNNING` as long as
  an execution or its retry has not ended it. Under `Orderly` - no crash, lost
  lock, deleted row, failing write or publish, and an enqueue that fails has not
  taken effect - that makes every write of a row a forward move. Both fault
  models of the run `lifecycle` are `Orderly`; quota, model, deliveries and refunds
  may fail in any combination.

`VersionsAreDense` needs `Progress`: what a request has read and
how often it lost are bounded by the number of committed rows, so an insert that
the index accepts is of exactly the next version.

`OutcomeIsRecorded` needs `StreamInv`: without reruns an end is written once
(`EndsOnce`), and every terminal status anywhere on its way to a tab - on the
channel, on a wire, in a handler's or a tab's local - is the row's. A step that
changes the row starts from a status that is no end, so nobody has been told one.

`QuotaInv` says of each request and each refund what its place tells of its day
(`CallOK`, `RefundOK`), and of each day (`DayOK`) that its counter never exceeds
the requests charged to it and, while its refunds are its own and one a task
(`OwnIn`), equals them minus the refunds, is never deleted, and keeps its expiry
once some call is past setting it. The last two are what `CapHolds` and
`KeysExpire` lack: a deleted key would start counting afresh. That no more was
given back than taken follows from refunds mapping one to one to requests.
`Cared` is `KeysExpire` with the day each call works on. Lemmas frame a step by
the one request or refund and the one day it touches.

`GateInv` counts in the gauge the responses of `Counts`, and ties where a request
stands to its identity (`ExchangeOK`): from the limiter on, a private request
carries the verified user, so its bucket does not change under it. `BucketOK`
keeps, per identity and window, admitted <= counter and admitted <= limit, and
while Redis answers the counter exact until the limit is reached; the second part
is why a refusal implies a full window. `FilesInv` adds `HandlerOK` and, per file,
`FileOK`: a file has no row before its upload is past `create`, so nobody can be
removing it before; a handler that is about to remove the object does so only
once the row is gone for good; and an object without a row is named by a handler
that will give it one or remove it.

`SessionInv` ties the session check at boot to the rest of the tab: it runs
before any page has asked for anything (`BootFirst`), is never resent without a
token (`BootTokens`), and cannot fail where nothing may go wrong (`FlawlessBoot`),
which is what `SessionIsKept` asks of a failing boot. `AskedAsShown` alone is not
inductive: the next token a call gets comes from the tab, and the tab's from
the refresh. `Uncrossed` says that while no sign-in crossed what was out, the
tokens of the tab, the refresh in flight and every busy call are of one account.
A step without a sign-in keeps that of whichever account it was (`StillOne`), a
sign-in that crosses nothing makes it true of the new one (`AllAreOf`).

`Jobs` is proved with its callers: `ServiceStep` is what jobs-service sees of any
step of the page. `DeliveryInv` (of `JobPageProofs`) says of every delivery that
an attempt which may still reach the row is the one its caller waits for, or
given up, that an answer implies the write, that what had ended before one began
has ended, and that a present text has a delivery that wrote it (`ByOK`); so a
delivery that comes back after it had ended was given up.
`HistoryInv` places the events: each change has one, an open one is the last and
differs from the job's stage, the newest committed one is the stage, none
repeats its predecessor; all of that only while no two changes overlapped, and
without condition that the job's stage is in the timeline. `SocketInv`: a run
under way that is not astray is alone, and the one `abortRef` holds, or was
aborted. `TypingInv`: what the editors, the cached job and a fetch hold are texts
the job has had, and an editor is seeded before it is typed in. `NoticeInv`: what a
snapshot has had (`Had`: its brief and those replaced by then) only grows from read
to read, so one taken after a write has that brief or what replaced it.

Two models changed because a proof could not go through. `RefreshAccessToken` was
written as a CASE whose arms overlapped (no token in store, and a refresh that
has landed), whose value TLA+ leaves open; it now says which comes first, as the
code does. The timeline of `Jobs` was a `SelectSeq`, which is defined by
recursion and about which nothing can be proved here; it is a set of positions
now, and says the same.

Model-checked only: liveness (`AcceptedSettles`, the fairness half of
`ImplementsLifecycle`, `EndIsLearned`, `FollowingEnds`, `SubscriptionsEnd`,
`CallsSettle`), since the prover treats neither fairness nor ENABLED. Every
safety property that a passing run checks is also a theorem. The three findings
are counterexamples, which a run shows and no theorem could.

## 6. Not modelled

Prompts, schemas, logging, error texts and rendering are data. Password hashing
and JWT signing are library calls. Nest, Prisma, BullMQ, Redis, Postgres, S3,
TanStack Query and the Anthropic SDK appear only as the answers the code acts on.
Of the gateway: its own health endpoints, CORS, and the request and duration
counters, which nothing reads back. Of http-client: GET, which has nothing to
repeat, and POST, which is sent once (`GenerationTasks` has its failure). Of
resume-service: `getBase`, `putBase` and `listTailored`, single statements. Of
the client: Board, Settings and FileList, lists and forms over the same calls;
the framing of server-sent events; the query cache across accounts, which neither
sign-out nor sign-in clears; and a connection that dies without the
browser noticing, against which the client has no watchdog. Deployment files and
the test harness have no behaviour to check.

## 7. Plan

Built: the pipeline, its abstract lifecycle, quota, versions and the stream
first; then the gateway with the files behind it, the browser session, and the
job page over jobs-service. Then the proofs: every safety property of the passing
runs, both halves of what `TaskLifecycle` promises as far as safety goes, and the
invariants they need. What is left:

1. The steps that the liveness runs rest on, as far as they are safety: that in
   `GenerationTasks` a task which has not ended always has a next step that is
   enabled by its state alone, and a measure (attempts, stalls, place of the
   execution) that each step lowers. The conclusion itself needs fairness and
   stays with TLC.
2. The same for a tab in `TaskStream`: an open subscription always has a timer or
   a close event still due.
