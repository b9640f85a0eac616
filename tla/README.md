# Kontent in TLA+: publishing, and the services around it

Kontent lets a project plan posts and publishes them to Telegram, VK and other
networks.  A web application (Next.js, `src/src/`) writes rows into PostgreSQL
and jobs into Redis (BullMQ); one or more worker processes (`src/worker.mjs`)
take the jobs, call the networks and write what came of it.  PostgreSQL and
Redis share no transaction, workers die and are replaced during deployments,
and a call to a network can succeed although its reply never arrives.  This
project models the parts of the system where that matters: what happens to a
post from the moment it is scheduled to the moment its outcome is known, and the
nine services beside it that hold a lease, spend money or act for a person.

Contents: [inventory](#inventory) - [modules](#modules) -
[correspondence](#correspondence-with-the-code) - [runs](#runs) -
[what the code does otherwise than it says](#disagreements) - [proofs](#proofs) -
[limits](#assumptions-and-limits) - [plan](#plan)

## Inventory

### The publication pipeline

| Component | State | Operations | What is hard |
|---|---|---|---|
| Publish handler and lease (`worker.mjs:1899-2376`, `worker/publication-lease.mjs`, `publication-state.mjs`, `vk-publication.mjs`) | `posts.status`, `schedule_revision`, `publish_lease_token`, `provider_started_at`, `attempts`, `next_attempt_at`, `provider_reconciliation_state` | claim, block (unsupported, disconnected), provider fence, VK identity, call, record result, plan a retry | jobs delivered twice, a lost reply, a result that arrives after somebody else decided, a crash at any line |
| Publication operations (`src/lib/publication-lifecycle.mjs`, `api/publication-operations`) | `publication_operations.schedule_revision`, cancelled, all posts of the operation | create, cancel, reschedule | several destinations, some of which may be under way |
| Requests about one post (`api/posts/[id]/retry`, `worker/bot-publication-retry.mjs`, `lib/admin-publications.ts`) | the same row of `posts`, `last_retry_key` | retry (site, bot, admin), reschedule and cancel (admin) | an update, then a `queue.add` that may fail, then a compensation that comes late |
| Repair timers (`worker.mjs:12746-12879`, `worker/publication-safety.mjs`, `worker.mjs:3438-3488`) | rows in `publishing`, overdue rows, unknown VK posts | reclaim, quarantine, VK reconciliation | they act on posts whose handler may still be alive |
| Outbox and queue (`lib/publication-outbox.mjs`, `lib/publish-queue.mjs`) | `publication_outbox`, jobs in Redis by name | lease, expire, enqueue, fail with backoff, replay | lost jobs, dead dispatchers, job names that come back |
| Telegram parts (`worker/telegram-multipart.mjs`, `telegram-carousel.mjs`) | `publication_parts.send_status` | mark sending, call, mark sent/failed/unknown | each write may fail, half an album may have receipts |
| Telegram statistics (`worker/telegram-reconciliation.mjs`, `worker.mjs:3165-3370`) | `consecutive_missing_checks`, `posts.status` | read the public page, read the posts, decide, write | the page is older than the rows it is compared with |

The components of the pipeline interact through the row of `posts`.  A request of a person changes it and
leaves a job in the queue, directly or through the outbox; the queue calls a
handler; the handler claims the row and calls the network; timers and
statistics jobs correct the row later.

What makes them correct: no message is published twice; a post that is offered
for another try has certainly not been published; nobody takes a post away from
a handler that talks to the network; a cancelled operation stays cancelled;
"published" is said only of what is published; no post hangs for ever; nothing
goes out before the time named last; a lost job is replaced in time.

### The services

| Component | State | Operations | What is hard | What makes it correct |
|---|---|---|---|---|
| AI usage ledger (`lib/ai-usage.ts`, `lib/generation-artifacts.ts`, `api/ai/generate`, `worker/ai-usage-reservation.mjs`) | `ai_usage`, `generation_operations` | look up, acquire, begin, stage, deliver, acknowledge, fail, release, expire; the same in a worker with a heartbeat | a reservation expires while its provider works; one key asked for twice; a browser that acknowledges late | the daily limit; a paid result is neither lost nor bought again; an attempt that works is left alone |
| Media generation (`worker/media-generation-*.mjs`, `api/media/generations`, `lib/media-generation-reconciliation.ts`) | `media_generations`, its reservation | insert and hand over, claim, create, poll, store, heartbeat, requeue, fail, clean up | a worker stalls inside the call that creates; the request does not know whether the queue has its job | ready is charged and charged is ready; one creation at a time; an old worker harms nobody |
| Telegram polling (`worker/telegram-polling-lease.mjs`, `worker.mjs:2440-2540`, `11119-11224`) | a key in Redis, the guard webhook, `bot_state.last_update` | renew, open, read, handle, record, shut down | the key expires while its owner works; an update fails in the middle of a batch | no command lost or overtaken; no repetition without a fault |
| Autopilot approval (`lib/autopilot-approval.mjs`, `autopilot-scheduling.mjs`, `api/autopilot/approve`, `item`) | plan, items, approval operations, posts, `autopilot_schedule_outbox` | preview, confirm, claim, schedule each item, finalize, abort, reclaim, edit, move, reject | the plan changes between preview and claim; an approval taken for dead that is alive; a commit reported as an error | what is scheduled is what was seen; plan and calendar agree, so a claim that was lost schedules nothing |
| Autopilot building (`lib/autopilot-build-finalize.mjs`, `autopilot-weekly-queue.mjs`, `api/autopilot/generate`, `settings`, `worker.mjs:6390-7890`, `11453-11889`) | `autopilot_plan`: placeholder and result, `build_report`; `autopilot_settings.enabled` | click, stop, switch, weekly tick, reconcile, take, save partly, commit, fail | a job delivered again after its result; a continuation of an old build; a placeholder left open | one result per build; a late build delivers nothing |
| Account letters (`worker/email-change-outbox.mjs`, `password-reset-outbox.mjs`, `lib/email-change.ts`, `password-reset.ts`) | request, generation, outbox row | request, open the link, lease, deliver, record, lapse | a delivery slower than its lease; a newer request | a link that works has its letter; a recorded delivery is final |
| Project export (`lib/project-export-*.mjs`, `project-export-service.ts`) | operation, outbox, job, artifact | create, dispatch, render, store, fail, reclaim, revoke, expire | a render taken for dead that goes on; an error swallowed half-way | ready has its file; what is over stays over |
| Drafts and editorial approval (`lib/server-drafts.ts`, `lib/editorial-approval.ts`, `api/publication-operations`, `worker/bot-editorial.mjs`, `bot-draft-publication.mjs`, `draft-editorial-bootstrap.mjs`) | `drafts`, `draft_revisions`, `draft_editorial_workflows`, `draft_editorial_requests`, the conversations of the bot | create, save, reschedule, attest, delete; submit, decide; publish; saves, submissions, decisions and publications in the bot | a save meets a review or an approval; somebody publishes from an old page; transactions that lock the same rows in different orders | what is in review or approved is the current text; what is published is what was seen; every transaction acts on the page its author had |
| Publication extras (`worker/publication-extra-worker.mjs`, `lib/publication-extra-*.mjs`) | operations in sequence, outbox | activate, dispatch, claim, call, save, fail, reclaim, retry | the answer to a comment is lost | no second comment without a person's word |

The services use the same devices as the pipeline (an outbox row and a job with a
fixed id, a lease and its token, a reclaim by a timer) and share no rows with each
other that their properties are about.  Where they meet, one module has the detail
and the other the outcome: `MediaGeneration` and `AutopilotBuild` see of the ledger
only its answers; the operation that `EditorialApproval` publishes is the initial state
of `Publication`; the posts of `AutopilotApproval` then follow `PublicationQueue` and
`Publication`; the result of `AutopilotBuild` is the plan `AutopilotApproval` starts
from; the extras start where `Publication` has recorded a success.

### Not modelled

| Component | Why |
|---|---|
| Legal visual rendering (`worker/legal-visual-render-worker.mjs`) | the outbox and render pattern of `ProjectExport` again |
| RSS publishing, site analysis, VK statistics, competitors, trends | reads of outside services and upserts; what they publish enters the pipeline; what they pay for goes through the ledger |
| Sessions, roles, the admin console, web pages | checks of one request over the database; user interface.  (The admin actions on posts are part of the pipeline) |

Most of the repository's lines are of this last kind, user interface and scripts;
the map covers the files above, not the repository.

`PROJECT.json` lists every component with its files, and every hazard with its line.

## Modules

| Module | Subject |
|---|---|
| `DeliveryPromise` | what the pipeline promises about one post, with no queue, lease, worker or timer in it; `Publication` implements it, and `TelegramParts` does so call by call |
| `EditorialPromise` | what a team is promised about one draft, with no lock, transaction or request in it; `EditorialApproval` implements it |
| `Publication` | the rows of one operation, concurrent handlers, repair timers, every request of a person |
| `PublicationInvariant` | the inductive invariant of `Publication` |
| `PublicationProofs` | its proof, the safety properties, and the refinement of `DeliveryPromise` |
| `PublicationQueue` | outbox, job names and the clock: does a post go out in time? |
| `TelegramParts` | the parts of a Telegram post, and the statistics jobs that compare them with the channel |
| `AiUsage` | the ledger of one account: web requests and worker tasks |
| `MediaGeneration` | one image or video, from the request to the file |
| `PollingLease` | the workers that read the bot's updates |
| `AutopilotApproval` | the confirmation of one plan |
| `AutopilotBuild` | the building of one channel's plans |
| `AccountLetters` | email change and password reset |
| `ProjectExport` | one export |
| `PublicationExtras` | the first comment and the pin of one post |
| `EditorialApproval` | one draft of a team, from the first save to its publication, with the locks of its transactions |
| `PublicationQueueProofs` | proofs about the time at which a post goes out |
| `TelegramPartsProofs` | proofs about the messages of a channel |
| `UsageProofs` | proofs about paid generations: `AiUsage` and `MediaGeneration` |
| `PollingProofs` | proofs about the commands people send: `PollingLease` |
| `AutopilotProofs` | proofs about a plan: `AutopilotBuild` and `AutopilotApproval` |
| `OutboxProofs` | proofs about work handed over through an outbox: `ProjectExport`, `AccountLetters` and `PublicationExtras` |
| `EditorialProofs` | proofs about a draft and its review: `EditorialApproval`, and its refinement of `EditorialPromise` |
| `MCPublication`, `MCPublicationQueue`, `MCTelegramParts`, `MCServices` | instances for TLC |

The three detailed modules of the pipeline look at the same row from three sides.  `Publication`
lets the queue deliver any job it was ever given, at any time and any number of
times, or never, so its safety properties do not depend on how the queue
behaves.  `PublicationQueue` takes the handler as one step and asks whether what
should happen does happen.  `TelegramParts` opens up the one step "the network
answers" for posts that need several messages, and takes from `Publication`
that at most one handler sends for a post.

Each of the nine service modules is a specification of its own (`UsageSpec`,
`MediaSpec`, ...); the names of their definitions are kept apart so that
`MCServices` can extend them all.

Definitions whose comment begins with "Mutant:" or "A defect X excludes:" belong to
no specification.  Each is a plausible error in the definition that follows it; with
it in place the property it is listed with in `PROJECT.json` fails.

## Correspondence with the code

An action is one committed statement or transaction, or one answer of an
external system.  What a function does between two `await`s is therefore one
action, and a function with several awaits is a sequence of actions with a
program counter (`slot[w].pc`, `sender.pc`, `collector[c].pc`, `requests`,
`sending`).  `PROJECT.json` maps every definition to its lines.

`Publication`:

- `post[p]` is the row of `posts`.  Times are reduced to where they lie: `due`
  against the window of the claim (`PUBLICATION_OVERDUE_GRACE_MS`, 5 minutes by default),
  `retryAt` and `stuck` (15 minutes in `publishing`) against now; `TimePasses`
  moves them on.
- `slot[w]` holds the local variables of one run of the handler.  The lease
  token of the code is a hash of post, job, attempt and time, drawn anew by every
  run; the model names it by the slot, which is sound because a slot leaves its
  run before it can draw another, and a row whose lease names a slot that went on
  is just what a token nobody holds is.  (A crashed slot leaves its name in the
  row; a new run of the same slot cannot claim that row before it is
  reclaimed, which erases the name.)
- `Claim` .. `Crash` follow `worker.mjs:1921-2376` in order.  Every result is
  written `where publish_lease_token = ...` (`Record`), except the correction
  after a retry job could not be added (`RetryQueueDown`), which is bound to
  the status alone, as in the code.
- `requests` are requests between their commit and their `queue.add`, so that the
  compensation (`RetryJobRefused`) may run after anything else happened.
- `accepted[p]` counts messages in the network and `orphans[p]` requests on the
  wire whose sender no longer listens.  Neither exists in the code; they are what
  the properties are about.

`PublicationQueue` counts minutes.  A job is a name, a revision and a time;
names are `post-N-rR` ("main"), `-retry-A`, the key of a site retry ("manual")
and of a callback ("bot").  `Add` of a name that is there changes nothing, which
is how BullMQ treats a `jobId`, whether the job waits or has failed and is kept.

`TelegramParts` has one row per part, the copy of the rows the handler read
(`sender.plan`), and the writes of one call one after the other.  `wall` is what
one can read in the channel, `copies` how often each part was ever published.
The post's own claim and fence are one action (`Begin`).

The services, in general: a variable named after a table is its row, reduced to the
columns that decide something; a variable named after a process (`attempt`, `maker`,
`poller`, `approver`, `builder`, `mailer`, `renderer`, `dispatcher`, `extraWorker`) holds
the program counter and the locals of one run, that is, what it read before an
`await` and uses after it.  A token or lease is named by the run that drew it, which
gives it up before it can draw another.  Ages (of a lease, a heartbeat, a link) are
"fresh" or "lapsed", and time may let any of them lapse at any moment.  Every module's
header lists its limits.

- `AiUsage`.  `Lookup`, `Acquire` and `Begin` are three transactions, and a second
  request of the same key may fall between any two of them.  `Acquire` counts under the
  lock of the account (`ai-usage.ts:371-393`), which is why `Room` is read in the
  same step.  `Stage` writes the result and only then does the browser hear of it; the
  charge is the acknowledgement, so `late` collects results acknowledged after their
  place had lapsed.  `usage[k].op` is `operation_id`; the row of a task has none.
- `MediaGeneration`.  `poster` is the request after its insert, with its confirmation or
  compensation still to come.  The writes of the store are `Owns(w) /\ ...`, as
  `ownedTaskTransaction` locks the row and compares the token.  `creating` is the time
  inside the call to the provider, which is where a worker that stalls is dangerous.
- `PollingLease`.  `Verified` is the question to Redis, asked before each update and
  before its record; `excused` collects updates whose handling met a fault that the code
  does not undo.  `AfterFailure` leaves the batch, so that the offset cannot pass an
  update that failed.
- `AutopilotApproval`.  `ScheduleItem` is the one transaction that writes post, outbox row
  and item; its answer may be lost (`unanswered`).  `asSeen` compares the text of the post
  with that of the preview the confirmation rests on.
- `AutopilotBuild`.  A build is one placeholder; deleting it and closing it for good both
  take it out of `building` and `partial`.  `build[b].next` is the id of the continuation
  its report names, so that a continuation planned earlier is known by its id.  A job may
  be run any time, which makes the dispatches of the code no actions of the model.
- `AccountLetters`.  `TakeLetter`, the answer of the provider, and `RecordSent` or
  `RecordFailure` are separate, and the lease may lapse between them.
- `ProjectExport`.  `MarkFailure` and `MarkOutbox` are the two statements of `markFailure`,
  each of which may do nothing; `RecordDispatch` and `FinishDispatch` are the two of the
  outbox.
- `EditorialApproval`.  `page[p]` is what a person has before them: the draft with its
  version, its workflow and its request in the web, the preview of a conversation or the
  list of approvals in the bot.  `write[p]` is that person's transaction: `RowsLocked` lists the
  rows it locks in their order, `StartWrite` takes the first with the checks made under it,
  `LockRow` the next ones, and the action named after the function is its commit.
  A row lock is `for update`, or `for key share` where a foreign key of an inserted row
  takes it; project and membership are locked `for share` by all and hold nobody up.
  `RollBack` is a refusal, a save that changes nothing, a failure, or the victim of
  a deadlock.  `wording` stands for the content hash.
- `PublicationExtras`.  `BegunBefore` is the memory in the row that the request was
  begun; the pin may be repeated, the comment may not.

## Runs

| Run | Instance | What it shows |
|---|---|---|
| `delivery` | one VK post, 2 handlers, 1 key, 2 attempts, revisions up to 3, 1 unfinished request | the inductive invariant, types among it, and the safety properties, under every interleaving of two handlers, all timers and all requests |
| `operation` | two posts (VK and another network), 1 handler | `Publication` implements `DeliveryPromise`; an operation with a delivered destination is fixed |
| `liveness` | one post, 1 handler, fairness | no post stays in `publishing` or in `scheduled` |
| `queue` | horizon 22 minutes, replay after 5, window 5, 3 attempts, 2 requests, 2 failures (lost jobs, dead dispatchers) | losses are repaired in time, retries are prompt, a dispatch arms a job |
| `queue_faults` | horizon 15, window and replay 2, all requests (3 of them) and all failures (1) | nothing goes out before the time named last |
| `parts` | an album of 3 and a text, 3 attempts, 2 requests, 1 statistics job | no part twice, order, certainty of what may be retried, no false "missing"; each call to Telegram implements `DeliveryPromise` |
| `services` | one of the nine services, two processes in each | paid results are kept and counted, late workers harm nothing, no command is lost or overtaken, a plan and its posts agree, what is approved is what is published, a build delivers once, no second comment; `EditorialApproval`, with all its locks, implements `EditorialPromise` |
| `reclaimed_vk`, `reused_revision`, `bot_retry`, `partial_seen`, `editorial_locks` | as above | [disagreements](#disagreements): TLC shows a behaviour that violates the stated rule |

**Bounds.**  Two handlers and one post are enough for every race about a row:
a third handler would meet the row in a state one of the two left.  Three
revisions give a job that is one, and one that is two revisions old.  Two
attempts give a first, a retried and a last one.  The bounds on revisions and
requests sit in the guards of the actions of people only (`RoomFor`,
`r < MaxRevision`, `Cardinality(requests) < MaxRequests`), never in those of
the worker; `reclaimStuckPosts` may pass `MaxRevision` by one, which
`HandlerStep` allows for.  The clock of `PublicationQueue` leaves room for the
first time, a later one, and a window and a replay after it; with two requests
one of them can undo what the other did.  An album of three is the smallest the
code sends; the text after it makes a second call.

**The run `services`.**  The nine specifications share no variable.  `part` is chosen at
the start and says which of them moves; the others stand still in one initial state.
So the run explores the union, and not the product, of their states: each service in
all its behaviours.  The bounds: two web keys and one task key, two attempts, a limit of
1 (one request more than there is room for; two attempts of one key, or one of each);
two updates of which one can fail and the other wait, two tries; two items
and two confirmations of a plan; two requests of a letter, so that one supersedes the
other; one confirmation by a person that a comment is missing; two builds and one
continuation; three versions of a draft (one approved, one saved over it, one more) and five
of its workflow (submit, decide, save, and one that comes too late).  Two processes per role, which all roles share by name, so that one
exchange of the two is the symmetry of the whole (they occur in no other way than by
equality, and the properties name none).  A third process would meet the row that a first
has left and a second has taken; what makes that different from two is only
the token, and tokens are compared for equality.  `PaidResultIsKept`,
`LiveAttemptIsLeftAlone`, `OlderWorkerIsHarmless`, `LetterAndLinkAgree`, `ExportOutcomeHolds`,
`LateBuildDeliversNothing` and `ActsOnWhatWasSeen` are properties of steps, the rest of states.  None of the services has a liveness property: most of them
end in an expiry or in a person's hands, and the code promises no more.

**Deadlock.**  Every configuration says `CHECK_DEADLOCK FALSE`: a post that is
published and confirmed, with the clock and the requests at their bounds, has
nothing left to do, and neither has an expired export or an account without requests.  That a post is never stuck before that is the
subject of `PublishingEnds` and `ScheduledEnds`.

**Fairness** (`FairSpec`, only in `liveness`): time passes, and the three repair
statements run.  `worker.mjs:13100-13111` runs them from a `setInterval` of 60 s
in every worker that publishes, and each is a single `update` over all rows that
qualify.  Nothing is assumed of the queue, the handlers or people, so the two
liveness properties hold although every job may be lost and every handler may
die.  `Prompt = TRUE` in `PublicationQueue` is the corresponding assumption in the
clocked module: the timers and due jobs of a minute run within that minute.
Failures are counted separately, by `Faults`.

**Properties worth reading first.**  `RetryableIsUnsent` is what makes a retry
button safe.  `InFlightIsProtected` is why the lease and the provider fence are
two different checks.  `CancelSticks` covers handlers under way and late
compensations alike.  `DeliveryFixesOperation` holds from the moment the network
has the message, before anybody recorded it.  `NoEarlyPublication` holds although
revisions come back (see below): only the time window in the claim saves it.
`RetryableIsCertain` and `PartsInOrder` say what retries of a half-sent post rest on.
`LiveAttemptIsLeftAlone` and `OlderWorkerIsHarmless` say the same of two services that
solve one problem by different means: an operation id in the row, and a token compared
under a lock.  `RepetitionHasReason` separates the repetitions the polling loop accepts
from those it must not have, and `CommandsInOrder` holds although the lease may be lost at any
line.  `PlanMatchesCalendar` relates three tables that several
processes write.  `ReviewIsOfCurrentText` and `PublishedAsSeen` divide what an approval is worth
between the workflow and the click; `ActsOnWhatWasSeen` says that the locks suffice for it.  `OneResultPerBuild` is the incident that
`autopilot-build-finalize.mjs:2-11` tells of.

## Disagreements

1. **`reclaimed_vk`.**  `reclaimStuckPosts` closes a post whose worker died during
   the call as `published_unverified` but leaves its reconciliation state at
   `none` (`worker.mjs:12767-12779`).  The VK job selects only `pending` and
   `unresolved` (`worker.mjs:3443`).  The rule in
   `worker/bot-publication-retry.mjs:24`, that unknown outcomes go through
   reconciliation, is not kept for these posts.
2. **`reused_revision`.**  The admin console raises the revision of a post, the
   operation raises its own and writes it into its posts.  Both counters give 2,
   so both jobs are called `post-N-r2`; the second `queue.add` does nothing, the
   outbox records the row as enqueued, and the job that is there fires at the
   wrong time.  Comments in `src/lib/queue.ts:173` and
   `publication-operations/[id]/route.ts:65` count on revisions that never return.
3. **`bot_retry`.**  The bot's button leaves the time of the post in the past; the
   claim then refuses it for being overdue and the quarantine takes it, although
   the bot says "trying again now" (`worker.mjs:10131`).
4. **`partial_seen`.**  A Telegram post of which some parts are confirmed and one
   was never sent is recorded as published when the confirmed ones are seen on
   the page (`telegram-reconciliation.mjs:96-98`), against the test that names
   the rule (`telegram-reconciliation.test.mjs:59`).
5. **`editorial_locks`.**  A save in the web locks the draft (`server-drafts.ts:1453`) and then
   the workflow (`editorial-approval.ts:477`).  A decision locks the workflow, then inserts
   a row into `draft_editorial_decisions`, whose foreign key locks the draft `for key share`
   (`20260812_editorial_approval.sql:100`).  Each can hold what the other waits for, and
   PostgreSQL ends one of the two, which its author sees as an error.  The comment at
   `editorial-approval.ts:981` says that the common order of locks prevents just this; it is
   the order of workflow and request, and leaves the draft out.  Nothing is lost: the
   properties of the module hold with every such end (`RollBack`).

Seen in the models, without a run of its own:

- A job that failed before its claim (a database error) stays under its name
  (`removeOnFail: 200`, `publish-queue.mjs:53`), so the replay of the outbox cannot replace
  it; `publish-queue.mjs:32` takes its presence for a proof that it lives.  `DispatchArms`
  fails with `Faults = {"job_throws"}`.
- The bot submits for review what is current, without comparing it with the preview, and
  answers that it sent "the exact version" (`bot-editorial.mjs:62-90`, `worker.mjs:9097`).
  The approval is still of the text that the approver sees.

A comment that is merely out of date: `worker.mjs:12741-12745` says a stuck post
is marked `failed`; the code quarantines it or marks it `published_unverified`.

## Proofs

TLC checks the instances above; TLAPS proves the following for every value of the
constants that their assumptions allow: any number of posts, parts, keys, workers, people,
items, builds and attempts, any limit and any bound.  The assumptions stand in the module of the
constants and say only that a "no such" value is outside its set, that bounds are
natural numbers, that an album is part of its post, and that keys of the web and of
tasks differ; TLC evaluates them on every run.

Most of the properties are not inductive.  Each module of proofs has the invariants its component
needs, named parts that TLC checked on small instances before they were proved, and a
header that gives the argument.

| Theorem | Property | Needs, beside the types |
|---|---|---|
| **`PublicationProofs`** (`TypesHold`, `InvariantHolds`) | | `IInv` |
| `NoSecondDelivery`, `RetryIsSafe`, `FlightIsProtected`, `PublishedMeansPublished`, `CancelIsRespected` | `AtMostOneDelivery`, `RetryableIsUnsent`, `InFlightIsProtected`, `PublishedIsReal`, `CancelSticks` | |
| `SettledStaysSettled`, `DeliveredOperationIsFixed` | `SettledIsFinal`, `DeliveryFixesOperation` | |
| `PromiseIsKept` | `KeepsPromise`: `Publication` implements `DeliveryPromise` | |
| **`PublicationQueueProofs`** (`QueueTypes`) | | |
| `NothingIsEarly` | `NoEarlyPublication` | `EarlyInv`: the last decision is behind a post that was tried |
| `QueueInvariance`, `LossesAreRepaired`, `RetriesArePrompt`, `DispatchIsArmed` | `LossIsRepaired`, `RetryIsPrompt`, `DispatchArms`, all under `Timely` | `QueueInv`: who holds the lease of the outbox read the row as it is; a row that is enqueued has its job, or lost it since |
| **`TelegramPartsProofs`** (`PartsInvariance`, `PartsTypes`) | | `PartsInv` |
| `NoPartIsRepeated`, `RetryIsCertain`, `PartsComeInOrder` | `NoPartTwice`, `RetryableIsCertain`, `PartsInOrder` | what is behind the call at hand is in the channel, what is ahead is as the plan says |
| `CallsKeepTheirPromise` | `CallsKeepPromise`: each call of a handler implements `DeliveryPromise` | the same |
| `MissingIsDeleted` | `MissingIsGone`, under `SoleCollector` | `EvidenceInv`: one miss at most without a deletion |
| **`UsageProofs`** (`UsageInvariance`, `UsageTypes`, `MediaInvariance`, `MediaTypes`) | | `UsageInv`, `MediaInv` |
| `LimitIsKept`, `RepliesAreCharged`, `PaidResultStays`, `LiveAttemptKeepsItsPlace` | `LimitHolds`, `ReplyIsCharged`, `PaidResultIsKept`, `LiveAttemptIsLeftAlone` | a result stands only beside its artifact |
| `ReadyIsCharged`, `CreationIsNotDoubled`, `OlderWorkerHarmsNobody` | `OutcomeIsCharged`, `OneCreationAtATime`, `OlderWorkerIsHarmless` | a row whose submission began is taken up again only with its job |
| **`PollingProofs`** (`PollingInvariance`, `PollingTypes`) | | `PollingInv` |
| `CommandsKeepTheirOrder` | `CommandsInOrder` | `OrderInv`: nothing is left before the update of a process that drains |
| `NothingIsLost`, `RepetitionIsExcused` | `NoUpdateLost`, `RepetitionHasReason` | the offset that is asked for is in the database; the owner of the lease has nothing done and unexcused before it |
| **`AutopilotProofs`** (`ApprovalInvariance`, `ApprovalTypesHold`, `BuildInvariance`, `BuildTyping`) | | `ApprovalInv`, `BuildInv` |
| `PlanIsScheduledAsSeen`, `CalendarIsAsPlanned` | `ScheduledAsSeen`, `PlanMatchesCalendar` | the holder of a plan saw its texts, and its copy lacks only the lost answers |
| `WeekIsDeliveredOnce`, `NewerPlanStays` | `OneResultPerBuild`, `LateBuildDeliversNothing` | what has delivered is done; who works on a build found no result after it when it began |
| **`OutboxProofs`** (`ExportTypes`, `LettersInvariance`, `LettersTypes`, `ExtrasInvariance`, `ExtrasTypes`) | | `LettersInv`, `ExtrasInv` |
| `ExportOutcomeIsKept` | `ExportOutcomeHolds` | a ready export has its file |
| `LetterFollowsLink` | `LetterAndLinkAgree` | a mailer is of a request that was made |
| `SecondCommentIsConfirmed` | `CommentNeedsConfirmation` | every comment posted or about to be posted is paid for by the mark in the row or by a confirmation |
| **`EditorialProofs`** (`EditorialInvariance`, `EditorialTypes`) | | `EditorialInv` |
| `ReviewedIsCurrent`, `PublishedIsAsSeen` | `ReviewIsOfCurrentText`, `PublishedAsSeen` | locks exclude each other; versions only grow |
| `EachActsOnWhatWasSeen` | `ActsOnWhatWasSeen`: `EditorialApproval` implements `EditorialPromise` | `SightInv`: what was checked under the first lock still holds when the last is taken |

**One message per post.**  None of the safety properties of `Publication` is inductive.  That a post goes out once, for
example, needs to know that a row which may be claimed has no request on the
wire, which needs to know what every handler in the middle of its call has left
in the row, which in turn needs the lease it holds to be its own.  `IInv`
(`PublicationInvariant`) collects these facts: what each status of a row says
about the network, what each place in the handler says about the row it works
on, and what a cancelled operation says about its posts.  The proof has
one step per action; each named part of the invariant is carried through it
separately.  The refinement maps `publishing` before the provider fence to "waiting" and after it
to "out", so that exactly the fence is the abstract `Start`.

**In time.**  That nothing goes out early needs no hypothesis.  That it goes out in time
is a race, won under conditions, which `Timely` names:

- `Prompt`: timers and due jobs run within their minute; else `LossIsRepaired` and `RetryIsPrompt` fail.
- `Requests \subseteq {"operation", "site"}`: with the admin console `LossIsRepaired` and
  `DispatchArms` fail, because revisions come back (disagreement 2), and with the button of the bot
  `LossIsRepaired` fails (3).
- `Faults \subseteq {"job_lost", "dispatcher_dies"}`: a job that throws before its claim
  stays under its name and blocks its replacement (`RetryIsPrompt` and `DispatchArms` fail);
  so does one that fails because the queue would not take its retry, with the revision that comes
  back in addition (`LossIsRepaired` and `DispatchArms` fail with `queue_down`).
- `Patience <= Grace`: the replay of the outbox comes before the window of the post
  closes.  Both are 5 minutes as delivered; the window can be configured down to one
  minute (`publication-safety.mjs:12-17`), and then a lost job is not made up for.
- `SiteDelay \in 1..(Patience + 1)` (the site schedules 2 minutes ahead,
  `api/posts/[id]/retry/route.ts:53`).  A revision that comes back may leave a job of the
  site where one of the operation is needed; up to this delay it fires before the window of
  the operation closes.  Beyond it, it does not: with the 5 minutes of `Patience` and
  `Grace`, `SiteDelay = 7`, and a post retried from the site and then rescheduled to
  the next minute (`Times = {14}`), TLC refutes `DispatchArms`.

TLC refutes the properties named when one of these is dropped, except for the lower bound of
the last, which only the argument uses.

**Parts.**  A handler begins only when it is certain of every part, because a post with a doubt
never waits again; as soon as an answer is lost it stops, and the call that may still
arrive is the only one.  `MissingIsDeleted` is for one statistics job at a time, as
its run: with two it is false (see below).

**Money.**  Every step of the ledger sweeps what has lapsed and then changes at most one row,
so a single lemma says what such a step has to respect, and the cardinality of the
places is counted there and nowhere else.  In `MediaGeneration` the lease alone does not
keep two workers from calling the provider, since a claim may take the row from one
that still works; it is that a row whose submission began is claimed again only with its job.

**Plans.**  The proof of `CalendarIsAsPlanned` is what shows why a lost commit needs to be
left out: the holder closes the plan with its copy of the items, and the copy is
equal to the items except where an answer was lost.  `NewerPlanStays` rests on builds
being numbered as they are made and on no delivered build being revived.

**Commands.**  The lease is not what keeps the commands in order: a process that lost it, or was
told to stop, still carries out the one it has in hand, next to the process that follows.
It is the offset, which is read from the database after the lease was taken and stays before an
update that failed.  So whoever has an update in hand, with the lease or without, has nothing
unfinished before it.

**Drafts.**  A save from the web checks the version of the page under the lock of the draft and
commits after it has locked the workflow too; a decision and a publication check under the first
of several locks in the same way.  That the commit takes effect at once, on the text that
was shown, needs `ChecksStillHold`: between the check and the commit nobody changes what was
checked, because whoever does would need a lock that is held (`DraftLockExcludes`).  Each commit
then maps to one step of `EditorialPromise` and each lock to none.  The bot saves and submits
what is current, without a look at what it showed; the promise names it as its exception.

**Types.**  Every module has its type invariant, and it is proved of its specification
(`TypesHold`, `QueueTypes`, ...), for all values of the constants; so the runs spend
no time on it, but for `delivery`, where it is a part of `IInv`.

**Left to TLC.**  `PublishingEnds` and `ScheduledEnds` are liveness under fairness, which the
prover does not reach.  The five disagreements are counterexamples.  The
arithmetic of the backoff is a table of seven values, so no recursion is left to induction.

## Assumptions and limits

- A network's refusal is truthful: what it refuses with a client error it did not
  publish.  The code assumes so (`telegram-multipart.mjs:12`).  For posts of
  several parts a refusal concerns one call: earlier parts are then in the channel
  while the post is `failed`, and cancelling it leaves them there.
  `TelegramParts` models this; `Publication` takes a post as one message.
- A match found by the VK reconciliation is this post, not an equal one.
- BullMQ, Redis, PostgreSQL and the networks are external; they are modelled from
  how the code uses them.
- Left out of `Publication`: the states `missing` and `deleted_external`, which
  statistics jobs write (`TelegramParts` has `missing`); the switch of RSS feeds; idempotency keys of the create request and the derived
  status of an operation.
- `Publication` and `PublicationQueue` have one operation or post.  That more posts than a cap are
  overdue, where the quarantine throws and the reconciliation that calls it stops
  (`publication-safety.mjs:148`), is outside them.
- Left out of `PublicationQueue`: the second half of `reconcileScheduledPosts`
  (`worker.mjs:12826-12877`), for posts without an outbox row; the post of the
  model has one.
- `MissingIsGone` is checked with one statistics job.  With two (the nightly one,
  `worker.mjs:12716`, and one asked for by a user, `worker.mjs:12254`, can overlap)
  it fails: both read the page, the post is published, both miss it.  It also
  promises nothing about a handler that outlives the 15 minutes of the
  reclaim (`outlived`).


The services:

- What a property leaves out, because the code does not give it: `LimitHolds` does not
  count results acknowledged after their reservation had lapsed (`late`), which the ledger
  charges all the same; `LiveAttemptIsLeftAlone` allows a request whose reservation lapsed
  before it began to take the generation over (`generation-artifacts.ts:298-306`);
  `RepetitionHasReason` excuses a command whose handler was stopped, died, lost the lease or
  could not record it (a shutdown gives the lease back while a command is carried out,
  `worker.mjs:12901`); `PlanMatchesCalendar` leaves out a commit that was reported as an
  error.
- `LateBuildDeliversNothing` leaves out a build that is at work when a newer plan is
  committed.  The commit looks for a newer row in `building` only (`worker.mjs:7684-7698`),
  and `api/autopilot/generate` cancels rows in `building`, not in `partial`: a continuation
  of an older build, taken while the newer one works, is itself the newest row in `building` once
  the newer result is written, and may then replace it.  The comment at
  `autopilot-weekly-queue.mjs:492-494` is about this danger in the weekly tick.
- `ensurePartialRecoveryState` writes a report over a partial row it read earlier
  (`autopilot-weekly-queue.mjs:213-231`) and so may undo a stop by a person in between, if
  the row had no recovery state.  The model has this behaviour, and no property denies it.
- That a request has one letter rests on the mail provider, which gets the same idempotency
  key with every delivery and is assumed to remember it for the hour a link lives.
- `AutopilotApproval` has no times of posts: that the calendar moves a post
  (`api/autopilot/item/schedule`) while an approval closes the plan with an older copy of the
  items is outside the model.
- `PublicationExtras` takes a dispatch as one step.  A dispatcher that dies between its two
  statements (`publication-extra-outbox.mjs:155`) leaves an operation nothing runs; an export
  whose two failure statements both fail (`project-export-operation.mjs:55`) may stay
  "rendering".  Both are questions of liveness, which no run asks.
- `EditorialApproval` leaves out comments, drafts of autopilot, the review of AI texts, and
  the text of a publication block, which changes what is published without a version of
  the draft.  All its people may do everything, and a person runs one transaction at a time.
- `AutopilotBuild` leaves out the repairs a person asks for, monthly campaigns and the
  selection of posts; `MediaGeneration` the limit on parallel generations; `AiUsage` a second
  day and a changed fingerprint under one key.

## Plan

Done: the pipeline and the nine services, modelled and model-checked; every safety
and action property of the runs that pass is proved.  Left, in this order:

1. Promises of the other services as specifications of their own, as `DeliveryPromise` is for
   `Publication` and `EditorialPromise` for the drafts, and the refinements proved: first the export
   and the letters, whose invariants are there.
2. The schedule reconciler of posts without an outbox row, in `PublicationQueue`.
3. The repairs of a plan that a person asks for, in `AutopilotBuild`, and the steps of a
   dispatch in `PublicationExtras`.
4. Legal visual rendering as a second instance of `ProjectExport`, should the two stay alike.
