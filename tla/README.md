# Quvolt: a TLA+ verification of the live quiz engine and its payments

Quvolt runs live quizzes: a host starts a session, a Node.js server broadcasts
its questions over Socket.IO, participants answer against the clock, and a
leaderboard is kept. A second service takes the payments of buyers and the
subscriptions of hosts. This directory holds TLA+ models of the parts where the
hard behaviour is, the configurations TLC checks them with, and theorems about
them checked by TLAPS.

| file | what it is |
| --- | --- |
| `LiveSession.tla` | the life of one session: every handler and timer that changes its Redis document, its Mongo status or its timers |
| `AnswerIntake.tla` | the answers to the questions of one running session: locks, counters, leaderboard |
| `AnswerPromise.tla` | what answering promises, whatever the server does inside; `AnswerIntake` implements it |
| `Payments.tla` | orders, verification by the client, webhooks, failed jobs, payouts |
| `PaymentPromise.tla` | what the buyers of paid quizzes are promised; `Payments` implements it |
| `Subscriptions.tla` | subscriptions of hosts: orders, mandates, cancellation, the expiry job |
| `PaymentRouter.tla` | choice and failover of gateways, health checks, configuration |
| `StatePersistence.tla` | retries of the writes of accepted answers, the queue of those that failed, its processor |
| `*_proofs.tla` | theorems and proofs: one module for each model, and two that go on from the first, `LiveQuiz_proofs` (what moves a live session on) and `PersistenceCounts_proofs` (what the retries add up to) |
| `MC*.tla`, `*.cfg` | constants and model-checking runs |
| `PROJECT.json` | components, runs, source lines of each definition, hazards, findings, theorems |

To run: `tlc -config pay_buyer.cfg MCPayments.tla`, `tlapm Payments_proofs.tla`.

# 1. The system

## Components

Paths are relative to `server/` unless they begin with `payment-service/`.

| component | state | operations | talks to |
| --- | --- | --- | --- |
| Session store `services/session/session.service.js` | Redis: one JSON document per room code with a TTL, answer locks (10 min), join locks (5 s) | getSession, setSession, deleteSession, acquireAnswerLock, acquireJoinLock | everything below |
| Session lifecycle `services/session/session.lifecycle.service.js`, `services/quiz/quiz.service.js` | the document; `QuizSession.status` in Mongo | start, pause, resume, next, end, abort | store, Mongo transactions, question service |
| Question service `services/gameplay/question.service.js` | `questionState`, `questionExpiry`, counters in the document | broadcastQuestionEnhanced; completion of the quiz; deletion ten minutes later | store, timers, Socket.IO |
| Timers `services/session/session.timer.service.js` | `activeTimers`, a map in the memory of the process | scheduleNextAction: advance, then broadcast | store, question service |
| Answering `services/gameplay/answer.service.js` | leaderboard and counters in the document, answer locks | submitAnswer | store, timers |
| Joining and leaving `services/session/session.join.service.js`, `sessionAccessControl.js` | participants in the document, join locks | joinRoom, leaveRoom | store, Mongo |
| Socket handlers `sockets/**` | none of their own | start_quiz, session:start, session:modeToggle, question:start, disconnect, ... | all of the above |
| HTTP controllers and `modules/quiz/**` (SessionManager, QuestionManager, SessionStates) | Mongo; the document for the question they broadcast | start-live, end, pause, resume | a second implementation beside the lifecycle service |
| Session state machine `utils/sessionStateMachine.js` | none | assertTransition over a table | lifecycle |
| State persistence `services/session/statePersistence.js` | a queue of failed operations in Redis, another in memory | retries with backoff, processing of the queues every five minutes | Mongo, Redis, answering |
| Start-up and recovery `server.js`, `services/session/sessionRecovery.js` | none | rebootQuizzes | store, timers |
| Cleanup job `jobs/sessionCleanup.js` | none | aborts sessions older than a day | lifecycle |
| Sequencing `services/session/session.realtime.service.js`, `utils/messageBatching.js` | per-room counters and buffers | sequence numbers, batched emits | Socket.IO |
| Scoring `services/gameplay/scoring.engine.js` | none (pure) | score of an answer | answering |
| Payments `payment-service/modules/payment`, `services/webhook`, `controllers/webhook.controller.js`, `jobs/failedJobWorker.js` | Payment, WebhookLog, FailedJob in Mongo; a set of keys already handled, in memory | create order, verify, webhook, retry of failed jobs | router, Razorpay |
| Payouts and KYC `payment-service/jobs/payout.job.js`, `modules/kyc`, `services/payout` | HostAccount and the payout fields of Payment | onboarding, status check, payout run | Razorpay |
| Subscriptions `payment-service/services/subscription`, `modules/subscription`, `jobs/subscriptionExpiryJob.js` | Subscription, and the plan on User | verify, take FREE, cancel, charge, end, expire | webhooks, Razorpay |
| Payment router `payment-service/services/router/PaymentRouter.js` | the line of gateways, their health and metrics, in memory | route an order, look up, health check, configure | gateways, failed jobs |
| Authorisation, analytics, templates, AI, authentication, administration, web client | Mongo; the browser | validate and store; display | - |

## How they interact, and what is hard

All handlers of a room share one Redis document and nothing orders them. Each
handler GETs the whole document, awaits, changes its private copy, SETs the whole
copy back, awaits, and only then publishes and arms timers. In every `await` any
other handler or timer callback may run. So:

* a SET silently undoes whatever was stored since the GET (a *lost update*);
* what a handler checked before an await may be false after it;
* the timers, in process memory, and the document, in Redis, are changed at
  different moments, and a restart loses only the former;
* the status lives twice, in Redis and in Mongo, written in either order by
  different handlers, and each write can fail alone;
* the first question is broadcast by two delays (500 ms from `startQuizSession`,
  300 or 400 ms from the socket handler) that overlap;
* every `submit_answer` event reaches two registered listeners, so each answer
  is a race with itself.

In the payment service Mongo is the shared state. An update there is atomic, but
a handler makes several, and a document that was read, changed and saved writes
its changed fields over whatever came between. So:

* webhooks come late, in any order and more than once, are acknowledged before
  they are handled, and race the verification by the client;
* money moves at the gateway at one moment and is recorded at another, with a
  restart or a failing command between;
* the keys that make a call idempotent live in memory, are set after the work is
  done, and are forgotten after ten minutes;
* a subscription is replaced in three steps (read, replace, create), by clients,
  webhooks and the hourly job at once;
* the router goes along a line of gateways that is sorted and re-enabled under
  it, and a gateway it has given up may still open the order.

## What makes each component correct

* Lifecycle: the status follows the state machine; Redis never runs ahead of
  Mongo; a completed session stays completed; what ended stays silent.
* Questions and timers: the questions appear in order and none is left out; a
  live session always has something that moves it on, and so comes to its end;
  a paused session stands still; in tutor mode only the host moves on.
* Answering: one accepted answer per participant and question; the leaderboard
  holds credit for accepted answers and no other, and keeps it; a question ends
  early only when everyone has answered.
* Joining: the participant limit holds; a join changes nobody else's state.
* Persistence: an accepted answer is never dropped on its way to the database, is
  not stored twice by runs of the processor that overlap, and is not tried forever.
* Payments: the status follows the money; a capture gets on record and stays
  there; nothing is recorded as paid out that was not; the host is paid once.
* Subscriptions: no month is granted that was not paid, each charge is granted
  once, what was retired stays so, and what is overdue is expired.
* Router: an order is opened a bounded number of times, at the best gateway first;
  the metrics count each attempt once; a request comes to an end.

`PROJECT.json` lists the hazards at their lines with the property that covers
each, or the reason why none does yet.

# 2. The models

## One step is one stretch of code between two awaits

A call in progress is a slot `c \in Calls` with its operation, a program counter
and *its own copy* of the document: `call[c] = [op, pc, doc, armed]`. A GET is
`GetSession` (the copy is taken), a SET is `SetSession` (the copy replaces the
document, whatever it holds by now), a transaction is a step that may fail.
Handlers are named after their functions, and their steps after what they do:
`EndReads`, `EndWrites`, `EndCommits` are `endQuizSession`.

`SetSession` marks the copies other calls hold as `stale`; a SET from a stale
copy sets `lost`. These two are history variables: no guard of an action reads
them. They separate two questions: what does the code guarantee as long as no
update is lost (most properties), and what may a lost update do
(`CompletedIsFinal`, `CreditKept`; in `AnswerIntake` the passing properties hold
with lost updates and all).

## `LiveSession`

| variable | code |
| --- | --- |
| `session` | the Redis document: `status`, `currentQuestionIndex` (`idx`), `questionState` with `questionExpiry` (`question`), `isPaused`, `mode`; or `NoSession` |
| `dbStatus` | `QuizSession.status` in Mongo |
| `timers` | the keys of the room in `activeTimers` |
| `kicks` | the delayed first broadcasts: "plain", and "unlessLive" for `session:start`, which only republishes when a question is live |
| `reap` | the deletion ten minutes after the end |
| `screen` | index of the last `new_question` |
| `call`, `stale`, `lost` | see above |

| actions | code |
| --- | --- |
| `StartQuizSession` (8 steps) | `startQuizSession`: check of the transition, transaction, GET, SET, GET and SET of the template configuration, two kicks |
| `Broadcast`, `QuestionStart` | `broadcastQuestionEnhanced`: show a question, finish the quiz, fail |
| `TimerStep` | `scheduleNextAction`'s callbacks and the kicks |
| `AdvanceQuizQuestion`, `PauseQuizSession`, `ResumeQuizSession`, `EndQuizSession`, `AbortQuizSession` | the functions of those names |
| `ModeToggle`, `HostDisconnects` | `session:modeToggle`, `disconnect` in `session.handler.js` |
| `JoinRoom`, `LeaveRoom`, `SubmitAnswer` | what those do to the control part of the document |
| `HttpStart`, `HttpEnd` | the routes of `SessionController`, through `SessionManager` and `QuestionManager` |
| `Reap`, `Expire`, `Crash` | deletion, TTL, restart |

The operation "restart" is a socket start of a session that start-live has
already made live: the state machine allows live to live.

**What is abstracted.** Questions are their indexes; an index past the end
behaves as the end. The status of the quiz in Mongo follows that of its session.
`questionState` and `questionExpiry` are one field, because only three of their
combinations differ to any guard. Statuses draft and scheduled precede every
session. HTTP pause and resume change nothing (`"paused"` is not in the enum of
`QuizSession.status`); Mongo's `isPaused` is written and never read;
`tutor_review` is never scheduled; `revealAnswer` is exported nowhere; the sorted
set of distributed timers has writers and no reader; countdown ticks change no
state. Rate limits and analytics are left out.

**Time.** There is no clock: a timer or a delay may fire at any moment, with two
exceptions that `Prompt = TRUE` adds. They are assumptions about the environment
and not facts of the code: that the commands of a call take less time than the
delays of 300 ms and more which the code writes down, those of the first broadcasts
(300, 400 and 500 ms), of the advance an answer brings forward (1000 ms), and of the
advance of a question, its time limit. So a call already under way
returns before such a delay armed meanwhile is over (`armed` holds the delays a call
does not outlast), and the kicks of a start are over before an advance timer armed
since. The delay between an advance and its broadcast is not among them:
`interQuestionDelay` may be 0 (`models/Quiz.js:46`), so it may be over at once. Of the
properties only `NoQuestionSkipped` needs `Prompt`; no theorem does.

## `AnswerIntake`

The running question phase with the data `LiveSession` leaves out: `doc` (the
index of the question, the counter of answers, the participants, the leaderboard as
credit per user and question), the answer `locks`, the `call`s, and two
histories: `accepted`, the answers accepted, and `expired`, how often the lock of an
answer ran out. `SubmitAnswer` has the read with its guards, SET NX of the lock, the
SET and the end of the question; the advance, the broadcast, joins and leaves are
there as the other writers of the document. The advance increments the index and
nothing bounds it (`session.timer.service.js:42`); an index beyond the last question
finds no question, and all of them are alike (`Following`). The id of a question is
compared only when the client sends one along (`answer.service.js:67`), so an answer
may reach any question the document has. Whether the window is open is left to
chance, because only a clock would tell; a late answer is refused after it has
taken the lock, as in the code. Scores are left out: a credit stands for "the
points of this answer are in the stored leaderboard".

`AnswerPromise` is the abstract specification: an answer is accepted once, and once
more for each time the server has forgotten it, credit never exceeds what was
accepted, and credit may get lost. `PromiseKept` is the refinement, with
`credit <- doc.credit` and `forgotten <- expired`.

## `Payments`

| variable | code |
| --- | --- |
| `payment` | the Payment documents: `status`, `razorpayPaymentId` (`pid`), `payoutMode`, `payoutStatus`, whether `razorpayTransferId` is set (`tid`) |
| `request` | a call of `createQuizOrder`, and what it read of the host |
| `account` | HostAccount: linked, `accountStatus` verified, payouts enabled |
| `hook`, `processed`, `acked` | deliveries being handled, events whose WebhookLog says processed, events acknowledged |
| `job`, `worker` | the FailedJob of each event, and the one the worker has in hand |
| `check`, `verified` | calls of `verifyQuizPayment`, and their idempotency keys |
| `run`, `paidOut` | the run of the payout job, and its idempotency keys |
| `charge`, `moved` | at Razorpay: what became of each attempt, and the transfers the payout job made |

| actions | code |
| --- | --- |
| `CreateQuizOrder` (4 steps) | existing payment, host account, order at the gateway, `Payment.create` under its unique index |
| `CreateAccount`, `CheckKycStatus`, `UpsertHostAccount` | the two services that write HostAccount |
| `Deliver`, `CheckLog`, `HandleEvent`, `SavePayout`, `MarkProcessed`, `HookFails`, `MarkFailed`, `LogFailedWebhookJob` | `handleWebhook` and the handlers of `webhook.service.js` |
| `TakeJob`, `FinishJob`, `JobFails` | `processFailedJobs` |
| `BeginVerify`, `SaveVerified`, `SaveVerifiedFails`, `Forget` | `verifyQuizPayment` inside `ensureIdempotent` |
| `FindPayouts`, `CheckPayout`, `BlockPayout`, `MakeTransfer`, `SaveTransfer`, `PayoutFails` | `processPendingPayouts` |
| `PayAttempt`, `RefundAttempt` | external: the buyer and the dashboard of Razorpay |
| `Crash` | a restart of the process |

A `findOneAndUpdate` is one step. `reconcileCapturedPayment` and the two jobs read a
document and save it later, so they are two, and a save writes only the fields
that were changed, as Mongoose does. A signature is modelled by who has one: a
client can verify an attempt that paid. Amounts, emails and billing are left out;
the split is a choice between a share and none. `ROUTE_SPLIT_ENABLED` is on, its
default, and payments are enabled, so that no order is a mock.

`RetryWebhookJob` changes nothing, and so does the code: a job holds the body of
the request, whose payment is at `payload.payment`, and the worker looks one level
deeper (`failedJobWorker.js:20`).

`PaymentPromise` is the abstract specification: access only for money, withdrawn
only when the money is returned. `PromiseKept` is the refinement, with `access` and
`money` read off `payment` and `charge`.

## `Subscriptions`

`subs` are the documents in the order of their creation (`host`, `plan`, `status`, the
`id` that stands in `razorpaySubscriptionId`, the month they last `until`, the
`paidCycles`), `plan` is the plan on User, `call` holds a record for each actor: a
client's call, a delivery, or the expiry job. `CreateSubscription` is `ReadCurrent`,
`ReplaceActive`, `Create` or `CreateRefused`, and `SyncUserPlan`; each task enters it
somewhere and `AfterCreate` says where it goes on, because
`modules/subscription/SubscriptionService.js` has a copy of `createSubscription`
that syncs no user. `Free` is the unique index, which counts null. Time is
counted in months, the unit a payment grants; a subscription is overdue when its
month is not in the future. `MaxSubs` bounds the documents: a create beyond it
fails like one the index refuses. `upgradeHistory` is written after a create and
read nowhere, so its step is left out.

`verifySubscriptionPayment` checks the signature of an order and a payment and nothing
else: the host is the one who is logged in, the plan the one he names
(`subscriptionController.js:110`), and neither is compared with the order, which need
not even be of a subscription, because quiz payments are signed with the same secret.
So `BeginVerify` takes any order that was paid, any host and any plan, and `Orders` are all
of them. What keeps the grants down to the payments is that each document has the id
of its payment and the index allows an id once. A mandate changes that: `Link` puts
the id of the mandate in the place of the payment's, which can then be presented
again. `MonthsArePaid` is therefore about services without mandates.

`Fail` lets any command of a call fail, or be reported to after it was carried out. It
ends the call of a client or a webhook, and the job goes on to its next document.

## `PaymentRouter`

`seat` is the place of each gateway in `this.gateways`, `priority` and `enabled` its
configuration, `available` its health, `success` and `failure` its metrics. `call`
is a request with the gateways it will still try in the order they had when it
began (`todo`, `turn`), the one it waits for (`at`) and those that failed (`missed`);
`order` and `opened` are what the gateways made of it. `RouteCreateOrder`, `Answered`,
`TimesOut`, `RecordFailedAttempts` are `routeCreateOrder`; `RouteLookup` and
`LookupAnswered` the two lookups; `PerformHealthChecks` and `HealthChecked` a sweep;
`SetPriority` and `SetEnabled` the configuration; `ResolveJob` what the retry worker
does to a job of this type. `TimesOut` may happen while the answer is on its way,
and `GatewayAnswers` after it. Latencies are left out. `config/gateways.js` can
load one gateway today; several are what the router is written and tested for
(`tests/failoverIntegration.test.js`).

## `StatePersistence`

`Items` are the answers `submitAnswer` accepts and passes to `persistSubmission`
without waiting. `call` is a call of `executeWithRetry` (`try`, then `queue`), `run` a
run of `processFailedOperationsQueue` (`pull`, `work` on `items`, `requeue`), `redis`
and `memory` the two queues; `stored` counts the documents of each answer.
`refused`, `givenUp`, `lost`, `tries` and `hidden` are history variables.

| actions | code |
| --- | --- |
| `Begin`, `TrySucceeds`, `TryIsRefused`, `TryFails`, `QueueFailed` | `persistSubmission`, `executeWithRetry` |
| `Push` | `queueFailedOperation` |
| `StartRun` | the interval of `server.js`, which does not wait for the run before |
| `Pop`, `PullEnds`, `PullFails`, `TakeMemory` | the two pulls |
| `WorkSucceeds`, `WorkFails`, `Requeue`, `RunEnds` | the loop over `items` |
| `Crash` | a restart: it loses calls, runs and `memory`, but not `redis` |

A command to Mongo or Redis is one step, which may fail, and an error may hide that
the command was done (`hidden`); a reply to LPOP that is lost takes the entry with it.
The delays of the backoff are left out, as nothing depends on their lengths. The
processor does not tell a validation error from another, and neither does
`WorkFails`. Of the operations the queue knows, only submissions are ever put into
it: the other `persist*` functions have no caller. A service without Redis is
the case in which each `Push` and pull fails.

# 3. What TLC checks

Runs that pass, with two workers in half a minute to two minutes each.

| run | instance | properties |
| --- | --- | --- |
| `live_all` | 1 call, all operations, 2 questions | `TypeOK`, `DatabaseLeadsCache` |
| `live_quiz` | 2 calls; start, leave, end, abort; 2 questions; `FairSpec` | `NeverStalls`, `NoQuestionSkipped`, `LegalTransitions`, `Finishes` |
| `live_host` | 2 calls, auto mode, 1 question; start, pause, resume, next, answer, leave, disconnect | `PausedStands` |
| `intake` | 2 users of whom 1 does anything, 2 calls, 2 questions; all operations, a lock that expires | `TypeOK`, `AtMostOneAccepted`, `NeverOverpaid`, `PromiseKept` |
| `pay_faults` | 1 order, 1 attempt, 1 delivery; KYC, payouts, refunds, retries, failing commands, restarts | `TypeOK`, `TransferredIsMoved` |
| `pay_buyer` | 1 order, 2 attempts, 2 deliveries, 1 verification; refunds, restarts; `FairSpec` | `CompletedIsPaid`, `ProcessedCaptureStands`, `PromiseKept`, `CaptureRecorded` |
| `subs_orders` | 2 hosts, 2 orders, 1 call, the job; cancel, expire, failing commands, restarts; 2 documents; `FairSpec` | `TypeOK`, `MonthsArePaid`, `ExpiryTaken` |
| `subs_mandate` | 1 mandate of 2 charges, 1 delivery, 1 call, the job; 3 documents, 2 months | `ChargesCounted`, `RetiredStays` |
| `router` | 3 gateways, 1 request, 2 sweeps, 2 tries, 3 changes; `FairSpec` | `TypeOK`, `OrdersBounded`, `MetricsAddUp`, `HighestFirst`, `Ends` |
| `persist` | 2 answers, 2 calls, 2 runs, 2 tries each, 2 faults; `FairSpec` | `TypeOK`, `NothingForgotten`, `StoredOnce`, `TriesBounded`, `Settles` |

* `DatabaseLeadsCache`: Redis never says live while Mongo says waiting, although
  a join that began before the start writes a status it read in Mongo.
* `NeverStalls`: a live, unpaused session in auto mode has a timer, a kick or a
  call that will arm one. Every broadcast clears the timers of the room before
  it arms its own, so two overlapping ones might leave none.
* `NoQuestionSkipped`: questions appear in order and the quiz finishes only after
  the last, though the first is broadcast two or three times.
* `LegalTransitions`: only start and end ask the state machine; the status in
  Redis follows its table whichever handler writes it, but for a start that was
  overtaken: it writes live whatever it finds (section 4).
* `Finishes`: a session that is live comes to its end by itself.
* `PausedStands`: while a session stays paused its index stands still, whatever timers
  were armed before the pause, or are armed under it by a broadcast or an answer, and
  whatever nexts are sent. A call that had read the document before the pause was
  stored is excused in its own step: the SET of such a next, or of an advance that
  was just due, does move the index (`quiz.service.js:30`) and undoes the pause with
  it.
* `AtMostOneAccepted`, `NeverOverpaid`, `PromiseKept` (answers): though every
  `submit_answer` is handled twice and stale copies take the index back, an answer is
  accepted once, and once more only after its lock ran out; no copy brings credit
  that was not accepted.
* `CompletedIsPaid`: the payment a completed document names was captured, the one a
  refunded document names was refunded, whichever of client and webhooks wrote last.
* `ProcessedCaptureStands`: no failure told late, no duplicate and no save of an older
  copy takes a processed capture off the record before the money is returned.
* `CaptureRecorded`: a captured payment gets on record, unless its event was
  acknowledged and lost; nothing else loses it.
* `PromiseKept` (payments): each step is one the promise allows.
* `TransferredIsMoved`: transferred is said only after a transfer of the payout job,
  with transfers that fail, saves that fail and restarts between the two.
* `MonthsArePaid`: the hosts together are granted no more months than payments were
  made, though an order may be verified by either host, for any plan, ten minutes
  apart, after a failure or a restart: what the idempotency set lets through again the
  unique index stops.
* `ChargesCounted`: between the steps of a delivery the host and the job replace,
  expire and create documents; each processed charge is still granted once.
* `RetiredStays`: the saves of stale copies never make a retired document active.
* `ExpiryTaken`: two documents are overdue and every command of the downgrade of one
  may fail, at each run of the job; the other one is expired all the same. Excused are a
  document whose own save keeps failing, and a process that restarts without end.
* `OrdersBounded`, `MetricsAddUp`: late answers open no second order at a gateway and
  do not change what the attempt was counted as.
* `HighestFirst`: a first try goes to a usable gateway of the highest priority,
  although the line is kept as an array sorted at each change.
* `Ends`: a request ends though no gateway ever answers.
* `NothingForgotten`: every answer given to `persistSubmission` is stored, on its way,
  refused, given up, or lost to a restart or a lost reply: nothing drops one between
  call, queues and overlapping runs.
* `StoredOnce`: an answer has a second document only after an error that hid a
  success; overlapping runs never share an entry.
* `TriesBounded`: the retries of the call and those of the queue do not feed each other.
* `Settles`: what waits is settled in the end, even if the database never answers,
  unless the process restarts over and over.

**Bounds.** `MaxKicks = 2` lets one start be under way or waiting for its kicks at
a time (another may follow); with 4 the liveness of `live_quiz` takes longer than its
worth. The theorems about `NeverStalls`, `LegalTransitions` and `PausedStands` hold for
any number. Two slots are two awaits that overlap, which every
hazard in the list needs and none exceeds, except the early end of a question,
where two users' answers and a broadcast take three. Two questions have a first,
a last and an advance between them; for `PausedStands` one is enough, since it
is about leaving a question. In `intake` one user acts, because the locks, the
credit and the acceptance of two users are apart and meet in stale copies only, which
the acting user's other call, the advance and the broadcast hold as well; the other
user keeps a question from ending with every answer. The theorems hold for any users.
`MaxExpiries = 1` lets the lock of an answer run out once.
`live_all` has one slot, because with every operation two do not fit; there the
interleaving is of whole calls with timers, kicks, expiry and restarts, and
`DatabaseLeadsCache`, the property that needs more, is a theorem for any number.
`live_quiz` has no joins: one that comes after the reap of a session whose final
commit failed makes a document that Mongo calls live and no timer will move.
`live_quiz` has no answers for the reason section 4 gives (`NoQuestionSkipped`).

Payments: one order is enough, because each property is about one order, and two
of them meet only in the unique index and the refusal of a second purchase, which
`Payments_proofs` covers for any number. Two attempts let a failure and a capture
be told in either order, two deliveries overlap. `MaxFailures = 1` bounds the
events with a job and the failures of each; `MaxAttempts = 1` makes the second
failure of a job its last; `MaxMoves` bounds the transfers. `CaptureRecorded` is
checked without failing commands, for the reason in section 4.

Subscriptions: in `subs_orders` two documents, of two hosts or of one, are overdue in
the same run of the job. With `MaxSubs = 2` the FREE subscription of the downgrade of
the second finds no room and fails, which is one more failure the job has to survive;
with one client two verifications of an order come one after the other, and the
theorem covers those at once. In `subs_mandate` three documents are what it takes
for one to be replaced by a second while a third is made; two charges are a first and
a later one, two months let one of them come too late. `ChargesCounted` and
`RetiredStays` are checked with one delivery at a time: with two, a charge may be granted
twice (section 4). Nor do commands fail there: a delivery that fails after its
`SavePayment` is told again and grants the month once more.

Router: three gateways and two tries let the limit bite; `MaxChanges = 3` is a
change, its undoing and a sweep, or two sweeps that overlap and a change.

Persistence: the code has 3 tries of a call and 5 of an entry; with 2 and 2 each kind
of try has a first that is repeated and a last that is not. `MaxFaults = 2` bounds
the errors of Redis and those that hide a success; the database may fail without
bound. Two runs overlap while two calls fill the queue they drain.

**Symmetry.** Calls, users, attempts and deliveries are interchangeable: no
definition orders or names them. It is not used with liveness, nor where there is one call.

**Deadlock** is not checked: once a session is over and its document deleted,
nothing needs to happen. That nothing hangs earlier is `NeverStalls` and `Finishes`.

**Fairness.** A call under way goes on (weak fairness for each slot): Redis and
Mongo answer or fail, and each of the two is a step. Timers that are armed fire
(`setTimeout`). They need strong fairness here, because the slot they run in is
a bound of the model and may be taken again and again in between. Users are not
fair: nobody has to start, answer, leave or end anything. Payments: a handler that
has begun goes on, and Razorpay delivers what it has not delivered (strong
fairness, again because the slots are a bound). It does not repeat a delivery
that was acknowledged. Subscriptions: where the jobs are switched on
(`SUBSCRIPTION_JOBS_ENABLED`, off by default, payment-service/server.js:187) the expiry
job runs every hour, its search succeeds now and then, and a run goes on; where they
are not, nothing expires and `ExpiryTaken` says nothing. Router: the timer of five
seconds fires and what follows it is done; gateways are not fair. Persistence: calls and runs go on and the interval fires (weak fairness of
each); nothing makes Mongo or Redis answer.

# 4. Where the code and its documents disagree

Two are runs that TLC finds violated by the model of the code.

| run | what happens | what is said |
| --- | --- | --- |
| `live_tutor` | the host switches a running quiz to tutor mode; the advance timer armed in auto mode stays armed, its callback does not look at the mode, and the quiz goes on by itself | .kiro/specs/saas-enhancement-refactor/requirements.md:51 |
| `pay_twice` | the order carries the transfer of the share to the host, and the payout job makes another for the same payment | payment-service/README.md:82 |

Six have no run of their own, five of the live engine and one of the subscriptions. The properties that show them
are kept in the modules; each is violated in a small instance with the operations
named.

| property | operations | what happens | what is said |
| --- | --- | --- | --- |
| `NeverStalls` | start, pause, resume | pause clears the timers; resume registers the rest of the time in a sorted set nobody reads: a resumed session stalls | docs/REALTIME_ENGINE.md:84 |
| `CompletedIsFinal` | start, leave | a leave read the document before the quiz finished and stores it afterwards: completed goes back to live | server/tests/sessionStateMachine.test.js:19 |
| `EndedStaysSilent` | start, httpEnd | a quiz ended over HTTP goes on in its room: document and timers are untouched | question.service.js:93 |
| `NoQuestionSkipped` | start, answer, 3 questions | the last answer arms an advance while that of the question has just fired: the index moves twice before a broadcast and a question is never shown | docs/REALTIME_ENGINE.md:84 |
| `CreditKept` | answer, 2 users | two participants answer at once; the second SET drops the first's credit | server/tests/realtimeSync.test.js:291 |
| `ExpiryDowngrades` | charge, FREE, expire | the FREE subscription of an expired host is refused by the index, because null counts in it (models/Subscription.js:39) and the service has one FREE document already; the user stays on the paid plan | payment-service/jobs/subscriptionExpiryJob.js:8 |

`EndsWhenAllAnswered` in `AnswerIntake` holds as long as the question does not
advance under the answers (three calls, two users, answer and show).

Other disagreements met while modelling, which need no model checker to see:

* `startAnalyticsWorker` (server.js:181) is defined nowhere. The error it throws
  skips `rebootQuizzes`, so after a restart no timer is armed again; the catch
  branch still starts the cleanup job and the queue of failed operations.
* Each broadcast starts a countdown interval (question.service.js:228) that no
  later broadcast clears, so a start leaves two of them ticking.
* `endQuizSession` completes a session that was never live, and
  `pauseQuizSession` pauses one that is over: neither looks at the status.
* The answer lock lasts ten minutes; a pause may last longer, after which the same
  user is accepted again (`AtMostOneAccepted` allows one more for each lock that ran
  out).
* A payment that was verified once can be presented again once a webhook has linked
  its document to a mandate, which takes the id of the payment off it.
* The index on `Payment.razorpayPaymentId` counts null as well, so the service keeps
  one unpaid order at a time: the next `createQuizOrder` fails after its order was
  opened at the gateway.
* A capture told, or verified, after a refund makes the payment completed again
  (webhook.service.js:11 excludes completed and nothing else).
* A start asks the state machine before its transaction and writes live after it
  (session.lifecycle.service.js:28 and :76): of two starts that overlap, the second revives
  a session that the host has ended after the first. `LegalTransitions`
  therefore excepts the SET of a start.
* A failed webhook is resolved by the retry worker without being done
  (failedJobWorker.js:20), and one that was acknowledged before a restart is lost.
* The queue of failed operations is pulled into memory before it is worked on
  (statePersistence.js:94): a restart in between loses what was in it.
* The retry worker also resolves a failed routing, of which it knows nothing.
* A payout blocked for KYC is not taken up again: the job looks for processing only.
* Two deliveries of charges of one mandate at once grant a month twice or lose one
  (both read the document before either saves).

# 5. What is proved

TLAPS checks these for every set of calls, users, orders, gateways and so on,
every number of questions, both modes, and every set of operations but for the
assumption named.

| theorem | says | assumes |
| --- | --- | --- |
| `LiveSession_proofs!TypeCorrect` | `Spec => []TypeOK` | |
| `LiveSession_proofs!DatabaseLeads` | `Spec => []DatabaseLeadsCache` | |
| `LiveSession_proofs!PauseHolds` | `Spec => PausedStands` | no two joins of one user at once (`"joinTwice" \notin Ops`) |
| `LiveQuiz_proofs!StatusFollowsTable` | `Spec => LegalTransitions` | no joins |
| `LiveQuiz_proofs!NeverStallsAlways` | `Spec => []NeverStalls` | no resume, restart, join or toggle of the mode |
| `AnswerIntake_proofs!TypeCorrect` | `Spec => []TypeOK` | |
| `AnswerIntake_proofs!AnswersOnce` | `Spec => []AtMostOneAccepted` | |
| `AnswerIntake_proofs!NeverOverpaidAlways` | `Spec => []NeverOverpaid` | |
| `AnswerIntake_proofs!KeepsPromise` | `Spec => PromiseKept` | |
| `Payments_proofs!TypeCorrect` | `Spec => []TypeOK` | |
| `Payments_proofs!CompletedIsPaidAlways` | `Spec => []CompletedIsPaid` | |
| `Payments_proofs!ProcessedCaptureStandsAlways` | `Spec => []ProcessedCaptureStands` | |
| `Payments_proofs!TransferredIsMovedAlways` | `Spec => []TransferredIsMoved` | |
| `Payments_proofs!KeepsPromise` | `Spec => PromiseKept` | |
| `Subscriptions_proofs!TypeCorrect` | `Spec => []TypeOK` | |
| `Subscriptions_proofs!RetiredStaysAlways` | `Spec => RetiredStays` | |
| `Subscriptions_proofs!MonthsArePaidAlways` | `Spec => []MonthsArePaid` | |
| `PaymentRouter_proofs!TypeCorrect` | `Spec => []TypeOK` | |
| `PaymentRouter_proofs!OrdersBoundedAlways` | `Spec => []OrdersBounded` | |
| `PaymentRouter_proofs!MetricsAddUpAlways` | `Spec => []MetricsAddUp` | |
| `PaymentRouter_proofs!HighestFirstAlways` | `Spec => HighestFirst` | |
| `StatePersistence_proofs!TypeCorrect` | `Spec => []TypeOK` | |
| `StatePersistence_proofs!NothingForgottenAlways` | `Spec => []NothingForgotten` | |
| `PersistenceCounts_proofs!StoredOnceAlways` | `Spec => []StoredOnce` | |
| `PersistenceCounts_proofs!TriesBoundedAlways` | `Spec => []TriesBounded` | |

The inductive invariants, each stronger than what it is for:

* `TypeInv` adds to `TypeOK` that a call at a step that uses its copy holds a
  document and not `NoSession`.
* `LeadInv`: what can bring a live document about is not only the document but
  every copy some call will still SET, and a start past its commit. As long as
  Mongo is waiting none of these is live; Mongo never goes back to waiting.
* `CopyInv`: a copy that no SET has made stale equals the document (or the
  document is gone), and the copy of a call that will move the index on is not
  paused. A SET from a fresh copy then changes a paused document only as its
  handler says, and no handler that passes the pause check moves the index. A
  join that lost the join lock SETs a copy it has altered since it read it, which
  is why the theorem leaves that case out. `PausedStands` asks no more than that the calls
  whose copies were overtaken do not step: `stale` names them (`WriteMovesOn`).
* `LiveQuiz_proofs` takes this further for sessions without joins. Each step of a call
  is a read, a move, a SET or a return (`Stepped`), and every document is made by the
  updates of the handlers from the one a start stores, so that a set of documents which
  these updates do not leave holds the session and all copies (`DocsIn`: the mode never
  changes; what is not waiting has been started). `FreshInv` is the half of `CopyInv`
  that says a copy is the document, and `ShowInv` that the copy of a broadcast is not
  completed. For `NeverStalls`, `MovingInv`: a live session has a timer, a kick, or a
  call past its last test which will arm one, or is about to become what needs none.
  Each step is shown to hand this on: a callback that ends at once does so for a
  document that needs nothing, and a broadcast that clears the timers arms its own.
* `LockInv`: an answer was accepted at most once more than its lock ran out, and no more
  often than that while the lock is free, or held by a call that is about to accept; no
  two calls hold the same lock.
* `CreditInv`: no copy, stale or not, has more credit than was accepted. Taking
  the copies in is the point: each of them may become the document.

* `Payments_proofs!Inv` backs every document, every delivery and every call by what
  the gateway has: an event in hand has occurred (`HooksSound`), a verification in
  progress names an attempt that paid (`ChecksSound`), a payment names an attempt with
  the state its status claims (`PaymentsBacked`), the payout run saves only a transfer
  it made (`RunSound`). These are needed because a step writes what an earlier one
  read. `ProcessedSound` carries a capture from the step that records it over the
  step that marks its event.
* `Subscriptions_proofs!Inv`: a document with a paid plan has the id of a payment that
  was made and stands for one month, or some mandate was charged (`SubsSound`); what a
  call in progress will write, under whatever it read before, is backed in the
  same way (`CallsSound`); and no two documents share an id (`UniqueIds`, which the
  unique index keeps at `Create` and `Link`). While no mandate is charged the months
  then map one to one to payments, whichever host and plan they were presented for and
  whatever the idempotency set has forgotten. `TypeOK` alone would not do: `Create`
  writes a plan and an id that were set several steps before.
* `PaymentRouter_proofs!Inv`: the places in the line are all different and follow the
  priorities (`LineSound`); the gateways asked for a request and those still to be
  asked are disjoint and at most `MaxTries`, and an order is open once exactly where
  its state says so (`OrdersSound`); the gateway in turn, those that failed and those
  to come are disjoint (`CallsSound`), which is why an attempt is counted once
  (`AllCounted`). Lemmas say that the first n of a finite set are at most n and
  include its head, and that sorting leaves a line.
* `StatePersistence_proofs!Inv`: `NothingForgotten` is inductive once a call at work is
  known to have an answer and a run that puts an entry back to have one (`Busy`). Each
  action is shown to keep what is held somewhere held or settled (`Keeps`); lemmas
  say what the entries of a queue are after an append, a tail and a concatenation.
* `PersistenceCounts_proofs!CountsInv`, for `StoredOnce` and `TriesBounded`: for each
  answer, what was spent and what is left is at most what was granted. What is left is a
  sum over the calls, the queues and the runs that have the answer in hand, each with
  what its tries still allow, so that a step spends one or hands on what it has. There
  is no operator for such a sum that can be proved about without induction; it is the
  number of the units it is made of (`Units`, `Total`), and lemmas about finite sets say
  what becomes of it when one of the holders changes.

Only model-checked: liveness, which is out of the prover's reach (`Finishes`,
`CaptureRecorded`, `ExpiryTaken`, `Ends`, `Settles`), and two safety properties.
`NoQuestionSkipped` is true of sessions without answers, nexts and joins only, as
`live_quiz` has them, and `ChargesCounted` of deliveries handled one at a time: a
theorem would have to assume all that the real service has. Every other invariant and
action property of a passing run has its theorem.

# 6. What is not modelled, and the plan

Not modelled, and why: the amounts of scores and splits (arithmetic over
floating-point numbers, no protocol); sequencing and batching, and the
participant limit of a join (next, below); the countdown (display only);
billing records, revenue reports and analytics (they read); authorisation,
templates, AI, authentication, administration (they validate and store);
publishers (they format and emit); the web client (the server is the authority).

The plan goes on with, in this order:

1. `SessionPromise`: the session as its participants see it (waiting, question i,
   paused, over), implemented by `LiveSession` while no update is lost.
2. `JoinRoom`: participant limit, join lock and its five seconds, rejoins.
3. `Sequencing`: order of sequence numbers and batches as a client sees them.
4. `Recovery`: what `rebootQuizzes` would rebuild, were it reached.
