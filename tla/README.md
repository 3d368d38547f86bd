# LynxPay in TLA+

LynxPay is a multi-merchant gateway for M-PESA STK payments: a FastAPI service, a
PostgreSQL database and a few polling workers. A merchant asks for a payment, LynxPay asks
Safaricom's Daraja API to show a prompt on the customer's phone, and learns the result from
a callback, from a status query, or from an operator. This directory holds TLA+ models of
that system, TLC configurations that check them on small instances, and TLAPS proofs for
every value of the constants. Source paths below are relative to `src/`.

## 1. Inventory

| Part | Code | State | Operations | What makes it correct |
|---|---|---|---|---|
| State machine, result codes | `app/state_machine.py`, `app/provider_codes.py` | - | `ensure_transition`, `begin_payment_retry`, `classify_mpesa_result` | a success is final but for a reversal; only a retry leads back to pending |
| STK submission, retry | `app/routers/payments.py` | payments, attempts | create, submit (await), retry | no second prompt without an override, no answer lost, nothing pending for ever |
| Callbacks | `app/routers/callbacks.py` | callback rows | store raw, match, verdict | one receipt for one payment, receipts never replaced, conflicts flagged |
| Operator link | `app/admin.py:79` | callback rows, payments | link an unmatched callback | evidence agrees, a receipt is spent once |
| Reconciliation | `app/reconciliation.py`, `app/routers/reconciliation.py` | leases, check counter, schedule | claim, phase 1, query (await), phase 2, manual check | a stale answer is not applied; waiting ends |
| Maintenance | `app/maintenance.py` | attempts, payments | abandon stale submissions | a dead process leaves no pending payment |
| Ledger | `app/service.py:75-180`, `alembic/versions/0012_v2_ledger_coupling.py` | append-only ledger | record; deferred trigger | every change has its row |
| Webhooks | `app/webhooks.py`, `app/routers/webhooks.py` | endpoints, deliveries, attempts | queue, claim, deliver (await), pause, replay | each event is delivered or given up for a reason; history is complete |
| Reversals | `app/reversals.py`, `app/routers/reversals.py` | reversal requests, payments | request, approve, cancel, submit (await), callbacks, status query | two people, one submission, money goes back at most once |
| Invoices | `app/routers/invoices.py`, `app/routers/payments.py:367`, `app/service.py:110-136` | invoices, their payments | create, void, pay publicly or by a merchant's request; settle and reopen with a payment | a paid invoice is backed by a payment; the link asks nobody twice for the same money |
| Onboarding, credentials | `app/routers/merchants.py`, `app/routers/credentials.py`, `app/admin.py` | merchants, credentials, verification payments | save, test, disable, verify, submit, decide, suspend | only a merchant verified with its present credentials goes live |
| Sessions | `app/auth.py` | sessions | login, refresh, reuse detection, logout, revocations, reset, MFA | one head per token family; a reset ends the sessions of the old password |
| Mailed tokens | `app/auth.py` | reset and verification tokens | issue, confirm | of the tokens pending together one is used |
| Merchant dashboard | `apps/merchant-dashboard/src/lib/` | cookie, rotations shared by concurrent calls | proxy, refresh, sign in | concurrency never trips the reuse detection |
| Team, API keys | `app/team.py`, `app/routers/api_keys.py` | users, invitations, keys | invite, accept, change role, revoke | an invitation works once, somebody owns the organization |
| Email outbox | `app/email_delivery.py` | outbox rows | enqueue, claim, send, record | given up only after real failures; sent twice only for a reason |
| Key rotation | `app/rotate_encryption.py`, `app/core/security.py` | ciphertext columns, keys of the processes | write, rotate, verify, retire the old key | no secret is lost with the old key or to the job |
| Daraja client | `app/daraja.py` | token cache | single-flight token, calls | one fetch at a time, no stale token |
| Worker loop | `app/worker.py` | heartbeats | `run_once`, `run_forever` | every queue is polled for ever |
| API keys, catalogue, principals, tenancy, limits, metrics | `app/routers/api_keys.py`, `app/routers/catalog.py`, `app/deps.py`, `app/database.py`, `app/observability.py` | - | - | see "Not modelled" |

Parts interact through the database alone. API handlers, callback handlers, operators and
workers are separate processes; each database transaction is atomic under row locks, but a
handler that awaits Daraja or a merchant's server holds no lock over the await, commits
before it and again after it, and writes from the copy of the row it read. All hard
behaviour of the system lives in these gaps: another handler runs between two commits, the
process dies between them, a lease runs out, Daraja reports late, twice or never.
`PROJECT.json` lists these hazards one by one.

## 2. Modules

| Module | Models |
|---|---|
| `PaymentStates` | the transition table and the classes of result codes |
| `PaymentLifecycle` | abstract specification: what may happen to the status of one payment |
| `StkPayments` | payments, attempts, callbacks, links, maintenance, reconciliation on one database |
| `MCStkPayments`, `MCStkReconcile` | the model-checking instances of `StkPayments` |
| `StkPaymentsProofs`, `StkPromptProofs`, `StkEvidenceProofs` | theorems about `StkPayments`: rows and refinement; prompts and ledger; evidence and announcements |
| `WebhookDelivery`, `MCWebhookDelivery` | endpoints, deliveries, attempts and the polling workers; its instance |
| `WebhookDeliveryProofs` | theorems about `WebhookDelivery` |
| `Payback` | abstract specification: how money may be asked back, sent, returned and booked |
| `Reversals`, `MCReversals` | reversal requests, the submitting workers and Daraja; its instance |
| `ReversalsProofs` | theorems about `Reversals` |
| `Invoices`, `InvoicesProofs` | invoices and the payments that settle and reopen them |
| `Sessions` | the sessions of a user and the transactions that issue and close them |
| `DashboardSessions` | the merchant dashboard in front of `Sessions` |
| `AccountTokens` | mailed reset and verification tokens |
| `AuthProofs` | theorems about `Sessions`, `DashboardSessions` and `AccountTokens` |
| `Team` | members and invitations of an organization |
| `Onboarding` | merchant, credentials and verification payments up to activation |
| `KeyRotation` | the rotation job, the processes that write meanwhile, the ceremony of the runbook |
| `EmailOutbox` | the outbox and its workers |
| `TokenCache` | the OAuth token of one credential in one process |
| `MCBackOffice` | the composition of `Invoices` and the eight components below it, and their instance |
| `BackOfficeProofs` | theorems about `Team`, `Onboarding`, `KeyRotation`, `EmailOutbox`, `TokenCache` and about the composition |
| `Null` | the one constant `None` they share |

`StkPayments` extends `PaymentStates` and instantiates `PaymentLifecycle` with the refinement
mapping `status <- [p |-> payment[p].status]`. `Reversals` instantiates `Payback` with
`stage <- [r |-> Stage(r)]` and `books <- payment`. `Reversals` starts where a payment is
successful; `StkPayments` contains its effect on a payment as the one action `Reverse`, so
neither module has to carry the state of the other. Webhook deliveries start where
`StkPayments` ends with `announced`, the newest event queued for a payment. `Invoices` uses
the state machine of `PaymentStates` for its payments: what the provider, callbacks and
checks do to a payment is any step `Allowed` lets it make, of which `StkPayments` makes some.
`DashboardSessions` extends `Sessions` and drives its actions. The components around the
payments share no state with one another, but for the dashboard and its sessions, so
`MCBackOffice` composes them by a variable `focus` that chooses at the start which one moves.
`MCStkReconcile` extends `StkPayments` and lets `focus` choose which attempts, sessions and
result codes take part.

### How StkPayments corresponds to the code

Each action is one transaction. A handler that commits several times is several actions:
`Create` or `Retry` is the first commit of a payment request; one of `SubmitRefused`,
`SubmitUncertain`, `SubmitWithoutCheckout`, `SubmitAccepted`, `SubmitRepeatedId` is the
commit after the await; `SubmitAborted` is that commit when the ledger trigger refuses it
and `CrashSubmission` is the process dying in between. `CommitStale` states what the second
commit does: SQLAlchemy writes the columns the handler changed in memory, so the rest of
the row keeps what other transactions wrote, and the ledger row claims that the payment was
pending. `TriggerAccepts` is migration 0012: a changed status needs a row that leaves the
old one. A payment carries the number of its attempt in place of the CheckoutRequestID and
the attempt in place of a receipt; amounts, phones, texts and timestamps are left out,
except as the result-code classes `success`, `unverified` and `reused`, which say how the
evidence in a success callback compares with the payment.

`Transmit`, `CustomerAnswers` and `MayReport` are the environment: Daraja and the customer.
Daraja is truthful (a success code only after a payment, a definite failure only after the
prompt was declined), but codes of the timeout and unknown classes are not definite, and a
result may arrive at any time, any number of times, or never. A delivery needs no message
in flight for that reason. Callback rows that no later step reads (malformed, rejected,
duplicate, unverified) are not kept. A crash between the commit of the raw callback and its
verdict is therefore a lost delivery. A failure is a duplicate when its code and description
are those of one already processed (`app/routers/callbacks.py:245-257`). A class of codes
stands for many of these, so `Matched` lets a failure of a class seen before be either a
duplicate, which leaves nothing, or a new one, which is judged again.

Reconciliation has a session per worker and per manual check: `Claim`, `BeginCheck` or
`SkipCheck` (phase 1), then `ApplyCheck` or `DropCheck` (phase 2). The manual endpoint
reads the row without a lock and the locked read in the same session keeps that copy, so
`LoadForManualCheck` and `BeginManualCheck` are two actions.

### How WebhookDelivery corresponds to the code

`Enqueue`, `Replay`, `UpdateEndpoint` and `ArchiveEndpoint` are the merchant's handlers and
the queueing done inside payment transactions (`app/service.py`, `app/routers/webhooks.py`).
A worker's pass over one delivery is four transactions of `app/webhooks.py`: `Claim`
(`claim_deliveries`, with row locks), `Load` or `LoadTooLate` (the unlocked read at the top
of `deliver_claimed`), `BeginAttempt` or `AbortAttempt` (the attempt row is committed before
anything is sent; the unique constraint on the attempt number refuses a second worker with
the same reading), and `FinishAttempt`. The last one is where the code is delicate: the
worker decides on the copies of the delivery and of the endpoint it holds since
`BeginAttempt`, and SQLAlchemy writes the columns that differ from these copies over
whatever the rows hold now. `Written` says that, column by column. When a retry is due is
left open (any time), and so is the receiver: an answer is `delivered` or `failed`.

### How Reversals corresponds to the code

`RequestReversal`, `ApproveReversal`, `CancelReversal` and `QueryReversalStatus` are the
endpoints of `app/routers/reversals.py`; each locks its row, the request locks the payment.
`app/reversals.py` is the worker. `claim_reversals` reads abandoned submissions without a
lock (`SweepRead`) and overwrites them in the commit that leases the next row (`Claim`,
`ClaimNothing`); what changed in between is overwritten too. `submit_claimed_reversal` is
`LeaseLost`, `SubmitImpossible`, `BeginSubmit` (the commit of "submitting", and the call)
and `FinishSubmit`. `Receive` and `Process` are Daraja: a request may arrive after its
caller gave up, be refused, executed or declined. `Outcomes` relates what the worker may
conclude to what Daraja did, and is where Daraja is trusted: an answer that says refused
means refused. Callbacks are matched by the conversation ids or, for status queries, by
receipt, as `receive_reversal_callback` does, and may come at any time, repeatedly, or never.

`Payback` tells the same story by what is true instead of what the rows say. `Stage` maps a
request that was sent to what Daraja did with it (`sent`, `returned`, or `lost` for ever), and
one that was not to its row (`absent`, `asked`, `approved`, `withdrawn`); `books` is the
payments' statuses. So leases, sweeps, retried polls, status queries and most callbacks are
stutters, and the abstract guards are stronger than the code's: `Ask` and `Send` require that
no other request of the payment is open, under way or executed, where the code looks at
statuses that may be wrong; `Book` requires an executed request, where the code has a
callback. That the code's weaker tests suffice is what the refinement says.

Separation of requester and approver, idempotency keys, bindings and evidence documents
concern columns that never change after a request exists, and are left out.

### How the modules around the payments correspond to the code

PostgreSQL runs these handlers at READ COMMITTED, most of them without locks. The common
shape is therefore a read action that takes a copy (`voiding`, `settling`, `update`,
`owner`, `job.saw`, `worker`) and a commit action that decides by the copy and writes over
the row as it is then. SQLAlchemy writes only the columns that differ from what it loaded;
`CommitVoid`, `CommitMember`, `CommitWrite` and `Wrote` say so. Row locks are explicit:
another writer of a locked row waits, that is, its action is disabled.

- *Invoices.* Payments of an invoice come from its public link (`BeginPay`/`CommitPay`, which
  hold the invoice's lock, `Unlocked`) and from `POST /payments/stk-push`, which stores the
  `invoice_id` it is given and looks at no invoice (`CreateByMerchant`). The void endpoint and
  `transition_and_record` take no lock of the invoice either; a payment that settles holds its
  own row (`Free`). `unguarded` is history: the payments a merchant requested or somebody
  retried, about whose invoice no handler asked before the customer was prompted.
- *Sessions.* A request in progress is a row of `request`. An UPDATE of PostgreSQL takes the
  rows its snapshot shows (`sees`), waits for locked ones, and re-checks their status when it
  commits. Nothing keeps logins out while a reset runs: without autoflush
  (`app/database.py:16`) the reset writes the user row only when it commits. Two resets of
  a user do not overlap, because each revokes the other pending reset tokens first, and the
  one that sees the token locked by the other waits for its commit. `survivor` and `overlap`
  are history: which sessions were issued by a request that overlapped a reset.
- *DashboardSessions.* `entry` is the map of promises in `RefreshSingleFlight`; a call
  follows a live entry of its token or leads a rotation. Answers may be lost (`Unheard`,
  `Respond`), a late answer may put an older token back in the cookie, and an entry expires
  (`EntryExpires`) whether or not its rotation has ended: its time counts from the start.
- *AccountTokens.* One module for password resets and email verification, whose handlers are
  alike; `Reissues` is the one difference. A confirmation is three steps: it locks its token
  (`BeginConfirm`), its UPDATE of the other pending tokens takes its snapshot (`RevokeOthers`),
  and it commits (`CommitConfirm`) once that UPDATE has got its locks. Two confirmations lock
  their tokens in opposite orders: the victim of the deadlock is a `GiveUp`. `together` and
  `missed` are history: which tokens were pending at once, and which of these were issued
  after the UPDATE that would have revoked them.
- *Team.* Only the unique indexes on emails and on pending invitations (`EmailTaken`, the
  guard of `CommitInvitation`) stand between two requests.
- *Onboarding.* The owner's requests read without locks; the platform administrator's hold the
  merchant row. A test awaits Daraja between its two actions. `Evidence` is the query for a
  successful verification payment created since the credential was last tested.
- *KeyRotation.* A ciphertext is what it holds, under which key, and the version column beside
  it, which may disagree. `Switch` restarts a process with the new key active, `JobReads` and
  `JobCommits` are the job, `DryRun` and `Retire` the last steps of
  `docs/runbooks/kms-rotation.md`.
- *EmailOutbox.* `Load` asks who owns the lease and not whether it lasts; `Commit` writes by
  primary key whatever the row is now. `Send` may be taken by the server with the answer lost.
- *TokenCache.* Coroutines of one event loop switch at awaits alone: a hit is a single step.
  `Forgo` is every way an `async with` block ends without a token. An answer takes at most
  `Timeout`, and `Timeout <= Margin` is assumed. The client's `timeout=10` is per read, so a
  server that dribbles its answer could take longer: the assumption is a little stronger than
  the code, and a margin of 30 seconds leaves ample room.

## 3. Runs

| Run | Instance | Question |
|---|---|---|
| `StkRetry` | 1 payment, 2 attempts, no workers; codes success, failed, timeout, unknown; overtaking and repeated ids | Are transitions legal, ledgered and flagged, and second prompts authorised, when submissions die, are abandoned, answer late and are retried? Refinement of `PaymentLifecycle`. |
| `StkReconcile` | `checks`: 1 payment, 1 attempt, 2 checks, 2 workers that may die, 1 manual session, all code classes but reused; `retries`: 1 payment, 2 attempts, 2 checks, 1 worker, repeated ids; `links`: 2 payments, 1 attempt each, codes success and reused | Does evidence hold, is every outcome announced, are receipts safe when checks race each other and callbacks? Can a status answer about a replaced attempt be applied? Can callbacks and links spend one receipt twice? |
| `StkLive` | 1 payment, 1 attempt, 2 checks, one reliable worker and one not, 1 manual session; fair | Is pending left, and does waiting for a result end? |
| `Webhooks` | 2 deliveries of 1 endpoint, 2 attempts, pause after 2, one reliable worker and one not; fair | Is the history complete, are pauses and verdicts earned, does every event settle? |
| `Reversals` | 2 requests for 1 payment, 1 status query, one reliable worker and one not; fair | Is each request sent once, the money returned once, the books right, and nothing stranded? Refinement of `Payback`. |
| `BackOffice` | the nine components around the payments, one at a time | Each of the properties in the second half of section 4. |
| `CrashedRetry`, `RetryNotReconciled`, `ConflictFlagLost`, `AnswerLost` | 1 payment, 1 or 2 attempts | Findings 1 to 4 of section 6: TLC's counterexample is the run's result. |
| `PaidVoided`, `LastOwner` | 1 invoice, 1 payment; 2 owners, 2 requests | Findings 5 and 6. |

`StkRetry` (1.9 million states), `StkReconcile` (2.3 million) and `BackOffice` (0.6 million)
take about two minutes each with two workers; the others take seconds. `StkReconcile` and
`BackOffice` combine several sizes or components in one run by a variable `focus` that is
chosen in the initial state and never changes: the state space is the sum of the parts, not
their product.

### Bounds, and why they are enough

- *Attempts*: two, because every hazard of a retry is between an attempt and its successor;
  a third meets the second as the second met the first. The checks (`MaxChecks`) are one
  where they are only a step of another handler and two where exhaustion and take-over
  matter: the first check may be overtaken by the second, and the second is the last.
- *Ledger*: `MaxLedger` bounds only how long a failure may be reported once more in other
  words, because each such report adds a row that says "failed -> failed" and the code sets
  no limit. A first attempt that fails has 4 rows, so 5 lets a failure be repeated after it
  was processed, and 6 (`StkReconcile`) also once a retry of the payment is pending.
- *Payments*: one, but two in the focus `links`. Rows of different payments touch only
  through receipts and the unique index on them.
- *Workers*: two, so that a lease can be lost to somebody; one may die at any step.
- *Webhooks*: two attempts and a pause after two failures let a delivery run out of attempts
  and an endpoint be paused by the failures of two deliveries. `Mishaps` is the only
  artificial bound: up to which attempt of a delivery leases are overrun and workers die. It
  is 2 for one delivery and 0 for the other; without it a dead worker can begin attempts
  without end and the state space is infinite. `Nat` counters need no other bound.
- *Reversals*: two requests suffice for "one after the other", as only one per payment may
  be active. Three requests for one payment (821 000 states) satisfy the same safety properties;
  the run keeps two, for which the liveness properties are quick as well. One query instead
  of ten distinguishes "may query", "has queried" and "used up".
- *BackOffice*: three rows (payments of an invoice, sessions, tokens) are a row, its
  successor and a stranger; three handlers, processes, workers and coroutines are two that
  race and a third that comes late; two requests, credentials, invitations and owners are the
  pair that every hazard of these components needs. Rows are never deleted, so a component
  stops when they are used up. `MaxResets` is 1 (0 for the dashboard, whose hazards are
  between refreshes), `MaxSecrets` 4 (a creation and three replacements: before, across and
  after the job), `MaxAttempts` 2 (one retry, then the last). `TokenCache` counts 10 s as
  one unit and runs for 12: the margin is 3, answers take up to 2, and the lifetimes 2, 5
  and 9 are below the margin, between, and above the cap, 7, which is small enough for a
  token to be cached, used, to expire and to be fetched again.
- *Symmetry*: rows, requests and the two pairs of `BackOffice` are interchangeable model
  values, permuted alike in all components; that run has only invariants. Handlers, workers
  and coroutines are strings and are not permuted.
- Nothing else is bounded. Callbacks, queries and leases need no counter: a message is
  possible whenever what it reports is true. A payment's check counter is capped by the
  code itself.

`CHECK_DEADLOCK FALSE` is in every configuration because the system may rest: all payments
settled, all attempts used, nothing queued. That nothing *stuck* rests is what the liveness
properties say.

`Overtaking` says whether a submission may last longer than `STK_SUBMITTING_TIMEOUT_SECONDS`
(120 s). It may, when a process stalls between commits, so the passing safety runs allow it.
The findings set it to FALSE so that their counterexamples do not depend on it.
`ProviderRepeatsIds` lets Daraja answer with a CheckoutRequestID that is already used, a case
for which the code has a branch. The branch queues no event (`app/routers/payments.py:270`),
so `OutcomeIsAnnounced` excepts the payment that is unknown while an attempt has a repeated
id, and nothing else. The liveness run and the findings are checked without it.

## 4. Properties, by what could go wrong

| Hazard | Property |
|---|---|
| a retry while the first prompt may still be paid | `SecondPromptNeedsOverride` |
| a stale status answer, a late submission or a second callback replaces evidence | `ReceiptEvidenceWins`, `SuccessMeansPaid`, `SuccessIsFinal` |
| one receipt settles two payments | `ReceiptMatchesCallback` |
| a change that the ledger or the merchant never hears of | `ChangesAreLedgered`, `OutcomeIsAnnounced` |
| a payment nobody looks at again | `PendingResolves`, `SentResolves`, `UnknownIsFlagged` |
| a success without a receipt or without review | `SuccessIsEvidenced` |
| two workers on one webhook delivery; a verdict from an old copy | `AttemptHistory`, `VerdictIsEarned` |
| counters raised from stale copies | `PauseIsEarned` |
| a delivery or a reversal left behind by a dead worker | `DeliverySettles`, `ApprovedResolves` |
| a reversal sent twice, or two reversals of one payment | `SubmittedOnce`, `NoDoubleReversal`, `ImplementsPayback` |
| a cancellation that races the submission | `CancellationHolds` |
| books that disagree with the provider | `ReversedMeansExecuted`, `SucceededMeansReversed` |
| a void, a settlement and a reopening that each write the invoice from an old copy | `PaidIsBacked` |
| a customer who is asked for the same money twice through the public link | `LinkAsksOnce`, `SuccessClosesInvoice` |
| two refreshes of one token; a refresh or a login that slips through a reset | `OneHeadPerFamily`, `ResetEndsSessions` |
| a dashboard whose parallel calls end its own session | `NoSelfInflictedReuse` |
| several mailed tokens pending at once, confirmed in a race or issued meanwhile | `OneTokenOfAllPending` |
| an invitation accepted and revoked, or two of one address accepted | `InvitationsMatchMembers` |
| a credential replaced while it is tested, paid with or relied on | `ActiveIsEarned` |
| secrets under a retired key; the job writing over a new secret | `RotationLosesNothing` |
| attempts counted late, leases overrun, workers that die after sending | `DeadLettersAreExhausted`, `OneMailUnlessDoubtful` |
| a lifetime counted from the answer; a stampede of fetches | `CacheKeepsItsPromise` |

Where the code cannot keep a promise in every interleaving, the property names the exact
exception (`unguarded`, `survivor`, `missed`, `lapsed`, `crossed`, `replaced`, `raced`,
`doubtful`): what lies outside of it is guaranteed, and what lies inside is listed in
section 6.

Each passing property is also checked against a mutant of the definitions it guards (an
operator beside the original, marked "mutant" in its comment): a dropped guard, a counter off
by one, a stale copy taken as fresh. TLC then finds a counterexample.

## 5. Fairness

Safety runs assume none. The liveness runs assume only what the code's scheduling gives:

- *Leases run out* (weak fairness on `ExpireLease`): a lease is a time stamp compared with
  the clock.
- *Calls end* (weak fairness on `Respond`, `Submit`, `Deliver`): the HTTP client has
  timeouts; a process that does not die goes on to its next commit. A crash disables the step,
  so weak fairness says nothing about a dead process.
- *Maintenance and workers poll* (`Abandon`, and strong fairness on the claims of a
  `Reliable` worker): `run_forever` calls `run_once` for ever and takes the oldest rows
  first, so a row that keeps becoming due is eventually taken, even if others hold the lease
  in between. One such worker is required; the other may die at any moment.
- *A worker begins right after it claims* (strong fairness on `BeginCheck`, `FinishCheck`,
  `Load`, `BeginAttempt`, `BeginSubmit`): a lease lasts 60 seconds. A worker may lose some
  leases, and does in these runs, but not every lease it takes.
- Nothing is assumed of merchants, customers, operators, callbacks or Daraja's results.

## 6. Findings

Six runs exhibit behaviour that the repository's documents, or the code's own messages, deny.
`PROJECT.json` quotes the sentences.

1. `CrashedRetry`: a retry whose process dies during the call stays pending for ever.
   Maintenance looks for attempts in state `submitting` with a start time; `retry_payment`
   stores its attempt as `created` without one.
2. `RetryNotReconciled`: a retry resets the CheckoutRequestID and the schedule but not the
   number of checks. A payment whose checks are used up is never claimed again.
3. `ConflictFlagLost`: the flag that a conflicting success callback raises is cleared by the
   failure callback of a later attempt.
4. `AnswerLost`: a late failure callback of the first attempt moves the payment out of
   pending while the second is being submitted; the ledger trigger then refuses the commit
   that holds Daraja's answer.
5. `PaidVoided`: the void endpoint, which refuses paid invoices, reads without a lock; a
   payment that settles the invoice in between is voided with it.
6. `LastOwner`: two requests that each demote or deactivate one of the last two owners both
   count two, and leave the organization without one.

Besides, reading and modelling met behaviours that a maintainer may want to know, and that
no run is spent on:

- `app/admin.py:170` records a failure for every linked result code other than success and
  1037, also for codes that `docs/architecture.md:251` calls unclassified.
- An overrun webhook worker can reschedule a delivery that another delivered
  (`app/webhooks.py:257`), and a worker can turn an archived endpoint into a paused one
  (`app/webhooks.py:242`).
- The reversal sweep can write unknown over a failed reversal, which brings it back beside
  its successor (`app/reversals.py:39`). `NoDoubleReversal` shows that nobody is paid twice.
- `update_merchant` and the submission for approval write over a suspension decided in
  between; `ActiveIsEarned` shows that an unapproved production merchant still does not
  become active.
- A credential test can pass with a token from the cache, without asking Daraja. Any successful
  verification payment counts as evidence (`app/routers/merchants.py:203-212`), also one that a
  status query made successful, where `docs/architecture.md:189` speaks of a valid success
  callback. `ActiveIsEarned` states what the code asks for.
- `app/daraja.py:97-98` means never to cache a token that is about to expire; the floor of
  one second (line 99) caches it all the same, for a second.
- `deliver_claimed_email` does not check that its lease still lasts.

What lies inside the exceptions of section 4:

- `unguarded`: `POST /payments/stk-push` stores an `invoice_id` without a look at the invoice
  (`app/routers/payments.py:367`), and `retry_payment` looks at none either. So an invoice that
  is paid, void or being paid is prompted for again, and two payments of it can succeed. When
  one of the two is then reversed, the invoice can be open for payment again beside the other.
- `survivor`: a refresh or a login that overlaps a password reset can leave an active session
  of the old password (`app/auth.py:495-507`). A refresh can slip through a logout likewise.
- `missed`: a token that is issued after the UPDATE with which a confirmation revokes the
  others (`app/auth.py:298-302`, `490-494`), and before its commit, stays pending. It was
  pending together with the confirmed one if its request began before that one existed, and
  both are then used.
- `lapsed`: the dashboard's shared rotation lives 5 seconds from its *start*
  (`refresh-singleflight.ts:15-21`, `docs/architecture.md:93`): a slower one is not shared,
  and a second call then presents a rotated token.
- `crossed`: an invitation that is accepted and revoked by overlapping requests
  (`app/team.py:168-196`, `251-288`) ends as what the later commit writes; the member stays
  either way.
- `replaced`: a credential saved while a payment or an activation that had read the old one
  was under way, or whose save left the merchant's status alone because another request had
  moved it, can serve an active merchant without a payment of its own
  (`app/routers/credentials.py:227`).
- `raced`: the rotation job writes its copy of a secret over one that was replaced while it
  ran (`app/rotate_encryption.py:79`).
- `doubtful`: a mail whose worker overran its lease, died after sending or lost the server's
  answer is sent again. The count of attempts is committed after sending
  (`app/email_delivery.py:131`), so workers that always die there send it without limit.

## 7. Proofs

All theorems hold for every value of the constants under the named assumptions of each
module (bounds are naturals, sessions are disjoint, `None` is no row). They are safety
theorems; the arguments are inductive, and each inductive invariant was checked by TLC
before it was proved. Together they cover every safety invariant and action property of the
passing runs.

### The payment core

**Rows and refinement** (`StkPaymentsProofs`). `IInv` is `TypeOK`, `SessionsNamePayments` (a
reconciliation session that is not idle names a payment, which types its writes) and
`RowsSound`, the conjunction of what must hold of each row: unknown is flagged, a success is
evidenced, a receipt sits on a success or a reversed payment, and a row with a receipt has
source `callback`. The safety properties alone are not inductive: "a receipt is never replaced"
needs to know that a row with a receipt has source `callback` and is in no state a handler
accepts. The proof first shows that every step of `Next` is an `Effect` (one payment gets one
new sound row by a legal `RowStep`, with its ledger row), leaves payments alone, or creates a
payment (`NextEffect`, one case per action); all properties then follow from `Effect`,
not from the thirty actions. Proved: `TypeCorrect`, `UnknownIsAlwaysFlagged`,
`SuccessIsAlwaysEvidenced`, `ReceiptEvidenceAlwaysWins`, `SuccessStaysFinal`, and
`Refinement`: the core implements `PaymentLifecycle`.

**Prompts and ledger** (`StkPromptProofs`). `LedgerIsComplete` follows
from `Effect` and from `AbsentHasNoLedger`. `NoSecondPromptUnasked` needs `PromptInv`: unless
an override is on the ledger, at most one attempt of a payment is alive, that is, being sent
or possibly shown (`OneLiveAttempt`), and a payment whose submission is recorded as rejected
has none (`RejectedIsDead`). The ordinary retry starts from such payments alone.

**Evidence and announcements** (`StkEvidenceProofs`). A callback does not look at other
payments: it finds no processed row of its attempt and relies on that. `EvidenceInv` says why
it may. `CreditedRows`: a row that is filed as processed names the payment that holds its
receipt. `ReceiptsFiled`: each receipt on a payment has such a row. With `ReceiptsSpentOnce`
the absence of a processed row therefore means that nobody holds the receipt. `FiledIsTrue`
and `PaymentsEarned` carry the customer's payment: from the provider to the rows an operator
may link, and from an attempt or a receipt to the success. Every step is shown to be plain
(no receipt, no unearned success) or the one step `Credit` that spends a receipt
(`EveryStep`). Each step also says whom it leaves untold (`Told`), and a repeated id is
forgotten only by a retry (`RepeatedStays`), so the exception of `OutcomeIsAnnounced` needs no
assumption on Daraja. Proved: `SuccessIsAlwaysPaid`, `ReceiptsMatchCallbacks`,
`OutcomeIsAlwaysAnnounced`.
`SizesAreInstances`: the run `StkReconcile` takes steps of `StkPayments` alone.

### Webhooks and reversals

**WebhookDelivery** (`WebhookDeliveryProofs`). `WorkInv` says what a worker's copies still
tell: its reading of the attempt number is never ahead of the history (so the unique number
refuses the second of two workers), the delivery it holds counts the attempt it makes, and
the failures in its copy of the endpoint are covered by attempts that have failed.
`CountInv` says the last of the endpoint row itself. Attempt rows are only added and then
given their outcome once, so coverage is never lost, however the counter is overwritten.
Steps are of three kinds: they leave the attempt rows alone (`Quiet`), begin an attempt, or
end one. Proved: `TypeCorrect`, `HistoryIsComplete`, `PausesAreEarned`, `VerdictsAreEarned`.

**Reversals** (`ReversalsProofs`). `IInv` adds to the types and to the two properties about
payments three facts. `SendInv`: what has been sent is past "approved", and what a worker has
swept, what may be queried, and what carries Daraja's ids was sent before, so neither sweeps
nor callbacks ever touch a request that may still be sent.
`FlightInv`: what Daraja may still execute is not settled as failed or cancelled. `RivalInv`:
while a request of a payment waits, no other request of that payment waits, and none may be
executed unless the payment is already reversed; two are never in flight at once. The
unlocked sweep is the reason why `RivalInv` speaks of the provider and not of the statuses: a
failed reversal may become unknown beside its successor, but never alive at Daraja. The proof
abstracts each step to the `Move` it makes for each reversal (`StepMoves`, one case per
action) and shows that the moves keep each part. Proved: `TypeCorrect`, `NeverSentTwice`,
`NeverReversedTwice`, `ReversalIsReal`, `SuccessReverses`, `CancellationIsFinal`, and
`ReversalsImplementPayback`. For the refinement, `StageMoves` gives the stages each move leads
between, and `OneMoves` shows that a step changes the stage of one request at most, and none
when it changes the books: what a sweep overwrites was sent, so its stage is Daraja's to
change. `RequestedAlone` and `SentAlone` turn the code's tests of statuses into the abstract
guards, by `FlightInv` and `RivalInv`.

### The components around the payments

**Invoices** (`InvoicesProofs`). Rows are written by an older copy, so `InvoiceIInv` says what
a copy still tells. `PaymentRowInv`: the payment's lock keeps it, between the read and the
commit of a settlement, in the state it was read in. `BackInv`: the payment an invoice names is
its own and successful, and a reversal of this payment has read so, which is why a reopening is
never missed. `InvoiceLockInv`: the invoice's lock lets one request of the link at a time
through, and what that request read still holds when it commits, but for unguarded payments.
`SettleInv`: when a settlement that found the invoice paid commits, the invoice is still closed
or the exception has happened (`ReversedBeside`). An exception, once true, stays so
(`NeverForgotten`), and the reversal of a payment beside one that stands is the only way to it
(`Beside`). Proved: `PaidInvoicesAreBacked`, `OnePaymentAtATime`, `SuccessShutsTheLink`.

**Sessions** (`AuthProofs`). `FamilyInv`: a family is named after a session that exists,
so a login cannot join one. `SessionLockInv`: the session a refresh will replace stays active
until then and is its own, which gives one head per family (`FamiliesHaveOneHead`).
`ResetInv`: while a reset runs every request that issues sessions, logins included, knows that
it overlaps, and an active session the reset has not listed was issued by such a request.
`LoginInv`: a login with a verified but replaced password overlapped the reset. The last two
give `ResetsEndSessions`.

**DashboardSessions** (`AuthProofs`). `NoReuseByConcurrency` rests on `BrowserInv`, on top of
the invariant of `Sessions`. `SignedIn` and `TokensAreMine`: whatever token a cookie, a call or
an entry holds is of a family the browser signed in to. `RequestsApart`: the server's requests
that touch these families are those of the browser's leaders; the user's other clients work
on other families. `OneFlight`: until its entry lapses, a token has one leader and the entry
is that leader's. `OutcomeIsKept`: a rotated token of the browser has its outcome in its
entry, or the entry has lapsed. So nobody leads a rotation of a rotated token without a lapse.

**AccountTokens** (`AuthProofs`). `TokenLockInv`: a token being confirmed is still pending
and locked by nobody else, from the lock to the commit. `TogetherInv`: when a token has been
used, none of those that were pending with it can be used any more, but those its UPDATE could
not see (`missed`). Proved: `OneTokenIsUsed`.

**Team** (`BackOfficeProofs`). `MembersNameInvitations`: a member keeps the invitation it came
by, of its own address, which the unique index on addresses lets one acceptance commit.
`CrossingsRecorded`: a revocation that will find its invitation accepted has overlapped the
acceptance, and is recorded as such when the second of the two reads. `UpdatesFit` and
`InvitationsNameEmails` type the requests in progress. Proved: `InvitationsAlwaysMatch`.

**Onboarding** (`BackOfficeProofs`). `OneActive`: at most one credential is active, so what a
request read of the active credential stays true or the credential is in `replaced`
(`RequestsRead`). `PaidWithIt`: the verification payments created since the active credential
was tested were made with it. `AbsentUntouched`: a credential not yet saved is known to
nobody. Every step but the saving of a credential only `Shrinks` the set of active credentials.
Proved: `ActiveIsAlwaysEarned`.

**KeyRotation** (`BackOfficeProofs`). `CertifiedInv`: from the dry run on, every process writes
with the new key and every stored bundle is under it, so nothing can bring the old key back.
`ToldInv`: a bundle holds the secret its owner was told, and so does the copy the job will
rewrite, unless the owner wrote while the job ran (`raced`). Proved: `NothingIsLost`.

**EmailOutbox** (`BackOfficeProofs`). `WorkerInv` and `MailRowInv`: the attempts a row or a
worker counts are covered by deliveries that failed, also when an outcome is written over
another, since each worker counts from what it loaded. `SureInv`: while nobody has reason to
doubt a mail, at most one worker is at work on it, under its lease, and an acceptance is in
its hands or recorded. Proved: `NoEarlyDeadLetter`, `NoNeedlessSecondMail`.

**TokenCache** (`BackOfficeProofs`). `TransitInv`: no answer is later than the timeout.
`CachedInv`: a token outlives its time in the cache, because the timeout is within the
margin. `CacheLockInv`: the lock's holder missed, and only it writes the cache. Proved:
`TokensAreAlive`.

**The composition** (`BackOfficeProofs`). `ComponentsAlone`: the specification of
`MCBackOffice` implies that of each component, which gets its own steps or stutters. Sessions
move by themselves in one focus and under the dashboard in another, so `SharedIInv` joins
their invariants. `PromisesAreKept` states the thirteen promises of the components of the
composition, and `BackOfficeTypeCorrect` the types.

### Model-checked only

The liveness properties `PendingResolves`, `SentResolves`, `DeliverySettles` and
`ApprovedResolves` depend on fairness and on which actions are enabled, which the prover does
not treat. The six runs that end in a counterexample are TLC's as well.

## 8. Not modelled

- *One tenant, one user*: row-level security and scopes compare one organization id and keep
  no state; sessions and mailed tokens of different users do not meet.
- *Data*: amounts, phone numbers, texts, signatures, line items, templates. Where a
  comparison of data decides, its outcome is chosen freely. A ciphertext is reduced to its
  secret, its key and its version column.
- *Clocks*: leases, cutoffs and schedules are steps that may happen at any time they could.
  Only `TokenCache` counts time, because its promise is about time.
- *Malformed, rejected and duplicate callbacks* only store a row that no later step reads.
- *MFA, terms, address verification at submission*: each only refuses a request and adds no
  interleaving beyond the one its request has already; they are taken as passed.
- *API keys, catalogue*: single statements on single rows.
- *Expiry of invoices*: no code writes the statuses `draft` and `expired`, and `due_at` is only
  shown.
- *The pages of the dashboard* show what the API returns.
- *Rate limits, metrics, heartbeats, settings, schema history, deployment*: operational. The
  scheduling of the worker loop is the fairness of section 5.

## 9. Plan

Every safety invariant and action property of the passing runs is proved. What is left, in
order of what a mistake would cost:

1. *An abstract specification of `WebhookDelivery`*: each event is delivered at least once or
   given up with its history, and the leases and copies refine it.
2. *Liveness of the email outbox*: under the worker's polling every queued mail is sent or
   given up, as for webhooks.
3. *Liveness of a reversal beyond its submission*: which status queries an operator would have
   to make, and when, for a payment not to be blocked by an unknown reversal.

To run everything by hand: `tlc -config X.cfg M` for each row of "runs" in `PROJECT.json`,
and `tlapm M.tla` for each module whose name ends in `Proofs`.
