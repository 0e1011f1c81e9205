# Payment recovery: a TLA+ verification project

The program receives payment webhooks, opens a recovery case for a payment that
failed, asks an AI provider what to do, and charges the payment again through a
payment gateway, at most `max_attempts` times, while administrators may stop or
retry a case. Several worker processes share one PostgreSQL database and may be
killed at any moment. This directory models that engine in TLA+, checks it with
TLC on small instances and proves the most important results with TLAPS for
every instance.

- [1. The system](#1-the-system)
- [2. The modules](#2-the-modules)
- [3. What the runs check](#3-what-the-runs-check)
- [4. What is proved](#4-what-is-proved)
- [5. What disagrees with the documentation](#5-what-disagrees-with-the-documentation)
- [6. Abstractions and what is not modelled](#6-abstractions-and-what-is-not-modelled)
- [7. Plan](#7-plan)

Paths below are relative to `src/app/`.

## 1. The system

| Component | Source | State | Operations |
|---|---|---|---|
| Webhook ingestion | `domain/payments/service.py`, `persistence/repositories/webhook_repo.py`, `api/routes/webhooks.py` | none of its own; writes payments, customers, cases, jobs, idempotency records | `process_webhook` |
| Recovery worker | `workers/executor/` | in memory: worker id, job in hand, attempt, gateway result | `process_next_job` with its two job types, `_finalize_*` |
| Job claiming and leases | `persistence/repositories/job_repo.py`, `config/settings.py` | `status`, `locked_by`, `locked_at` of a job | `claim_job`, expiry of a lease, `safe_update_status` (tests only) |
| Payment gateway | `integrations/payment_gateway/` | results by idempotency key | `charge`, `verify_payment_status` |
| Administrative operations | `domain/operations/service.py`, `api/routes/admin.py` | none of its own | stop, retry |
| AI decision engine | `ai/` | none | `decide`, `_extract_json` |
| Database | `persistence/models/`, `persistence/database.py` | the tables, one partial unique index, two unique constraints | transactions, row locks |
| State machine | `domain/recovery/` | none | `validate_transition` (tests only) |
| Audit, correlation ids | `domain/observability/`, `utils/context.py`, `api/middleware/` | audit rows, a context variable of each process, `payload` of a job | `create_audit_event`, restoring the id at a claim |
| Analytics | `domain/operations/service.py` | none | `get_analytics`: two aggregate queries, merged |
| Migrations | `../migrations/` | the schema, `alembic_version` | `upgrade`, `downgrade` of four revisions |

**How they interact.** Nothing calls anything: webhooks, administrators and
workers meet in the tables. A webhook or an administrator does its work in one
transaction. A worker handles a job in *two* transactions with a network call
between them: the first claims the job (and, for a charge, inserts the attempt),
the second reads everything again and records the result if `locked_by` still is
the worker's id. Between the two no lock is held, so a success webhook, a stop, a
retry, or a second worker whose claim found the lease expired may come in.

**What is hard.** A charge may time out after it went through; a worker may die
between charging and recording; a worker that lost its lease may come back; the
recording itself may fail; webhooks arrive twice, late and out of order; a case
that was closed may be opened again, and a payment may get a second case whose
attempts reuse the first one's idempotency keys. `PROJECT.json` lists each of
these at its line under `hazards`.

**What makes each component correct.**

- Worker and gateway: one successful charge per payment; a charge never without
  its committed attempt row; what is recorded is what happened; a charge that
  went through is found again; the attempt budget.
- Leases: who passes the ownership check has had its job to itself since its claim;
  as long as leases outlast the work, no stale worker changes a finished job.
- Webhooks: a payment is SUCCEEDED only for a reason, stays so, and a handled
  success is never lost.
- Administrators: stop and retry never leave two live jobs, or an open case
  with none.
- State machine: attempts move along the documented map.
- Leases against the clock: no lease runs out under a live worker, if the calls and
  waits of one claim really fit into it; every queued job is processed, unless the
  database keeps passing it over or it is tried in vain for ever.
- Rows and locks: every transaction behaves as one step, victims of deadlocks
  included; an event that is answered 200 is recorded.
- Audit: rows and the state they tell of are committed together, under the id of
  the request that opened the case.
- Analytics: each half of a report is right about the moment of its own query.
  Decisions: never a fragment of an answer. Migrations: the version row tells the schema.

## 2. The modules

| Module | Models |
|---|---|
| `RecoveryStates` | the enumerations, and `ATTEMPT_TRANSITIONS` / `RECOVERY_CASE_TRANSITIONS` as data |
| `RecoveryDatabase` | the rows, keys and constraints of the tables; shared by the next four |
| `WebhookIngestion` | `process_webhook`: one action per outcome that changes a table |
| `AdminOperations` | `stop_recovery_case`, `force_retry_case` |
| `PaymentGateway` | the idempotent store: lookup and charge |
| `RecoveryWorker` | the worker: claim, network call, second transaction, crash, lease expiry |
| `RecoveryEngine` | the composition, `Spec`, and the safety properties |
| `RecoveryProgress` | the loop of the workers around it, polls that raise included, its fairness, and the liveness properties |
| `ChargeLedger` | abstract: what the engine promises about the outcomes of a payment's attempts |
| `RecoveryInvariant` | the inductive invariant `IInv`, part by part |
| `RecoveryEngineProofs` | types, references between rows, write-ahead, budget, finality of success; `IInv` is inductive, at most one charge, refinement of `ChargeLedger`; who may change a job, leases, attempts and the jobs that settle them; recovered cases are paid, no case is stranded, how RECOVERED is lost; a SUCCEEDED payment is backed, a handled success shows |
| `RowLocks` | PostgreSQL row locks: what a transaction holds and waits for, circles of waiting |
| `RequestStatements` | `process_webhook`, stop and retry, statement by statement |
| `WorkerStatements` | claim and second transaction, statement by statement |
| `StatementEngine` | their composition, compared with `RecoveryEngine` |
| `StatementInvariant` | what its transactions know at each statement: `StatementInv`, `FreshInv`, `OrderInv` |
| `StatementProofs` | `StatementInv` is inductive; types; acknowledged events are recorded; what survives when leases run out |
| `AtomicityProofs` | transactions are atomic while leases outlast the work, so that the engine's invariants hold of the statements; ordered locks never deadlock |
| `LeaseTiming` | claims, calls and leases against a clock |
| `LeaseTimingProofs` | `LeaseOutlastsWork` and `TimingInvariant` for all durations that fit |
| `AuditTrail` | the audit rows and the correlation id of every step of `RecoveryEngine` |
| `AuditProofs` | the three properties of `AuditTrail`: ids, restored traces, rows that tell the status |
| `RecoveryAnalytics` | the two queries of the analytics and what is committed between them |
| `AnalyticsProofs` | `HalvesAreRight`: what folds add up to, and the queries against the reference |
| `DecisionExtraction` | `_extract_json` as a function on sequences of tokens |
| `ExtractionProofs` | what `re.findall` finds, and the two properties of `DecisionExtraction` |
| `Migrations` | the statements of the four revisions, and who runs them |
| `MigrationProofs` | `MigrationInv` and the three properties of `Migrations` |
| `MC...` | instances of these for TLC: events, symmetry, constraints |

Dependencies:

    RecoveryStates <- RecoveryDatabase <- WebhookIngestion, AdminOperations,
                                          PaymentGateway <- RecoveryWorker
    all of these <- RecoveryEngine <- RecoveryInvariant <- MCRecoveryEngine
                                                        <- RecoveryEngineProofs
    RecoveryEngine <- RecoveryProgress <- MCRecoveryProgress
    RecoveryEngine <- RowLocks <- RequestStatements, WorkerStatements <- StatementEngine
    StatementEngine, RecoveryInvariant <- StatementInvariant
    StatementInvariant, RecoveryEngineProofs <- StatementProofs <- AtomicityProofs
    RecoveryEngine <- AuditTrail; AuditTrail, RecoveryEngineProofs <- AuditProofs
    LeaseTiming <- LeaseTimingProofs
    Migrations <- MigrationProofs
    RecoveryAnalytics <- AnalyticsProofs
    DecisionExtraction <- ExtractionProofs

### State

| Variable | Code |
|---|---|
| `payments[p]` | row of `payments` by `external_id`: status, and `terms` = (amount, currency, customer) |
| `cases[c]` | row of `recovery_cases`: status, payment |
| `jobs[j]` | row of `recovery_jobs`: `count` = `attempt_count`, `owner` = `locked_by`, `attempt` = the number of the attempt `attempt_id` names (0: null), `expired` = `locked_at` is older than the lease timeout |
| `attempts[c][n]` | status of the attempt with `attempt_number` n of case c |
| `handled` | event ids in `idempotency_records` |
| `store[p][n]` | the gateway's result under the key `{external_id}_attempt_{n}` |
| `worker[w]` | what worker w has in memory: where it is (`pc`), its job, attempt number, result |
| `crashes` | how many workers have been killed (a bound) |

A row that was never inserted has status `ABSENT`; ids are never reused.

### Actions

| Action | Code |
|---|---|
| `AcknowledgeTerminal`, `RecordRepeatedFailure`, `OpenCase`, `RecordSuccess` | the four ways `process_webhook` commits an effect |
| `RejectForPaid`, `CloseCase`, `ReopenCase` | the paid branch of both admin operations; stop; retry |
| `ClaimForPaid`, `BeginEvaluation`, `StartAttempt`, `ResumeAttempt` | `claim_job` and the rest of the first transaction |
| `VerifyPayment`, `Charge` | the gateway calls |
| `EvaluationFails`, `DecisionTooLate`, `DecideCharge`, `DecideDelay`, `DecideAbort` | `_finalize_evaluate_error`, `_finalize_evaluate_decision` |
| `FinalizeSuccess`, `FinalizeFailure`, `FinalizeExhausted`, `FinalizeAmbiguous` | `_finalize_job`, `_finalize_ambiguous` |
| `FinalizeRaises` | the second transaction rolls back: the lease is lost, or (`CommitsMayAbort`) it cannot commit. After `charge` this happens inside its `try`, whose handler finalizes once more, as a failure (`refinalizing`); elsewhere the exception reaches the loop |
| `ClaimRaises`, `Raises`, `WakesUp` (`RecoveryProgress`) | a claim that meets `uq_recovery_attempt_number` and is rolled back; the exception handler of the loop in `main.py`, and the end of its sleep |
| `Crash`, `LeaseExpires` | environment |

`FinalizeExhausted` has two outcomes. The case becomes STOPPED; or it stays RECOVERED,
because SQLAlchemy sends no UPDATE for a case that was STOPPED when the transaction
loaded it, although a refused request has set it RECOVERED since
(`execution_service.py:253`, `operations/service.py:33-39` and `80-85`). The model
allows the second outcome for every RECOVERED case.

**Statement by statement** (`RowLocks`, `RequestStatements`,
`WorkerStatements`). `tx[t]` is the open transaction of worker or request t: the
operation, the statement that comes next (`at`), the locks it still waits for
(`want`) and holds (`held`, released when it ends), and what it has read that
later statements use (`found`, `answer`, and the lock mode `none` for a row that
was read and needs no change). `acked` is the events answered 200. `Acquire` takes
a lock once no conflicting one is held; a transaction in a circle of waiting may be
aborted (`RequestAborts`, `WorkerAborts`). What SQLAlchemy's identity map does is
part of this: a row loaded before its lock is taken keeps the values it had, and
only columns whose value changes are sent.

**Clock** (`LeaseTiming`). `Tick` lets one unit pass, for all ages at once, unless a
call or a wait has reached its limit: then something must happen first. Everything
else takes no time. The limits `AiLimit`, `GatewayLimit` and `RowWait` are how long
things really take at most, and constants of the environment: no setting bounds them.
A claim may always be rolled back (`ClaimRaises`), and the id of a job that is over
(`DONE`) is used again, so that chains of jobs are not cut off.

**Analytics.** `Float`, `FloatMinus` and `FloatDivide` are parameters. The database adds
decimals up exactly; Python turns each sum into a float and goes on with rounded
arithmetic. The run uses a coarse rounding, the proofs any.

**Audit** (`AuditTrail`). Each action is the conjunction of an action of
`RecoveryEngine` with the rows it writes (`Write`), the id it restores (`Restore`)
and the id it gives to a follow-up job (`Carry`). A claim that is rolled back is a
stuttering step of the engine, but not here: it has set the context variable.

**Migrations.** A schema is a set of objects. A command is a transaction that walks
from one revision to the next (`Script`, `Revision`); `NextStatement` is what it does
next, ending each revision with moving the row of `alembic_version`. `Execute` is one
statement, seen by its own transaction only, once no other one holds a lock it needs;
`Refuse` is a statement PostgreSQL or Alembic answers with an error, `Commit` and `Die`
end the transaction of `env.py`.

In `RecoveryEngine`, requests that are refused (400, 404, 409 for live jobs), duplicates,
and claims that are rolled back change no modelled table and are stuttering steps. In
`RecoveryProgress` a claim that is rolled back is a step of its worker's loop, which
sleeps after it. The AI's answer is a free choice between its outcomes.

## 3. What the runs check

Ten runs pass; `double_charge` and `late_worker` are expected to fail (section 5).

| Run | Instance | Shows |
|---|---|---|
| `interleavings` | 1 payment, 2 cases, 4 jobs, 2 workers, 2 attempts, 2 failure events and a success; 531 492 states | `AtMostOneCharge`, `LedgerAgrees`, `LedgerImplemented` (refinement of `ChargeLedger`), `OneLiveJobPerCase`, `LeaseIsExclusive`, `ClosedCaseStaysQuiet`, `RecoveredLostToLastChargeOnly`, `TypeOK`, and the inductive invariant `IInv` |
| `crashes` | 1 worker, killed once at most, 2 cases, 5 jobs, 2 attempts, 6 events (other terms, missing reason, unsupported type, a reused event id), commits may abort; 322 454 states | `WriteAhead`, `NoStrandedCase`, `RetryBudget`, `OpenAttemptHasJob`, `AttemptsFollowMap` (the fifth job lets a retry reach an attempt number that is taken), `PaidIsBacked`, `SuccessTakesEffect`, `PaymentSuccessIsFinal` |
| `progress` | 2 payments, a case each, 6 jobs, 2 workers, 1 attempt, 1 crash, fairness; begins with one charge whose number is taken and one new case; 33 240 states | Unless polls pass a job over for ever: after a success the payment's jobs run out (`PaidDrains`), a charge whose answer was lost is found or its job cancelled (`ChargeIsRecordedOrCancelled`), a queued charge is claimed unless its number is taken (`FreshChargeIsClaimed`) |
| `statements` | 1 case, 2 jobs, 1 worker, 2 requests, 1 crash, leases outlast the work; 464 154 states | `TransactionsAreAtomic`: the statements implement the steps of `RecoveryEngine`. `FinishedJobsStay`: no commit changes a job that is over. `OrderedLocksNeverDeadlock`, `AcknowledgedIsHandled`, `StatementTypeOK` |
| `stale_statements` | 2 workers, 1 request, a lease may run out between any two statements; 342 469 states | `PaidIsBacked` and `RecoveredIsPaid` hold even where transactions are not atomic |
| `late_worker` | the instance of `stale_statements` | `FinishedJobsStay` does not hold there (section 5) |
| `double_charge` | 1 case, 4 jobs, 1 worker, 2 attempts, commits may abort | `AtMostOneCharge` does not hold there (section 5) |
| `leases` | 2 workers, 2 row ids used again and again, lease 4, calls of the gateway up to 1 and of the AI up to 2, row waits 1, 2 kills or exceptions, fairness; 53 880 states | `LeaseOutlastsWork`, its inductive `TimingInvariant`, `EveryJobIsProcessed` |
| `audit_trail` | 1 worker, 2 payments, 4 jobs, one of them from before the payload column, 2 attempts, 1 crash, commits may abort; 963 925 states | `AuditTellsStatus`, `TraceIsRestored`, `AuditTypeOK`, and, with two payments, `RecoveredIsPaid` |
| `analytics` | 2 cases, 2 attempts, 2 currencies, amounts 0 and 3, 3 instants, any window, sums rounded to multiples of 4; 1 109 788 states | `HalvesAreRight`: the figures of cases tell the reference definition of the first query's moment, those of attempts that of the second's |
| `extraction` | every answer of up to 7 tokens; 97 656 states | `DecisionIsWhole`, `FencedOrFlatIsFound` |
| `migrations` | 3 runners, 6 commands between any revisions, kills; 118 168 states | `VersionTellsSchema`, `HeadIsTheModels`, `LoneRunSucceeds` |

**Bounds and why they are enough.**

- *Attempts.* `MaxAttempts` is 3 in the code and 2 (or 1) in the runs: what goes
  wrong between attempts already goes wrong between two. One number more than
  the limit is representable (`AttemptNos`), so exceeding it is expressible.
- *Cases.* A second case of a payment opens after the first is closed, the only
  way to meet idempotency keys again; two are enough for that.
- *Jobs.* Four or five rows cover evaluate, charge, evaluate, charge, and a job
  of the other case or a retry in between. When they are used up, an action that
  needs a new row is disabled; that cuts behaviours off, which for the safety
  properties only means they are checked up to that length. `progress` begins in a
  state that one worker gets to: the case of one payment was evaluated, charged,
  declined and reopened, and its new charge will give out number 1 again; the case of
  the other has just been opened. The rows that are left cannot block a worker inside
  its second transaction, for a decision may always be ABORT and with one attempt a
  failed charge queues nothing; the properties ask for no new row. In `leases` the
  id of a job that is over is used again, so chains of evaluations go on for ever.
- *Workers.* Two give every stale-worker race; a third could only be a second
  stale one. `crashes` uses one worker and bounds the kills by `MaxCrashes`; a
  killed worker's job comes back through the expired lease. A commit that aborts loses
  a worker's result as a kill does, and aborts are not bounded.
- *Statements.* A deadlock or a lost update needs two or three transactions on
  one payment, case and job. `statements` has a worker and two requests, of which
  `FewRequests` lets at most one be an administrator's (a second one waits from its
  first statement on) and fewer be combined after a crash; `stale_statements` has
  two workers and `FirstDeliveries`, webhooks that are not duplicates. These
  constraints and the bounds cut off states, never steps between two kept ones.
- *Clock.* In `leases` all limits of `TimeoutsFit` are met with equality, the
  hardest case; a lease of one unit less fails.
- *Symmetry* is used for workers, cases, jobs, requests and event ids in the runs
  that check safety only, which name no element of these sets. `progress`, which
  checks liveness, numbers the jobs instead and inserts them in order (`IdsInOrder`),
  and `OneAfterCrash` keeps it small: after the crash the workers take turns.
- *Tokens.* Seven are the least for an object that contains another one behind a
  fence that says `json`; two objects with text between them need five.
- *Migrations.* Three runners and six commands give two that race and a third that
  comes between; every pair of revisions is tried.

The theorems of section 4 remove these bounds for the results they state.

**Fairness.** In `RecoveryProgress`, `LoopsGoOn` asks weak fairness of the loop of each
worker (`main.py` loops for ever and is restarted) and of the passing of the lease
time. Nothing is assumed of webhooks or administrators. A poll is a step of the loop
whatever comes of it: a claim that is rolled back, and the sleep after it, satisfy the
fairness as well as one that commits. `claim_job` has no ORDER BY, so no fairness is
assumed among the jobs that are ready: a job may be passed over for ever
(`PassedOverForEver`), and each of the three properties says so, job by job.
`ChargeIsRecordedOrCancelled` needs one thing more: if a lease always runs out before
the answer is recorded, nothing ever is. It has the antecedent that from some moment on
no lease runs out under a live holder.

`LeaseOutlastsWorkHolds` (section 4) proves that none ever does if `TimeoutsFit`: twice
the longest wait for locked rows, with two of the longest gateway calls or with the
longest answer of the AI, fit into the lease. This is an assumption on the environment,
which the settings do not see to. `validate_timeouts` asks only that each configured
time is below the lease; `GATEWAY_HTTP_TIMEOUT` is passed to nothing else, and the mock
gateway never waits; `AI_TIMEOUT` (`ai/gateway/provider.py:20`) is what the OpenAI
client grants each phase of a request (to connect, to send, to wait for the next bytes),
not the whole of it, and the client repeats a failed request, twice by default, after
pauses of its own, or of up to a minute if the provider's `Retry-After` asks. With the defaults (lease
60 s, gateway 30 s, AI 10 s) nothing keeps a call within the lease.

In `LeaseTiming`, `FairSpec` asks weak fairness of the clock and of each worker, and
none among jobs either. `EveryJobIsProcessed` names what can keep a job unfinished: it is
passed over for ever, or tried in vain for ever, because its claims are rolled back
(its attempt number is taken, or it keeps losing deadlocks) or its charge stays
ambiguous. TLC finds a counterexample without either exception.

**Deadlock** in TLC's sense is checked in `leases` only, where time always goes on.
Elsewhere the system is quiescent once every event has been handled, every job is
finished, or the bounds are used up; workers then poll, which is a stuttering step.
Deadlocks of transactions are states of `RowLocks`, and are broken by an abort.

Each property has a mutant in `PROJECT.json`: a plausible bug in a mapped
definition under which its run fails. The mutated operators stand before the
definitions they replace, under comments that begin with "Mutated".

## 4. What is proved

All with TLAPS, for any sets of payments, cases, jobs, workers and events, any
`MaxAttempts` and any number of crashes; those about migrations for any runners, any
target revisions and any number of commands; those about reports for any rows and any
window, and those about decisions for answers of any length.

Assumptions: `MaxAttempts` is a positive natural number; `NULL` is none of the
ids; `Events`, `AcceptedTerms`, `CommitsMayAbort` and `MaxCrashes` have their
types; in `RecoveryAnalytics`, that the cases and the attempt numbers are finitely many
(a sum over infinitely many rows is none), and that numbers, amounts and instants are
natural. Nothing is assumed of its operators on floats. In `LeaseTiming`, that all times
are natural numbers and that `validate_timeouts` accepted the settings. TLC evaluates
these in every run.

| Theorem | States |
|---|---|
| `TypeCorrect` | `Spec => []TypeOK` |
| `RowsAndWorkersInvariant` | foreign keys, agreement of `attempt_id` with `attempt_count` and the attempt row, and of a worker's memory with its job |
| `WriteAheadHolds` | `Spec => []WriteAhead` |
| `RetryBudgetHolds` | `Spec => []RetryBudget` |
| `PaymentSuccessIsFinalHolds` | `Spec => PaymentSuccessIsFinal` |
| `InductiveInvariant` | `Spec => []IInv`, if `CommitsMayAbort = FALSE` |
| `AtMostOneChargeHolds` | `Spec => []AtMostOneCharge`, under the same hypothesis |
| `LedgerAgreesHolds` | `Spec => []LedgerAgrees`, under the same hypothesis |
| `EngineImplementsLedger` | `Spec => LedgerImplemented`, under the same hypothesis |
| `LeaseIsExclusiveHolds`, `ClosedCaseStaysQuietHolds` | the action properties of those names, of `Spec` |
| `OneLiveJobPerCaseHolds` | `Spec => []OneLiveJobPerCase` |
| `OpenAttemptHasJobHolds`, `AttemptsFollowMapHolds` | no open attempt is left without its job; attempts follow their map |
| `RecoveredIsPaidHolds`, `NoStrandedCaseHolds` | the invariants of those names |
| `RecoveredLostToLastChargeOnlyHolds` | RECOVERED is lost in one step only |
| `PaidIsBackedHolds` | `Spec => []PaidIsBacked` |
| `SuccessTakesEffectHolds` | `Spec => []SuccessTakesEffect`, if `SuccessIdsAreOwn` |
| `LeaseOutlastsWorkHolds`, `TimingInvariantHolds` | `Spec => []LeaseOutlastsWork`, `Spec => []TimingInvariant` of `LeaseTiming`, if `TimeoutsFit` |
| `StatementInvariant` | `StatementSpec => []StatementInv`: locks, and what a transaction knows at each statement |
| `StatementTypeOKHolds`, `AcknowledgedIsHandledHolds` | the invariants of those names, of `StatementSpec` |
| `RecoveredIsPaidByStatements`, `PaidIsBackedByStatements`, `PaymentSuccessIsFinalByStatements`, `WriteAheadByStatements`, `RetryBudgetByStatements` | these properties of `StatementSpec`, without any hypothesis on leases |
| `SuccessTakesEffectByStatements` | the same, if `SuccessIdsAreOwn` |
| `FreshInvariant` | `StatementSpec => []FreshInv`, if `LeasesOutlast` and `CommitsMayAbort` |
| `TransactionsAreAtomicHolds` | `StatementSpec => TransactionsAreAtomic`, under the same hypotheses |
| `OneLiveJobPerCaseByStatements`, `OpenAttemptHasJobByStatements`, `NoStrandedCaseByStatements`, `FinishedJobsStayByStatements`, `ClosedCaseStaysQuietByStatements`, `AttemptsFollowMapByStatements`, `RecoveredLostToLastChargeOnlyByStatements` | these properties of `StatementSpec`, under the same hypotheses |
| `OrderInvariant` | `StatementSpec => []OrderInv` |
| `OrderedLocksNeverDeadlockHolds` | `StatementSpec => []OrderedLocksNeverDeadlock`, under the hypotheses of `FreshInvariant` |
| `AuditObserves`, `AuditedRowsAreSound` | `AuditSpec => [][Next]_vars`; `AuditSpec => []RowsAndWorkers`, from whatever rows a migration found |
| `AuditTypeOKHolds`, `TraceIsRestoredHolds`, `AuditTellsStatusHolds` | the properties of those names, of `AuditSpec` |
| `VersionAlwaysTellsSchema`, `HeadIsAlwaysTheModels` | `Spec => []VersionTellsSchema`, `Spec => []HeadIsTheModels` of `Migrations` |
| `LoneRunAlwaysSucceeds` | `Spec => []LoneRunSucceeds` of `Migrations`: a command that runs alone is refused at dropping a used type, or not at all |
| `HalvesAreAlwaysRight` | `Spec => []HalvesAreRight` of `RecoveryAnalytics` |
| `DecisionIsAlwaysWhole`, `FencedOrFlatIsAlwaysFound` | `Spec => []DecisionIsWhole`, `Spec => []FencedOrFlatIsFound` of `DecisionExtraction` |

The hypothesis `CommitsMayAbort = FALSE` is needed where it stands: run
`double_charge` exhibits the second charge when the transaction that records a
success cannot commit. All other theorems about the engine hold with aborts too.
`SuccessIdsAreOwn` says that the event id of a `payment.succeeded` names no event of
another type or payment; without it the second one is a duplicate to the code and
is dropped.

`LeasesOutlast` is the hypothesis of section 6 under which transactions are atomic;
`LeaseOutlastsWorkHolds` says which durations satisfy it. `CommitsMayAbort` only
selects the engine that the statements are compared with: the victim of a deadlock is
rolled back, and the engine must be able to take that step.

**The argument.** `AtMostOneCharge` is far from inductive. `IInv` adds why it
holds:

1. `RowsAndWorkers`: rows refer to rows that exist; a job's attempt number, its
   count and the attempt row agree; a worker's memory of its job is still what
   the job says. Almost every step is *quiet*: it changes no key of the gateway
   and no identity of a row. The lemmas of `RecoveryEngineProofs` show that every
   step is quiet but `StartAttempt` and `Charge` (`StepKinds`), and treat the
   quiet ones together.
2. `ResultsAreReal`: a worker that may pass the ownership check holds the
   gateway's own answer. The made-up failure of the exception handler belongs to
   a worker that has lost its lease, and leases are only ever given to idle
   workers (`OwnersKept`), so it never passes the check again.
3. `ChargesInOrder`: `NextNumber(j)` is the attempt job j makes or leads to.
   Every smaller attempt of its payment has failed *at the gateway*, and so has
   every attempt below one that was charged. A job that appears inherits the
   number of the job it replaces, or the next one, when by 2 the attempt has
   failed (`HowJobsAppear`, `StepKeepsJobOrder`). The jobs of a new or retried
   case start at 1, where there is nothing to show. They reuse keys that may
   have an answer, and get that answer.
4. `LedgerAgrees`: what was settled is what the gateway says, by 2.

Two successful attempts m < n contradict 3. The refinement follows the same way:
the store changes only in `Charge`, at a key without an answer, all smaller ones
having failed, which is `Settle` of the ledger; everything else stutters.

**Jobs.** A job changes in few ways: PENDING ones are cancelled as their case closes, a
job is added to a case without a live one, a claim takes it, its owner ends it
(`StepOnJobs`). That a job whose owner passes the check is RUNNING (`OwnersRun`) and
`OneLiveJobPerCase` are inductive together with `RowsAndWorkers` (`JobsInv`). An ended job
was RUNNING, so it was the only live job of its case when the next one is queued. A
worker gets a lease only from `idle`, and none of the ways to change a job touches a
RUNNING one with a valid owner but the owner's own and the lapse of the lease, which is
`LeaseIsExclusive`. A finished job is not ended again either, at this grain, where the
check and the commit are one step; `FinishedJobsStay` is therefore claimed of the
statements, while leases outlast the work.

**Attempts.** `OpenAttemptHasJob` needs `LiveAttemptsOpen`: the attempt of a live job has
no outcome yet. Only the job itself settles it, no other one of the case being live,
and the settling transaction ends the job unless the outcome is AMBIGUOUS. That is
also why an attempt that is settled is never settled again (`AttemptsFollowMap`).

**Cases.** Cases are opened with a new job, recovered with a paid payment, or stopped
(`HowCasesChange`). A live job of an active, unpaid case is replaced when it ends, or
its end closes the case (`HowLiveJobsEnd`), so none is stranded. A paid case is
stopped by `FinalizeExhausted` only; its attempt is the last, and was open until then.

**Payments.** The handler's made-up failure is never a success (`MadeUpIsFailure`), so a
worker that records one holds the gateway's own answer even when commits abort
(`AnswersAreReal`, the part of `ResultsAreReal` that needs no hypothesis). No payment
becomes ABANDONED, so an acknowledged success finds its payment SUCCEEDED.

**Leases.** `LeaseOutlastsWork` follows from `TimingInvariant`: a working worker's job
is RUNNING, its own, and as old as the worker's claim (`JobsInHand`); no two workers
have one job in hand (`OneEach`, by SKIP LOCKED and because an owned job becomes
claimable only beyond the lease); and each call began no later than the limits of the
ones before it add up to (`OnSchedule`). `Tick` keeps the last part because it is
disabled once a call has reached its limit.

**Statements.** `StatementInv` holds whatever leases do. Locks of two transactions on
one row are compatible (`LocksExclude`), and each transaction knows at each of its
statements (`Stages`) what it has locked, which rows exist, and what was true of the
rows it read under a lock: a webhook about to insert a case holds the payment FOR
UPDATE and the payment has no active case; a claim holds its job and the job is
claimable. A statement of another transaction cannot take that away: it writes only
what it has locked itself (`Undisturbed`), so each step is shown to keep its own stage,
and to disturb no other one. `AcknowledgedIsHandled` follows, because the branch that
answers 200 after a rollback needs an event that is recorded already.

**Stale leases.** Without `LeasesOutlast` transactions are not atomic: a late worker
may overwrite what the next owner of its job has settled. Six properties survive (the
`...ByStatements` of `StatementProofs`). `OutcomeWrites` lists what any statement may
do: a payment is written for an event recorded with it or because the gateway holds a
successful charge (`PaymentWritten`), and stays SUCCEEDED; a case becomes RECOVERED only
if its payment is then paid; a worker's answer is kept, dropped or replaced by a made-up
failure.
`OutcomesHold` is kept by such writes (`WritesKeepOutcomes`) in whatever order they come.
A success that is recorded shows (`SuccessTakesEffect`), because the delivery that
records it writes the payment in the same commit, or has read it as terminal FOR UPDATE
(`HowEventsAreRecorded`).

**Atomicity.** What is read *without* a lock (the pending jobs a webhook or a stop will
cancel, the live jobs a retry looks for, the statuses a second transaction compares
with) needs the leases. `FreshInv` says that it is still so at the commit. For the
first two, every writer of a job of the case locks the case FOR UPDATE or has the job
in hand as RUNNING. For the third, two live workers have jobs of two cases in hand
(`WorkersApart`, from one live job per case and `LeasesKept`), so nobody else writes
job or attempt; the case may be closed or recovered meanwhile, which the second outcome
of `FinalizeExhausted` allows for. Then each commit is the step of `RecoveryEngine`
of its name, evaluated at the moment of the commit, and every other statement, abort
and kill changes no table (`Acts`). So the inductive invariant of the engine's cases and
jobs (`CasesInv`) holds of the statements as well.

**Ordered locks.** `OrderInv` says of claims, retries and decisions what they hold
while they wait for the case, have it, wait for the payment, have it, and are past
both. Numbered in this order (`LockRank`), whoever is waited for has got further
(`WaitsRise`): what a decision still waits for then is its case, which it has locked
FOR UPDATE, or its own job, which no claim selects while its lease lasts. The
transactions that have got further than t are closed under waiting and leave t out, so
t is in no circle. Without `LeasesOutlast` a claim of an expired job and the late
decision about it can wait for one another.

**Audit.** The engine's invariants carry over to `AuditSpec`, because its steps are the
engine's (`AuditObserves`) and the rows that a migration finds are sound
(`InitAuditRows`). `TraceInv` adds why a trace is restored: a live job carries the id
of whoever opened its case last, or that one is unknown (`JobOfOpener`), and the
context of a worker is the id of the job in its hand, or the job has none
(`ContextOfJob`). The first survives a reopening because no other job of the case is
live then; the second a rolled back claim, because the worker has nothing in hand.
`OwnersRun` closes the gap between the two: a job that can still be ended is
RUNNING, so its id is that of the last opener when its rows are written. For
`AuditTellsStatus`, each step writes rows that tell nothing of a status, or the success
of a payment with the recovery of its active cases, or the new status of one case with
the last row about it (`StepWritesStatus`); each keeps `CaseTold` and `PaymentTold`,
given that completed charges are told of cases that exist and keep their payment. The
property allows one row to contradict the tables: the CHARGE_EXHAUSTED of the step that
leaves its case RECOVERED (section 5).
`LastAppended` and `HasAppended` say what one row at the end changes.

**Migrations.** `VersionTellsSchema` is not inductive: nothing in it says why a commit
leaves a whole revision. `MigrationInv` adds what a transaction knows. Until it holds the
lock of `alembic_version` it knows only its own changes (`OwnChanges`): others may commit
under it. Creating the table of the version, or moving its row, takes that lock and is
refused unless the table or the version is what the transaction read; from then on nobody
else can do either, and without it nobody commits; so its view is the schema of its revision with what it has done since
(`WholeView`), and a commit, which needs the lock, leaves `SchemaAt` of its target. Two
facts about the scripts are needed: an upgrade creates each object once, after everything
it needs (`InitialSchemaOrder`, `CreateOrder`), and a downgrade drops exactly what the
upgrade of its revision created (`DowngradeUndoes`). The type statements at the end of the
initial downgrade are never reached: its first statement is always refused
(`TypeIsUsed`). `LastRevisionIsTheModels` compares the four revisions with the models. A
runner that was alone from its beginning sees the committed schema and its own changes
(`NothingElseRuns`, `AloneSeesTheReached`), so the same two facts say that its statements
are allowed (`OnlyTypesAreRefused`).

**Analytics.** `atFirst` remembers what the reference was when the first query ran.
`AnalyticsInv` says that until the second one runs, the rows of the first are those
figures (`SeenAtFirst`), whatever is committed; cases and their currencies do not go
away, so every currency of the first query still has cases at the second
(`CaseChanges`, `CasesStay`). It remains that each query, evaluated in one state, gives the reference (`QueriesAreFigures`); the
rest is what `CaseFigures` computes from it with any floats (`FiguresTell`). The queries
count sets, the reference adds case by case, and both sum amounts with a fold. A fold is
computed from the fold without one element (`RecursionIsUnique`, by the smallest set
where two such functions differ). A sum of amounts is therefore the number of elements
of a set that has a pile of units for each case (`SumOfAmountsIsCount`), and grows by its
amount with each case, just as the rows of the join grow by the attempts of the case and
by nothing of another one (`RowsGrow`); `Figures` says what has been added up after any
set of cases (`AddedIsFigures`).

**Decisions.** `re.findall` is a recursive function on the places of the answer. It exists,
because a match ends beyond its beginning (`PatternsAdvance`, `SearchExists`), and
`FindAllFinds` says without recursion as much of its result as the code looks at: it is
empty if no place matches, and has one element only if some place matches, none before
it, and none from its end on. Both are inductions from the end of the answer towards its
beginning (`Backwards`). The rest is about braces. An object begins and ends with one
(`EndsOfObject`) and is not the beginning of another object (`ObjectsEndOnce`). A fence
lies outside of every object, so what it encloses is part of no other
(`FencedIsOutermost`). If the only bare match is an object, it ends at the first brace
that closes, hence contains one brace that opens (`FlatObject`), and any other object of
the answer would have matched as well (`BracedIsAlone`). For `FencedOrFlatIsFound`, the
two backticks, or the two braces, leave one place that matches.

Some formulas are written so that they can be reasoned about: `Circle` says that t is in
every set closed under waiting, which is the transitive closure without recursion; the
outcomes of `WorkerStatements` are chains of IF; and the tokens of an answer that stand
for braces are called `lbrace` and `rbrace`.

**Only model-checked.** Liveness under fairness (`PaidDrains`,
`ChargeIsRecordedOrCancelled`, `FreshChargeIsClaimed`, `EveryJobIsProcessed`), which is
out of this prover's reach. Every invariant and every action property that a passing run
checks is also proved.

## 5. What disagrees with the documentation

Two runs are expected to fail, and quote their sentence in `PROJECT.json`.

- `double_charge`. `_finalize_job` is called inside the `try` around `charge`
  (`execution_service.py:239`). If the commit that records a *successful* charge
  fails, the handler records a failure, and the next attempt charges again under a
  new key.
- `late_worker`. The README says that "ownership checks prevent stale workers from
  committing state after losing their lease". The check reads the job without a lock
  (`execution_service.py:247`; 94, 125 and 288 likewise), and the commit follows some
  statements later. A worker passes the check and waits for rows that a success webhook
  has locked, which closes the case; its lease runs out; another worker claims the job
  and commits it as CANCELLED; then the first commits, overwrites the job as FAILED and
  queues another evaluation for the RECOVERED case. While leases outlast the work this
  cannot happen (`FinishedJobsStay` in run `statements`, `FinishedJobsStayByStatements`).

The other disagreements are the exceptions and hypotheses of properties that hold.
Without the exception, TLC shows the behaviour:

| Where | What happens | The exception |
|---|---|---|
| `workers/executor/execution_service.py:278` | `payment.succeeded` sets the case RECOVERED while its last charge is in flight; the charge fails, and the exhaustion branch sets it STOPPED although the payment is SUCCEEDED | `RecoveredLostToLastChargeOnly` says this is the only way |
| `workers/executor/execution_service.py:129` | the case is stopped while the AI is asked; the decision looks at the payment only, and the stopped case is charged | `ClosedCaseStaysQuiet` asks that no job is left running |
| `domain/operations/service.py:112` | a retry starts at `attempt_count` 0 although attempt 1 exists; the unique constraint rolls back every claim of the queued charge | the number has to be free in `FreshChargeIsClaimed` |
| `domain/operations/service.py:55` | stop cancels the PENDING job of an ambiguous attempt: a charge that went through is never recorded | `CANCELLED` in `ChargeIsRecordedOrCancelled` |
| `workers/executor/execution_service.py:247` | the job is read without a lock: a worker whose lease runs out after the check commits over the next owner's work | `LeasesOutlast` in run `statements`; `late_worker` shows what goes wrong without it, `stale_statements` what holds |
| `workers/executor/execution_service.py:278` | a case that was STOPPED when the transaction of its last charge loaded it, and that a refused request has set RECOVERED since, stays so; the audit trail ends with CHARGE_EXHAUSTED all the same | `Exhausts` in `AuditTellsStatus` |
| `workers/executor/execution_service.py:239` | a worker that has charged may be the victim of a deadlock with a webhook, and then records a failure as above | `OrderedLocksNeverDeadlock` leaves out webhooks, stops and the transaction after a charge |
| `config/settings.py:7` | the settings are compared with the lease one by one, but a claim may make two calls, waits for rows, and makes calls that take longer than their setting: nothing keeps them within the lease | `TimeoutsFit`, over real durations |
| `persistence/repositories/job_repo.py:30` | `limit(1)` without an order may return an ambiguous charge, or one whose claim is rolled back each time, again and again, and never another job | `PassedOverForEver` in the four liveness properties, `TriedForEver` in `EveryJobIsProcessed` |
| `domain/operations/service.py:176` | what commits between the two queries is in one half of the report only | the two moments of `HalvesAreRight` |
| `domain/operations/service.py:184` | sums become floats before they are subtracted and divided: of 0.3 attempted and 0.1 recovered the report says that 0.19999999999999998 is unrecovered | `Float`, `FloatMinus` and `FloatDivide` in `HalvesAreRight` |
| `ai/gateway/provider.py:43` | the pattern for a bare object ends at the first brace: an object that contains another one, with text around it, is rejected | `FencedOrFlatIsFound` asks for a fence or a flat object |
| `workers/executor/execution_service.py:33` | a job without an id (from before the payload column) leaves the id of the previous job in the context, and its rows and follow-up jobs get it | `NULL` in `TraceIsRestored` |
| `../migrations/versions/a04bb93ae6eb_initial_schema.py:168` | the downgrade begins by dropping types that the tables still use; PostgreSQL refuses it, so that `downgrade base` never succeeds | `LoneRunSucceeds` |

Three more have no property. `available_at` is written with a delay and never read by
a claim (`job_repo.py:25`), so a DELAY decision is evaluated again at once. The second
transaction that audits a duplicate delivery may fail silently
(`domain/payments/service.py:132`). And the branch of `_finalize_evaluate_error` that
stops a case whose AI keeps failing needs `attempt_count` to reach `max_attempts`
(`execution_service.py:112`), which no evaluation job ever has (`RetryBudget`): such a
case is evaluated for ever; `test_ai_exhaustion.py` tests the branch on a job that the
program never creates.

## 6. Abstractions and what is not modelled

- **A transaction is one step** in `RecoveryEngine`. Run `statements` and the theorem
  `TransactionsAreAtomicHolds` are the justification: with the statements, row locks, deadlocks and rollbacks spelled out,
  every behaviour is one of `RecoveryEngine`, as long as leases outlast the work. For the
  second outcome of `FinalizeExhausted` the engine allows a little more than the code: it
  asks that the case is RECOVERED, not that it was STOPPED when it was loaded. Without
  that hypothesis the transactions are not atomic: `late_worker` shows what then goes
  wrong, and `stale_statements` checks properties that survive.
- **Isolation** is READ COMMITTED, PostgreSQL's default: each statement sees what is
  committed when it runs, or, after waiting for a lock, the row as it then is.
- **The gateway's store** is shared and durable. The mock keeps it in a class
  variable; the model is of the remote side it stands for.
- **Time.** In `RecoveryEngine` a lease may expire at any moment while its job is
  RUNNING; `LeaseTiming` says when it does, given how long calls and waits take. `available_at` and `scheduled_for` are
  written but never read by a claim, so they are left out. `claim_job` takes an
  arbitrary claimable row; so do the models.
- **Data.** Amount, currency and customer are one value, compared as a whole;
  the AI's context and confidence, error texts and recovery_decisions rows are
  left out. `validate_financials` is the set `AcceptedTerms`.
- **Floats** are three operators without properties; amounts and sums in the database
  are exact. `HalvesAreRight` asks for a recovery rate only where the float of what was
  attempted is positive, as the code does.
- **Tokens of an answer** are braces, fences and text; a brace inside a JSON string is a
  brace to the patterns of the code and to the model, also when it says what an object is.
- **Audit payloads** are cut to what says which status follows; the row of the
  analytics request and the scrubbing of payloads are left out.
- **Schema objects** are named; columns, keys and the constraints of a CREATE TABLE go
  with their table. `run_migrations_offline` prints and changes nothing.
- **Not modelled**: logging (formatting only); authentication and health (a
  comparison and a probe); the policy validator (an empty class); customers (inserted
  on first sight, never read by another handler; two first webhooks of one customer
  may collide, and the one that loses is rolled back as a whole) and subscriptions (no
  handler touches them); `recovery_decisions` (written only); the prompt of the AI and
  the values pydantic rejects.
- The transition maps and `safe_update_status` are called by tests only; no
  handler consults them, so they constrain nothing here.

## 7. Plan

Done: the engine at the grain of transactions and of statements, its abstract ledger,
the loop of the workers, the clock, audit trail, analytics, decisions and migrations, and
the theorems of section 4, which cover every invariant and every action property that a
passing run checks. What is left is the four liveness properties, which stay with TLC.
