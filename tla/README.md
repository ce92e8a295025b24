# A verification project for ai-pay

ai-pay is a payment platform for software agents: a Go backend
(`src/backend`) with a ledger in MySQL and idempotency markers in Redis, and a
Next.js console (`src/frontend`). This directory models the parts that decide
about money, the console's users and the pages that move the money, checks the
models with TLC on small instances, and proves the most important statements
with TLAPS for every value of the constants.

Contents: [the system](#the-system) · [the modules](#the-modules-and-the-code) ·
[the runs](#the-runs) · [fairness](#fairness) · [the proofs](#the-proofs) ·
[what disagrees](#where-code-and-documents-disagree) ·
[limits](#abstractions-and-what-is-not-modelled) · [the plan](#the-plan)

## The system

`cmd/server/main.go` chooses an implementation. With `MYSQL_DSN` and
`REDIS_ADDR` it builds a `PersistentService` and starts three jobs, each a
goroutine of its own in every server instance; without them it builds the
in-memory `Service`. The HTTP router is the same for both. Several instances may
serve one database.

| Component (code) | State | Operations | Talks to | What is hard | What makes it correct |
|---|---|---|---|---|---|
| Persistent ledger (`service/persistent_service.go`, migrations 001–006, 012) | `asset_va_account` (balance, frozen_balance), `account_hold`, `pay_order`, `fund_recharge_order`, order tables of transfers | one transaction each: recharge, transfer, withdraw, pay, settle, fail, refund | MySQL; the outbox table | transactions of many requests and jobs in any order; unchecked conditional updates | money conserved, no overdraft, frozen = sum of holds, holds decided once |
| Status compensation (`ops/jobs.go` 44–118) | the rows it read | unlocked scan, one transaction per row | ledger | stale reads, several instances, process end | implements the escrow; every SETTLING order ends |
| Payment handlers (`Pay`, `Recharge`, `Unfreeze`, `Refund`) | Redis markers, 24 h | look up marker (and answer a replay from it and the order's row), check rule, transaction, write marker | ledger, Redis | overlap, lost marker, expiry, midnight, replays of what has changed since | an answer, first or replayed, is true; every charge of a key has a cause; daily limit |
| Fund movements (`TransferVA`, `TransferFunds`, `WithdrawFunds`, `TransferX402Outbound`, `PayVirtualCard`) | markers; rows with UNIQUE `idem_key` | the same four steps | ledger, Redis | the same, and checks outside the transaction | rows explain the balances; a marker speaks of what committed; an outbound transfer follows a charge |
| Webhook delivery (`ops/jobs.go` 172–276, `ReplayWebhookDelivery`) | `webhook_delivery_task`, batches in memory | select, POST, write back, replay | ledger's outbox; receivers | lost answers, two instances on one task, stale attempt counts | SENT means received; one delivery per cause; every task ends |
| Reconcile (`ops/jobs.go` 120–162) | none; it writes nothing | compares the total of each account with the sum of its recharges less the sum of its SETTLED orders, and logs an alert | reads the ledger's tables | two statements without a snapshot; transfers are in neither sum | logs only real differences |
| Callback gate (`router.go` `withCallbackToken`, 2733–2895) | records by key and nonces, each with a window, in the memory of one process | timestamp, record, nonce, signature, handler, record | `ResolveSettling` | overlap of copies, boundaries of three windows, restarts | a callback takes effect once; an unchanged retry succeeds |
| Billing (`router.go` 427–1062, `service/billing_subscription.go`, `persistent_billing.go`, `billing/*`) | checkout sessions, subscription per user, top-ups | create, webhook, sync | Stripe; `Recharge` | duplicated and reordered events; webhook against sync; a sync of a top-up's session | one credit per paid session; rows catch up with Stripe |
| Rules (`SetAuthorizeRule` …) | `pay_authorize_rule` | set, update, freeze, activate | `Pay` | a rule read before the transaction | limits hold |
| Cards, risk, KYC (M7, P2) | `virtual_card`, `risk_config`, `risk_party_kyc`, audit | apply, manage, pay, check | ledger | — | frozen cards do not pay |
| Sessions and signing (M8) | `auth_session_record`, `payment_sign_request` | create, revoke, request, submit | `Pay` | expiry against submit; submit twice | a sign request pays once |
| In-memory service (`service/service.go`) | maps under one mutex | the same operations | — | a few operations release the mutex in the middle | the same promises |
| Rate limiters (`http/security.go`) | counters of fixed windows, in memory or in Redis | allow | every request | the burst at the end of one window and the start of the next; a Redis counter without expiry | never more than the limit per window |
| Console users (`frontend/lib/auth-users.ts`, `admin-audit-log.ts`, `app/api/auth/*`) | `users.json`, the audit file | login, register, profile, five administrator's changes | the two files | read-modify-write of one file with awaits in between; `writeFile` truncates first; a parse error is an empty store | one at a time, no change is lost |
| Sessions and access (`lib/session.ts`, `rbac.ts`, `plan-capabilities.ts`, `proxy.ts`, `app/api/backend/[...path]/route.ts`) | cookies; no server state | issue, believe, guard a page, guard and forward a call | users, backend | claims are believed unread until they expire; the count of agents is read before the registration it allows | rights are never older than a session |
| Query cache and lists (`components/query-provider.tsx`, `developer/page.tsx`, `recharge/page.tsx`) | cache entries by list and filter, pending mutations | fetch, retry, invalidate, seed; 14 mutations | backend through the proxy | a read under way when a change is announced; answers out of order; pages left meanwhile | a list at rest shows what the page said |
| Transactions page | rows on screen, error panel | pay, status, balance, ledger, retry | backend | no button is disabled while pending; a row takes its amount when the answer comes | a row is a payment the backend made |
| Agents page (`agents/page.tsx`, `lib/agent-signature.ts`) | signing keys in local storage, shared by all tabs | create an agent: key, count, register, account | proxy, backend | each of four steps may fail; a second account for a DID is not inserted (UNIQUE), and nobody is told; overlapping creations save one map | the stored key is the registered one; a free plan keeps its limit |
| Authorize page | the line it shows | set, update, freeze, activate | backend | four buttons, each disabled only by its own call | what the page said is so |
| Billing page | address, effect, filters | come back from checkout, sync, checkout | backend | the effect restarts at every render, and its runs outlive it | the address is cleaned in the end |
| Other console code (texts, landing pages, dashboard, settings, help) | texts | read only | — | — | — |
| Everything else (Bridge client, storage, scripts) | tables, files | single statements | — | — | — |

`PROJECT.json` lists the same parts with their status, and every hazard found in
the code with its line.

## The modules and the code

    Escrow  <--- implements ---  Ledger  <--- extends ---  PersistentPay
                                    ^------- extends ---   FundMovements
    WebhookDelivery  (the outbox rows of Ledger, from then on)
    CallbackGate     (in front of the callback that resolves an order)
    Billing          (calls Recharge, which PersistentPay models in full)

    ConsoleAccess    what a role and a plan allow; no state
      ^-- ConsoleUsers   files, handlers and cookies
      ^-- ConsoleShell   one tab: session, page, calls that can succeed
            ^-- ConsoleQueries, TransactionsPage, AgentsPage,
            |   AuthorizePage, BillingPage
            ^------- all composed by Console

* **`Escrow`** is the abstract promise about an agent's money: a payment takes
  its amount once, ends once (charged or returned), and can be refunded once.
  It has no frozen balance, no orders and no jobs.
* **`Sums`** has `Total`, the SQL `SUM` over numbered rows, written as a
  recursive function so that the proofs can use it.
* **`Ledger`** has the MySQL tables as variables and one action per committed
  transaction. `hold` and `order` are `account_hold` and `pay_order`, numbered by
  creation; `account` is balance and frozen balance. The compensation job is
  three actions: `CompensationScan` (an unlocked read), `CompensateTx` (one row,
  one transaction) and `CompensationAborts`. `recharged`, `moved` and `refunds`
  are what the other order tables say, kept as sums and sets.
  `Debited` and `Released` are the updates `WHERE frozen_balance >= amount` whose
  affected rows nobody looks at: when the condition fails, the row stays and the
  transaction goes on, in the model as in the code.
* **`PersistentPay`** extends it with the request handlers of `Pay`, `Recharge`,
  `Unfreeze` and `Refund`. Every handler is a small program counter. A request
  that finds no marker goes through `Begin`, `CheckRule`,
  `CommitPay`/`CommitFailedPay`/`CommitOther` and `SetMarker`; `GiveUp` and
  `LoseMarker` are errors and process ends before and after the commit. One that
  finds a marker goes through `Replay`, which takes the number of the order from
  it, and, if it is a `Pay`, `ReadStatus`, which answers the status in the
  order's row, or SETTLED when that query fails or finds no row; `Receive` is the
  answer's arrival. `reply` is the answer on its way and what it was made from.
  A key is the one in Redis, with its prefix: `Pay`'s prefix `idem:` begins the
  others, so the sets of keys may overlap, and a replay may find the marker of
  another operation. `Expire` ends a marker, `Midnight` the day of the limit.
  `forgotten` counts the charges of a key whose marker was lost or has expired,
  `peak` is the most requests for a key ever in progress at once. Every step
  that moves money is one of the ledger's transactions, so that the handlers
  implement `Ledger` holds by construction, and is no property of a run.
* **`FundMovements`** extends it in the same way with the handlers of the two
  transfers, withdrawals, x402 outbound transfers and card payments. `row` holds
  the order rows; `InsertRow` is the UNIQUE key of their tables, and a key that
  is taken rolls the movement back.
* **`WebhookDelivery`** models a task from its insertion: `Scan` reads a batch
  without claiming it, `Post` delivers, `MarkSent` and `MarkFailure` write back
  counting from the attempts read with the batch, `Replay` resets a task,
  `Abort` ends a run of the job anywhere. `allowed` is a history of what entitles
  a receiver to one more delivery: the task itself, a lost answer, a success that
  was not written, a replay, or a selection of a task another instance holds.
* **`CallbackGate`** models `POST /payment/status/callback` in one process. `dedupe`
  is `callbackDedupe`, `nonces` the limiter with a limit of 1. `Begin` or
  `AnswerSeen` is everything up to the lookup of the record, `TakeNonce` the
  limiter, `Handle` or `Refuse` the handler, `Mark` the record that is written
  after the answer; requests overlap between these steps. `order` is reduced
  to what a callback looks at: whether the order is SETTLING, and if not, how
  it stopped being so. `Restart` forgets the memory and keeps the orders.
* **`Billing`** models one console user's checkout sessions and subscription.
  Stripe is part of the module: sessions that are paid or expire, versions of
  the subscription, reversed charges, and the events of all this, which are
  delivered in any order, again when their answer is lost, and while a copy is
  still being handled. Its handlers are program counters through the webhook's
  cases and through `Sync` (CheckoutSync), which accepts any session of the user:
  that of a top-up, which the link's own success URL brings to the page, writes
  the subscription as active, whatever it is. A link that names its VA account
  (`va`) is credited only if it names the user and the amount too (`complete`).
  A dispute's event carries no charge, so it reverses nothing. `Check`, `Commit` and
  `SetMarker` are `Recharge`. `Mishap` is every call that fails, every handler
  that stops and every marker that expires; `excused` and `causes` record what
  it may have spoilt, so that the properties can say that nothing else is ever
  wrong.
* **`ConsoleAccess`** is the tables of `rbac.ts` and `plan-capabilities.ts`, the
  page guard and the checks of the backend proxy, with paths reduced to the
  classes the code tells apart.
* **`ConsoleUsers`** has the two files as what a reader would parse, cookies as
  claims, and one slot per handler under way. `ReadUsers` copies the file (as an
  empty store while it is truncated), `TruncateUsers` and `FillUsers` write it,
  and an administrator's change does the same with the audit file afterwards. A
  restart drops the handlers and keeps what they left. `ideal` and `idealAudit`
  apply the same operations at the moment they are acknowledged; `shownAt`
  records when the file last granted a right.
* **`ConsoleShell`** is a tab: `session`, `page`, and `Reaches`, which calls of
  `console-api.ts` the proxy and the backend serve at all.
* **`ConsoleQueries`** has two tables taken from the pages (which mutation talks
  about which lists, has which read again, and puts its answer into the cache
  itself; which button is disabled when) and the actions of the cache: a fetch is
  asked, served and shown at different times, fails once and is retried, and is
  dropped by an invalidation. A list's contents are the numbers of the clicks
  whose changes it shows; `told` are those its reader was told of. An
  invalidation that comes during a list's first read joins it, so the answer may
  be older than the message: `missed` records those changes, the one exception of
  the property. The recharge page opens with the filter it was left with.
* **`TransactionsPage`**, **`AgentsPage`**, **`AuthorizePage`** and
  **`BillingPage`** are one page each, with the steps of its calls on both
  sides: asked, carried out by the backend, answered or lost.
* **`Console`** puts them into one tab. Opening a page drops what the other held
  and lets its calls go on. The parts share the session and the page, and no
  data, so a behaviour follows the user's work in one of them (`part`) and the
  visits to the others; that keeps the product of their states out of the run.
* **`*_proofs`** hold the theorems. **`MC*`** instantiate the modules for TLC.

A definition named `Mutant_...` is no part of any specification. It is the
definition after it with a plausible bug, and records which property notices it.

`PROJECT.json` maps every definition to the lines it stands for.

## The runs

Every run explores its whole state space.

| Run | Instance | Question | Result |
|---|---|---|---|
| `ledger` | 2 agents, 2 payments of 1 or 2, recharges of 2 and reversals of 1, one fair job | Do types, conservation, exact frozen balances, agreement of orders, holds and announcements, and the refinement of `Escrow` hold? Does every SETTLING order end? | yes |
| `ledger_failed` | 1 agent, 1 payment, 1 job | Does FAILED mean that the money was restored? | no (finding) |
| `pay` | 2 handlers, 1 key per operation, 2 orders, lost and expired markers, no job | Is what a first answer or a replay says true while it is on its way? Has every charge of a key beyond the first a cause? | yes |
| `pay_retry` | 2 handlers, no lost marker | Is a key charged once? | no (finding) |
| `pay_daily` | 1 handler, 2 keys, daily limit 1 | Does the daily limit hold? | no (finding) |
| `movements` | 2 handlers, 2 agents, 1 key, 1 payment to refer to, lost and expired markers | Do rows explain balances, do markers speak of what committed, do outbound transfers follow a charge? | yes |
| `delivery` | 2 fair jobs, 2 tasks, 2 attempts, batches of 1, 3 new tasks, replays or aborts | SENT means received, one delivery per cause; does every task end SENT or DEAD for good? | yes |
| `gate` | 2 requests at once, 1 key, 2 nonces, 2 orders, 3 reports of which two contradict each other, skew 1, window 2, clock to 3 | Is an answer of 200 true, is nothing handled twice, does an unchanged retry succeed? | yes |
| `billing` | 2 handlers, the subscription with 3 versions, 1 top-up link, refunds, 1 mishap | Do the rows catch up with Stripe, is each payment of a link with complete metadata credited, and each credit and reversal made once, but for a named cause? | yes |
| `billing_link` | the same without mishaps | Is a paid top-up link credited? | no (finding) |
| `users` | 1 user and the administrator, 2 handlers, 1 browser, 3 requests, sessions of 2 ticks, an audit file of 1 entry | One at a time, do the files keep what was acknowledged? Are a cookie's rights ever older than a session? | yes, no |
| `console` | 3 clicks in any part and any visits, an administrator and a free operator, 2 amounts, 2 agents, 1 filter | Does a list at rest show what the page announced, are the rows payments, do the keys match, is the plan's limit kept, is what was said of the rule so, is the address cleaned? | yes, each under the condition its comment names |

**Why the bounds are enough.** Two payments are the least number in which a
refund, callback or job acts on one while another changes the same account.
Amounts 1 and 2 with a recharge of 2 give an account too little, exactly enough
and more than enough. A reversal of 1 after a recharge of 2 meets the boundary of
the reversal check (it needs twice its amount). Two handlers and one key are the
overlap of a retry with its original. The run `pay` has no compensation job and no key that
two operations share, which keeps it within a minute: what the job does to holds
and orders is in `ledger`, and that replies stay true beside jobs, and under
which shared keys they do not, is proved for any instance. Two jobs are two instances on one row.
Two tasks and batches of one let a failing task stand before
a younger one, and two attempts leave one stale count between the first and the
last. In the gate a window of twice the skew is the ratio of the code (10 and 5 minutes),
so that all three windows can end at one instant, and a clock of 3 goes one unit
beyond a window; a request takes no time, because its seconds are nothing
against minutes. In billing three versions leave an event for a later one to
overtake, and one mishap is the least that spoils one row and must not spoil
another; the event of a dispute, which changes nothing, is left to the proofs. Three requests are two that overlap and one that meets what they
left; a clock of 3 is one tick beyond a session. Three clicks are a call, a
second that overlaps or follows it, and one that meets its late answer; whoever
visits pages in between does so without a bound. `MaxRecharge`, `MaxOrders`,
`MaxEvents`, `MaxTime`, `MaxVersion`, `MaxMishaps`, `MaxRequests` and `MaxActs`
only cap what would otherwise go on for ever; what
is proved is proved for every value of them.

**Deadlock** is checked except where the instance really comes to rest: the
ledger runs stop when all orders are used up and no money can change, the
delivery run when all tasks are SENT or DEAD, and the console's when the bounds
on clicks or requests are used up and nothing is under way.

**Symmetry** permutes jobs, handlers or nonces, which no definition tells
apart, and is never used with a liveness property.

## Fairness

* `TimePasses`, `CompensationScan`: weak. `main.go` starts a ticker of one minute
  per instance that only stops with the process.
* `CompensateTx`: strong. A run can be cut short by an error and the scan
  repeated; a transaction tried again and again is not rolled back for ever.
* `BillingFairness`: weak, for an answer (or failure) of the call the page waits
  for, and for a script that may go on. The browser ends every request in one way
  or the other, and nothing the page does keeps the effect's run from going on.
* `BecomesDue`, the delivery job's steps: weak, by the clock and a ticker of 15
  seconds.

Nothing is assumed of callbacks, clients, receivers or operators: `SettlingEnds`
holds without any callback, `EveryTaskEnds` with a receiver that never answers.

## The proofs

`tlapm` checks every theorem below from the assumptions named in the modules
(`LedgerAssumption`: amounts are positive integers, recharges are not 0, `NoAgent`
is no agent; `PayAssumption`, with finitely many
requests in progress at a time; `DeliveryAssumption`, `GateAssumption`,
`UsersAssumption`, `ShellAssumption`; `BillingAssumption`, by which the value of
an idle handler's job is no job, as by `GateAssumption` what an idle handler works
on is no request; `AmountsAssumption`, by which the form holds some
amount and the marker `Live` is none), for any number of agents, orders, jobs,
handlers, keys, accounts, links, versions, filters and clicks. With them every
invariant, action property and refinement that a passing run checks is a theorem.

* **`Ledger_proofs`**, on sums: a total is a number, is zero over zeros, is at least each
  entry over naturals, and changes by what one entry changes. Since a fact about
  a recursive definition is needed, it is shown first that a running total
  exists, by a least-counterexample argument over the naturals, and is unique.
  On the ledger: `LedgerTyping` is inductive as it stands. `OrderMatchesHold`
  alone is not: to know that a compensated order has a row, and that a refunded
  hold was debited, it needs `RowsWellFormed`; that the announcements agree with
  the rows needs both. Their conjunction is `RowsInv` (`LedgerRows`). `NoOverdraft`,
  `FrozenIsSumOfHolds` and `MoneyConserved` are inductive only together with it:
  the updates of the frozen balance are skipped without notice when it is too
  small, and what rules that out is that it is at least every FROZEN hold
  (`FrozenCoversHold`), a consequence of being their sum. That is `FundsInv`
  (`LedgerFunds`). `LedgerConservesMoney`, `LedgerFrozenExact`, `LedgerOrdersMatch`
  and `LedgerDecidesOnce` (which no run repeats) follow.
  `LedgerNeverOverdrawn` is read off `FundsInv`, `LedgerAnnouncesTruth` off
  `RowsInv`. At the end of the module,
  `LedgerImplementsEscrow`: the mapping reads the state of a payment off its hold
  and the set of refunds, never off the status of its order, which the
  compensation job overwrites. With `RowsInv` and `FundsInv` every action maps to
  one action of the escrow or to a stutter.
* **`PersistentPay_proofs`**: everything proved of the ledger holds with the
  handlers around it (`HandlersKeepMoney`); that they implement the ledger
  (`HandlersImplementLedger`), on which this rests, holds by construction.
  `RepliesAlwaysTrue` says that what a client is told is so, by `RepliesInv`:
  every marker, every handler past its commit and every replay under way speaks
  of an order that was charged, released or refunded for the key, and no step
  makes such a statement false, because holds are decided once, refunds only
  grow, and an order's row keeps its agreement with the hold. It needs the
  exceptions it names: under a key that two operations share a replay may speak
  of the other operation's order, and `Pay` guesses SETTLED when it cannot read
  the row. `ChargesBounded` is what remains of "a key charges once": while a key has no
  marker, each of its charges belongs to a request still on its way to the marker,
  or its marker was forgotten; so the requests that can charge next were in
  progress together with those (`OverlapInv`).
  So a key is charged at most `peak` times and once more for each forgotten
  charge (`ChargesAccountedFor`). Without overlap and lost markers that is once;
  with two requests at once, the counterexample of `pay_retry` meets the bound.
* **`FundMovements_proofs`**: `MovementsInv` is two properties at once with what
  carries them through a handler: one about to write its marker has left its row
  (`MovementMarkersTrue`), and one about to transfer on a payment saw it charged,
  which `LedgerDecidesOnce` keeps true even when a refund comes in between
  (`OutboundRestsOnCharge`). `RowsAddUp` needs
  what a sum over a set of rows is, for which the library has no theorem: adding a
  row that is not there adds its amount. It rests on the fact that a row is new
  when it is inserted, and is carried by one invariant (`ExplainedInv`) through the
  steps that move money with a row, with a card payment, or not at all. As with the
  payment handlers, that these implement the ledger (`MovementsImplementLedger`)
  holds by construction and only carries the ledger's facts over.
* **`Billing_proofs`**, for any number of links, handlers, subscription versions
  and mishaps. `BillingInv` is what Stripe, the handlers and the tables may hold
  together. `MovesHaveCauses` counts (`MovesInv`): what moved for a cause so far, and
  what the handlers that have decided to move may still add, is at most one and
  the overlaps and lost markers on record; a handler that starts beside another
  brings its own cause with it. `AnswersAreCredited` follows each event to its answer
  (`CreditInv`): it waits, or a handler has it and has not come to `Recharge`, or the
  money moved, or a mishap is recorded. `SessionsCatchUp` does the same for a row (`RowInv`):
  a handler that is past its update has left the row as the session ended. For
  `TheSubscriptionCatchesUp` (`SubscriptionInv`) an event of the newest version is
  enough as long as it waits; afterwards, as long as nothing is excused, at most one
  handler writes, and what it read is the newest version or an event of that one
  waits. A sync of a top-up's session, or of one that is not paid, is excused: it
  writes "active" over whatever there is.
* **`WebhookDelivery_proofs`**: `SentWasReceived` needs that a job holding the
  answer 200 got it from the receiver. `DeliveriesHaveCauses` counts: what a
  receiver may still get of a task (`allowed`) is at least the number of
  instances that hold it undelivered, and at least one while it is open and held
  by none (`AllowedInv`); a selection raises the first when it takes a task that
  is held, and uses the second when it is not.
* **`ConsoleUsers_proofs`**, for any accounts, handlers, browsers and session
  lifetimes. `UsersPermissionsAreRecent` rests on `RightsInv`: a cookie's expiry
  is at most a lifetime after the file showed its role and plan, since only
  a login signs a cookie, with what the file shows in that very step. `UsersCalmStoreIsSerial` describes
  each stage of a lone handler: which of the two files is already as the
  acknowledged operations make it, and which copy will make the other so.
* **`Console_proofs`**, for any sessions, agents, filters and amounts and any number
  of clicks; `PagesInv` has one conjunct per page, and a lemma of each page says that
  the others' steps and a visit leave it true.
  `QueriesInv`: what a reader was told of a list is among what the backend would
  answer (which only grows); a served answer has all of it; and so has a list at
  rest that did not fail. The step that tells is the hard one: every list a message
  is about is one its mutation reads again (`ToldIsRead`, over the whole table of
  mutations), so the entry owes nothing until the next answer,
  unless the message comes during the list's first read, which goes on
  (`TellingFits`); what its answer cannot show is then the exception
  (`ConsoleShowsWhatItTold`).
  `TxInv`: a payment that will add a row shows the amount it sent, has an order as
  soon as it is carried out, and has a number that no row and no other call has
  (`ConsoleRowsArePayments`). That a later click freezes the amount of an earlier
  call is what makes the first of these inductive.
  `RuleInv`: what was said holds until a call is served, and what a served call
  will have the page say holds after it. `AgentsInv`: at every step of a creation
  the key is where the next step needs it, and the count that let a free plan
  register was one of no accounts. The last two conclude only about calm times, in
  which the calls of a page do not overlap; the invariants say how long a time stays calm.
  `ConsoleTyping` is read off all of them.
* **`CallbackGate_proofs`**, from `GateAssumption` (two skews fit in one window).
  `HandledOnce` says that no request at the handler has been handled before. It
  takes three reasons to know that, one for each time a copy can arrive, and
  `GateInv` states them: while the first is in progress the two have different
  nonces (`ProgressInv`); while its record is still to be written, a copy that
  passed the lookup has a nonce that was taken at this very instant (the last
  conjunct of `MemoryInv`); and a record that was pruned belonged to a timestamp
  that is too old by now, because both the record and the nonce's window began no
  earlier than one skew before the timestamp. `OkMeansResolved` needs that every
  record is the digest of a handled request and that what was handled stays
  resolved (`TruthInv`). `GateExactRetry` is about steps: while its timestamp is
  accepted, a remembered callback finds a record, and by `RetryInv` it is its own, since a
  record under a key is of a handled request with that key and no two handled
  requests report the same: the order of the first has left SETTLING for good.

Only model-checked: liveness, because fairness and ENABLED are beyond the prover:
`SettlingEnds`, `EveryTaskEnds` and `SuccessUrlIsCleaned`; and the four findings, which a
counterexample settles. What a recursive definition computes
for every input cannot be proved by induction with the installed provers;
`Ledger_proofs` gets by with least elements of sets of naturals.

## Where code and documents disagree

1. **FAILED over SETTLED** (`ledger_failed`). The compensation job sets an order
   to FAILED without looking at its status again (`ops/jobs.go:103`). A callback in
   between leaves a charged payment FAILED, and it can no longer be refunded. The
   product document (line 831) promises the balance back.
2. **Charged twice** (`pay_retry`). The marker is read before and
   written after the transaction, and `pay_order` does not know the key. Two
   overlapping retries charge twice (and so does one retry after a lost marker). The
   product document (lines 829, 846) and the release checklist (line 38) say that
   never happens. What does hold: no more charges than requests were
   ever in progress at once, and one more for each whose marker was lost or expired
   (`ChargesAccountedFor`). The tables of transfers and withdrawals have the key
   in a UNIQUE column and cannot move twice.
3. **The daily limit** (`pay_daily`) counts only SETTLED orders, outside the
   transaction: payments still SETTLING come on top.
4. **Top-up links credit nobody** (`billing_link`). The metadata of a link never
   names the VA account (`router.go:687`), and the webhook credits only when it
   does. The console's help (`help/query/route.ts:40`) says that the account is
   credited.

The next ones were met while modelling and have no run of their own.

5. **A retry with a new nonce.** The digest stored under a key contains timestamp
   and nonce (`router.go:2766`), so the retry that `backend/README.md:81` promises
   success to is answered 409; only an unchanged repetition succeeds, which is
   `ExactRetrySucceeds`.
6. **User administration.** The developer page lists and changes users at
   `/api/backend/auth/admin/users` (`console-api.ts:596`), which the proxy hands to
   the backend; the backend has no such route, and the one that exists is
   `/api/auth/admin/users`. Likewise the proxy exports no DELETE, so a channel
   route cannot be deleted. `ConsoleShell` has both as calls that always fail.
7. **Starter plans and top-ups.** The billing page lets an administrator check out
   with any plan that allows one of the two kinds (`billing.checkout.create`,
   `rbac.ts:96`) and offers both; the proxy then refuses a starter plan the top-up
   link (`route.ts:145-165`).
8. **Rules.** Setting a rule anew leaves a frozen one frozen. Freezing it twice within
   a second changes no column the second time, and the page is told that the rule is
   missing (`persistent_service.go:212`), although it exists.
9. **Links and messages.** The help's link to a reconciliation view names
   parameters (`help/query/route.ts:84-92`) the billing page does not read
   (`billing/page.tsx:42-47`). `lib/error-map.ts` explains AUTH-007 and
   AUTH-010 to AUTH-012, which no route sends, and has another text than the routes for
   AUTH-001 (they send it for a missing session too), AUTH-004 (a login of a
   disabled user), AUTH-008 and AUTH-009 (a plan or role that does not allow it).
10. **A replay told SETTLED.** `Pay` answers SETTLED for a marker whose order it
    cannot read (`persistent_service.go:591`), whatever the order is. As its
    prefix `idem:` (line 589) begins `idem:rch:` and the others, a payment with the
    key `rch:x` after a recharge with `x` is answered so without being made.
11. **A top-up's session overwrites the subscription.** The success URL of a
    top-up link (`router.go:688`) leads to the page that syncs the session
    (`billing/page.tsx:141-150`), and CheckoutSync (`router.go:427-492`) never looks
    at its mode: it writes the subscription as active with an empty number, over
    a cancelled one as well.
12. **A change during the first read.** An invalidation that comes while a list's
    first read is under way joins it (`developer/page.tsx:195-202`,
    `recharge/page.tsx:169`): an answer made before the change stays on screen after
    the page said that it was done.
13. **Overlap in the console.** Two creations of agents at once save one signing
    key and lose the other, two calls of a free plan may both pass the count, and two
    changes of users at once lose one. No document promises otherwise; the
    properties say that overlap is the only cause. Nor does one speak of 10 to 12, which
    the models contain and the properties name as their exceptions.

## Abstractions and what is not modelled

* Amounts are integers: units of the last decimal of DECIMAL(24, 8). That the code
  computes with `float64` before MySQL rounds is not modelled, nor that
  `AmountMinor` (`billing/stripe.go:390`) truncates, which loses a cent of 19.99.
* Identifiers made from `UnixNano` are taken to be distinct and increasing.
* A transaction is atomic and isolated on the rows it locks; deadlocks of InnoDB
  are rollbacks (`GiveUp`, or no step). `enqueueWebhookEventTx` executes an INSERT while
  the rows of its SELECT are open on the same connection; the model takes the driver to allow it.
* Payments settled at once by the channel enqueue no `payment.settled` event, in
  the code and in the model.
* The status and limit of a virtual card and the risk rules only refuse a card
  payment; `GiveUp` stands for the refusal, and the model also allows the payment.
* The webhook body, headers and signature are left out: a delivery is received or not.
* The gate is that of one process with a token configured. With several
  instances each has records and nonces of its own; what a second instance lets
  through is covered by `Restart`, after which this one remembers nothing either.
  The collection of expired nonces changes no answer and is left out.
* Billing: a subscription is a version number, a user has one, and its number and
  plan are part of the version. An event that is being handled is
  delivered again at most as often as `MaxMishaps` allows.
* A cookie is its claims; signatures and password hashes are left out, and whether a
  password is right is a choice. A request that comes while the users' file is
  truncated reads an empty store, as `readStore` returns one for a parse error;
  a partly written file is taken to be no valid JSON.
* An agent has an account or not: the agents page's second insert for a DID
  fails on the UNIQUE column, unnoticed, as the code ignores the result.
* The console's lists are sets of changes. Who else uses the backend is left out
  of them: a list shows at least what this tab announced, and the property says
  nothing of more.
* A page is left at any moment; a reload is a visit of the page it is on, from
  another page.

Not modelled: the components with that status in `PROJECT.json`, with the reason
for each; and of the console what the entries marked "partly" name. In short:
reads that nothing depends on, texts and layout, connections and files at start,
and the parts the plan below still holds.

## The plan

Done: the ledger and its escrow, the payment and fund movement handlers, webhook
delivery, the callback gate, billing, the console's users and its pages. What is
left, in this order:

1. `SignWorkflow` (M8): sessions and sign requests as a further operation of
   `PersistentPay`; a sign request pays once, or how often not.
2. `MemoryService`: the in-memory service as a second implementation of `Escrow`.
3. `Reconcile` (composes with `Ledger`): the three reads as steps; what an alert
   means.
4. `RuleLife` and `RefundApply`: extend `PersistentPay`.
5. `RateLimit`, the login throttle, `Cards` (M7).

Theorems next: `MemoryService` implements `Escrow`; abstract specifications of
webhook delivery and of the callback gate, which their modules then implement step
by step. Liveness stays with TLC.
