# NapKey: a verification project

NapKey sells access to language models by prepaid credit. Two Go services do the
work: **napkey-core** (`backend/napkey-core`), the control plane with the users,
keys, wallets, payments and the ledger in Postgres, and **kiro-go**
(`backend/kiro-go`), the data plane that authenticates API requests, asks the
core for a hold on the wallet, calls an upstream account and reports the usage.
A web console (`napkey-web`) is a client of both.

This directory holds TLA+ modules of the parts where the two services, their
retries, their background jobs, the upstream accounts and the customers meet;
TLC checks them on small instances, and TLAPS proves for every size the safety
properties of the wallet, of its repricing, of billing over it, of the keys, the payments, the
mailed links and the upstream accounts. Every definition is translated from the
Go and SQL; `PROJECT.json` maps each to its lines.

## 1. Inventory

### 1.1 Wallet, holds, promotional credit (`internal/store/wallet.go`, `usage.go`, `sessions.go`)

- *State*: `wallets` (balance, held, promotional part, its cached expiry), `wallet_holds`, `trial_grants` and `first_topup_bonus_grants` (what is left of
  each grant), `usage_records`, `ledger_entries`.
- *Operations*: `ReserveWallet`, `ReleaseWallet`, `settleWalletTx` (from
  `RecordUsage` and `SettleWallet`), `ReleaseExpiredHolds` and
  `ExpirePromotionalCredits` (hourly janitor), `expirePromotionalWalletTx`
  (inside reads, reservations and releases), the credits of payments and of the
  trial. Each is one transaction on the locked wallet row.
- *Hard*: three parties (release, settlement, janitor) race to close one hold;
  credit lapses while holds stand on it; four columns and two grant tables must
  stay in step through every order of operations.
- *Correct when*: held is the sum of open holds; nothing is overdrawn; what was
  admitted can be settled; a hold closes once; promotional credit is used before
  paid credit and leaves after it lapses; the ledger accounts for every micro.

### 1.2 Repricing (`migrations/0017…`, `migrate.go`)

- *State*: all amounts of 1.1. *Operation*: one migration restates them by
  400/75 with a floor, while holds may be open.
- *Hard*: floors of parts and floors of sums differ.
- *Correct when*: holds, balance and ledger agree through it, and what the floors
  lose is bounded and stays so.

### 1.3 Billing of a request (kiro-go `billing_client.go`, `usage_reporter.go`, `handler.go`, `main.go`; core `wallet_internal_handlers.go`, `usage_handlers.go`)

- *State*: the request's lease, the report queue (4096), four report workers,
  calls in flight, the process's mode; 1.1 behind it.
- *Operations*: `Reserve` (3 attempts), the response, `Report` (refused by a
  full or closed queue), `deliver` (retries with back-off), `releaseIfUnused`,
  drain (30 s), flush (15 s), end of the process.
- *Interaction*: HTTP in one direction; answers may be lost, a call may be
  executed after its caller gave up, and a call may be repeated.
- *Hard*: every retry meets the effect of an earlier attempt; the process ends
  with reports queued; a hold expires before its report arrives.
- *Correct when*: a charge is for a served request, once and at its cost; no
  request is served without a hold; holds come back.

### 1.4 API keys and their synchronisation (core `apikeys.go`, `key_handlers.go`, `admin_handlers.go`, `dataplane/sync.go`, `kiro/client.go`; kiro-go `admin_apikeys.go`, `config/apikeys.go`)

- *State*: the `api_keys` row (enabled, revoked, sync state, remote id, when it
  is next due), the entry in kiro-go's configuration, what each handler read
  before its call.
- *Operations*: create, update, revoke, quota, suspend and reactivate a user,
  each a database write followed by a push and a mark; the syncer claims
  unsynced rows and pushes them; `retireStaleKeys`.
- *Hard*: nothing keeps two actors apart between read, push and mark; calls are lost or late; a mark fails after its push succeeded; kiro-go
  fails to save what it changed in memory, and restarts from the file.
- *Correct when*: a key handed to a customer keeps working until revoked; a
  revocation is final and the entry goes; a synced row matches its entry; every
  difference is repaired in the end.

### 1.5 Payments (`wallet.go`, `billing_handlers.go`, `payments/worker.go`, `payments/reconciler.go`, `casso`, `payos`)

- *State*: `topup_orders`, `payment_events`, ledger rows keyed by transaction.
- *Operations*: create an order, attach or cancel its checkout, expire it when
  it is shown; the PayOS webhook credits in one transaction; the Casso webhook
  only journals, a worker claims with a five-minute lease and credits; a poll
  every 15 minutes journals what no webhook did.
- *Hard*: reports repeat, come late or never; two processes overlap in a
  deployment; a worker fails between claim and close; one order is paid in parts
  and by both providers.
- *Correct when*: money is booked once, on its order, for the credit it
  buys at that order's rate; closed events stay closed; every bank transfer is settled.

### 1.6 Accounts, sessions, sign-in (`auth_handlers.go`, `google_oauth.go`, `sessions.go`, `users.go`, `oauth.go`)

- *State*: `users`, `sessions`, `email_tokens`, `oauth_identities`,
  `trial_grants`, `auth_attempts`; in each handler, the row it read.
- *Operations*: register, ask for a link, verify, reset, log in, rehash, Google,
  change the password, log out, suspend; each several statements.
- *Hard*: two clicks on a link, two ways to the trial, a password verified
  before a reset and the session made after it.
- *Correct when*: a link works once; one trial is granted; a changed password
  ends the sessions it gave.

### 1.7 PostgreSQL wire client (`internal/pgwire`)

- *State*: per connection its transaction status, unread bytes, `bad`, the
  server's session behind it; the pool of `database/sql`.
- *Operations*: dial, TLS, SCRAM, prepare, bind and execute, drain, cancel on a
  connection of its own, begin, commit, roll back, reset, close.
- *Hard*: an error leaves replies to be drained; a cancellation arrives late;
  the line is cut before or after the effect; the pool retries `ErrBadConn`.
- *Correct when*: an answer is that of its own statement; what is reported done
  took effect once, what is reported failed may have but never twice.

### 1.8 Upstream accounts (kiro-go `config/config.go`, `pool/account.go`, `proxy/account_failover.go`, `proxy/handler.go`, `proxy/kiro_api.go`)

- *State*: the configuration in memory and on disk, the pool's copy of it with
  cooldowns and error counts, pointers requests hold into an older copy.
- *Operations*: choose an account, refresh its token under one mutex, call,
  fail over, penalise, disable; sweeps every half hour; the administrator's
  edits; reload; save.
- *Hard*: rotating refresh tokens; a pointer outlives a reload; a copy is
  written back after a refresh; a save fails after an exchange.
- *Correct when*: nobody uses a credential that is not saved; no write brings an
  old one back; a cooling account is the last choice; every request ends.

### 1.9 Enrolment of accounts (`auth/microsoft_sso.go`, `auth/builderid.go`, `auth/iam_sso.go`, imports in `proxy/handler.go`)

- *State*: sessions, pending selections, cancellation marks, each with its own
  mutex and timer; device logins; fingerprints of imported credentials.
- *Hard*: a login is cancelled or runs out of time while calls of it wait for
  any of five locks; a credential is imported again after it rotated.
- *Correct when*: a cancelled login adds nothing; one source makes one account;
  a credential in waiting is wiped.

### 1.10 Answers (`proxy/kiro.go`, `handler.go`, `responses_*.go`, `translator.go`, `cache_tracker.go`)

- *State*: the upstream stream's parser, the handler's view of it (open block,
  text held back for a tag), the stored responses, the prefixes remembered.
- *Operations*: translate the conversation, try endpoints and accounts, forward
  text, thoughts and tools in each client's protocol, store and continue turns,
  tell the cache's part of the input.
- *Hard*: streams break half way; tags are split by chunks; histories with
  parallel, orphaned or repeated tool calls; turns whose ancestors expired.
- *Correct when*: the client hears one attempt; events nest; nothing is lost or
  doubled; a continued conversation is replayed as far as it
  is stored and the depth allows; a cached price is for a prefix
  that was stored.

### 1.11 Admission (`proxy/auth.go`, `proxy/rate_limiter.go`, `config/apikeys.go`)

- *State*: keys with limits, quotas and usage; a fixed window per key.
- *Hard*: each lookup takes the lock for itself, and keys are edited in between.
- *Correct when*: no minute, however it lies, sees more than two windows' worth.

### 1.12 Not modelled

| Part | Why, and what would be stated |
| --- | --- |
| Price book (`prices.go`, `internal/pricing`) | one query and integer arithmetic without interleaving; other modules take costs as given |
| Alerts and reports (`operations.go`, `usage_admin.go`, `reliability`) | read only; what the wallet reconciler looks for is `BooksBalance` |
| Web search loop, 9Router and Gemini upstreams | sequential calls of external services behind the same admission and billing |
| Tool schemas, prompt filters, model names (`translator.go`) | conversions of data, suited to tests |
| Mail, console, scripts, design system | presentation |

## 2. Modules

```
Sums ──> Wallet ──> WalletProofs                       Escrow (abstract)
  │        ├─────> Reprice      │                         ^
  │        └─────> Billing ─────┴──> BillingProofs        │ INSTANCE
  └──────> Payments ──> PaymentsProofs      Wallet ───────┘
KeySync, Admission ──> KeySyncProofs  (keys: share no table with the wallet)
SignIn, PgWire, Reprice ───────────> MCCore ────────────> CoreProofs
AccountPool, Enrolment, Imports ───> MCDataplane ───────> DataplaneProofs
Streams, Responses, PromptCache, Translator, Admission > MCAnswers
Responses, PromptCache, Streams ───────────────────────> AnswersProofs
SumsProofs: facts about Sums, cited by the other proofs
MC<Module>: values of constants and symmetry for TLC
```

The three composites share no state in the models, only the run: a variable
`focus` says at the start which part a behaviour exercises, and the others rest
in one of their initial states. A behaviour of the composite is therefore one of
each component, and its states are the sum of theirs, not their product.

**Wallet** models one user's wallet. `wallet` is the row together with what is
left of each grant, `hold`/`amount`/`overdue` the holds by request, `lapsed` the
grants whose expiry has passed; `charged`, `credited` and `expiredOut` are the
ledger's sums by kind. Each store function is one action, because each is one
transaction that locks the row; a transaction that fails is a stuttering step.
`Expire` is the expiry helper that reads, reservations and releases run first.
A user's wallet is independent of any other's, so one user suffices.

**Escrow** is what the wallet promises the data plane: spendable credit, and for
each request one sum set aside, which is returned or charged once. `Wallet`
implements it with spendable credit mapped to balance minus held.

**Reprice** adds the migration as one action that may come at any point of a
wallet's life (the runner holds an advisory lock and one transaction).

**Billing** extends `Wallet` with the data plane. `stage[r]` is where kiro-go is
with a request, `calls` the HTTP attempts on their way. The core's handlers are
`Wallet` actions plus an `Answer`, which may be lost; `TimeOut` starts the next
attempt while the old one is still on its way; `LoseCall` and `CoreFails` are
the network's and the store's failures (`withTx` returns serialization failures
to the caller as 5xx, it does not retry them). `BeginDrain`, `StopReporter`,
`ProcessEnds` and `Restart` are `main.go`'s shutdown, in its order, and a crash.

**KeySync** follows one key. Each actor has a program counter `at`, what it is
doing `op`, and the row as it read it, `snap`; a handler's write, its push and
its mark are separate actions, as they are separate statements. kiro-go's
update handler reads the entry, lays the request over a copy and writes the copy
back (`Patch`, `Execute`). `remote` is the entry in kiro-go's memory, `stored`
the one in its file. `ExecuteUnsaved` is a change whose save fails: `AddApiKey`
rolls back, `UpdateApiKey` and `DeleteApiKey` answer an error with the change
made in memory, and the retry of a removal finds nothing and answers success
without a save. `SaveOther` is any later save, which writes the whole
configuration, and `KiroRestarts` reads the file again; `unsaved` remembers that
a removal was not saved.

**Payments** follows the orders and transfers. A transfer's number stands for
the provider's transaction id, so `event[t]` is its `payment_events` row. The
PayOS webhook is one action because it is one serializable transaction; the
Casso path is journal, claim, and close, with `leaseOver` for the five-minute
lease and `holding[w]` for what a worker remembers. Money is turned
into credit by `walletCreditMicros` (`CreditMicros`, `Convertible`): at the rate
of the order, divided before it is multiplied, and with an overflow that fails
the transaction, after which the event is claimed again when its lease is over,
for ever. An order may have received money before the last repricing, and keeps
its rate (`RateOf`). What a transfer names when
`ExtractMemoCode` finds no memo, or a memo no order has, is `Nowhere`.

**SignIn** follows one e-mail address. A handler `hand[q]` is a
sequence of statements with what it read in between (a login counts the
attempts, records its own, reads the user, verifies, makes the session and
clears the attempts, each of which may fail by itself); sessions are known by the handler that
made them; `knew[s]` is how many password changes the login of session `s` had
seen.

**PgWire** models the client's half of each connection (`conns`), the session
behind it (`server`) with messages on their way in `inbox` and out, callers with
a job each, and `table`, how often each statement took effect. Encoding and
decoding of a value are the functions `EncodeParam`, `DecodeValue` over its
shape and width, not the identity. The pool of `database/sql` is external.

**AccountPool** gives every account a credential version; an exchange makes the
next one and the provider accepts only the latest. `conf`, `disk` and `pool` are
the three copies, `actor[p].snap` the copy a goroutine works with, `live` says
whose pointer is into the present slice. `ApiAddAccount` gives an id to an
account with the credential of a later login; `reused` remembers the ids given
again while a refresh of the account before was on its way.

**Enrolment** models each HTTP call of the Microsoft login as a goroutine that
waits for `session.mu`, `selection.mu` or the flow lock, with timers that fire
as soon as time allows; `evicted` remembers the logins whose cancellation mark
gave way to another's; **Imports** the device logins and the import handler.

**Streams** numbers every upstream stream, so that each piece the client hears
can be traced to one; text is a sequence of atoms in which the two halves of the tags may be cut apart; a tool's fragments are
put together by id and name. **Responses** stores turns as documents, of which
some are from days before, replays `MaxDepth` ancestors and keeps the history of
what was said. **PromptCache** has prefixes for hashes, minutes for
times. **Translator** turns a growing conversation into a payload with the
operators `ClaudeToKiro` and `OpenAIToKiro`. **Admission** has each lookup of
`authenticate`, the reading of the limits and the window apart, as each takes
the lock for itself.

Definitions under a comment *Mutation:* are faulty variants of the operator that
follows them. Nothing refers to them; substituting one for its operator breaks
the property `PROJECT.json` names, which shows the property depends on that part
of the code.

## 3. Runs

| Run | Instance | States | Question |
| --- | --- | --- | --- |
| `wallet` | 2 requests of 1–2 micros, trial 2, older bonus 0 or 1, payments of 3, at most 6 credited | 78 thousand | Grants, admitted costs, the refinement of `Escrow`, and the two liveness properties |
| `billing` | 2 requests, 2 attempts each, queue of 1, one worker, at most 2 credited | 992 thousand | Charges, holds and acknowledgements over an unreliable network with restarts |
| `billing_live` | 1 request, the same limits | 2 thousand | Requests end and holds come back |
| `keysync` | 2 concurrent handlers and the syncer, 3 requests, 1 late call, 2 failures | 2.5 million | A handed key is kept, revocation is final |
| `keysync_live` | requests and passes one at a time, 6 requests, 2 failures | 19 thousand | A synced row matches its entry; every change, removal and half-made key settles |
| `payments` | 2 transfers of 1, 2 or 6 for orders of 2; one PayOS order at rate 3, one older order at rate 2 that has received 1; 8 micros fit; 2 workers, 1 failure | 331 thousand | Money is booked once, on its order, at its rate, and arrives |
| `dataplane` | pool: 2 accounts or 2 requests, one mishap or one edit, up to 2 deletions and additions, 3 credentials; enrolment: 2 calls of 2 logins with one mark; imports: 2 calls, 4 tokens | 113 thousand | Credentials, cooldowns, cancelled logins, repeated imports, and that work ends |
| `core` | sign-in: 3 handlers, 2 links, 2 passwords, 1 fault; wire: 2 callers of 4 jobs, 2 connections one at a time, 1 cut; wallet: 2 requests, one migration | 2 million | Links, trials, answers, effects, and the wallet through the migration |
| `answers` | streams of 4 events over 2 accounts; 2 stored turns and 2 new ones, one ancestor replayed; 3 requests of the cache in 8 minutes; conversations of 4 messages; 2 visitors with one key | 1.6 million | The questions of 1.10 and 1.11 |
| `keysync_removal` | as `keysync` | until found | the row waits for the removal (refuted) |
| `sessions_reset` | as `core` | until found | a reset ends every session of the old password (refuted) |
| `tool_results` | as `answers` | until found | every current result is attached to its call or told as text (refuted) |

**Why the bounds are enough.** The wallet's hard cases need a hold protecting
credit from another request's expiry (two requests), two grants of different
expiry, amounts smaller than, equal to and larger than a grant, and a payment to
raise the balance afterwards; a third request repeats the second's role. The
proofs remove the bound on all of these. In `billing`, two attempts show every
retry that meets an earlier effect (the code's three reserve attempts and four
usage attempts repeat it), a queue of one is full with two requests, and
restarts are unbounded. In `keysync`, two handlers and the syncer make every
pair of stale readers; one late call and one failure make each refutation and
suffice for the races between a push and a mark, a second failure for a save
that fails and the restart that shows it. In `payments` two transfers
make every pair on one order: partial then full, both providers, the same
checkout twice; two workers hold one event together after a lease has ended.
The amounts of 1, 2 and 6 at the rates 3 and 2 give conversions that are exact,
that drop part of a micro and that do not fit.

In `dataplane` the pool's hard cases need two goroutines at one account
(two requests, or one and the sweeper or administrator) or two accounts to fall
back between, and one thing that goes wrong; the start says which of these,
as their product adds only pairs of independent events. Two deletions and
additions and a credential past those of one exchange make the case of an id
that is given again while the account before is refreshed. Two calls of two
logins are a callback and a cancellation, or two cancellations of which the
second takes the first one's mark, the process having room for one. In `core` two callers meet on one
connection after the other, which is where unread replies, an open transaction
or a late cancellation could pass over; a handler of sign-in meets two others.
In `answers` four upstream events make a tag split in two with text and a tool
around it; two accounts and two tries make every failover; two turns stored before and two new ones make a chain that is
longer than the depth (one ancestor), one whose middle has expired, and one that
was never stored; a clock of 8 lets a prefix of 5 lapse, and of one
minute and a half lets two windows overlap any minute.
`CHECK_DEADLOCK FALSE` is set because each bounded behaviour ends: requests,
transfers or credit run out and the system rests.

**Fairness.** Assumed only of what the code schedules or time does. `Wallet`:
the janitor runs every hour and clocks pass expiries. `Billing`: handlers return,
HTTP attempts time out, upstream calls end, workers take the next report, the
janitor runs; calls may be lost for ever and the process need not come back.
`KeySync`: statements of a handler return and calls time out, the syncer sweeps,
and kiro-go answers the syncer in the end if it is asked again and again
(strong fairness: without an answer at all no repair is possible).
`RetireStaleKey` needs strong fairness because a sweep comes to it only after
its claims. `Payments`: workers poll, leases end, no event is passed over
for ever (strong fairness: an event that failed is out of sight for five
minutes, and workers poll every two seconds), and the poll sees a transfer
once before it leaves the 24-hour window. No webhook is assumed to arrive.
`dataplane`: a request's own statements go on, and the mutex of the refresh is
obtained in the end by who waits for it (strong fairness: Go's mutex does not
starve a waiter); in `Enrolment` the timers fire, calls go on, and the providers
answer because every call has a timeout. The composite's `focus` leaves the parts
at rest without an enabled fair step.

### The properties

- *Wallet.* `GrantsBackPromo` and `ReservedCostSettles` are what a reservation
  rests on and guarantees; `EveryHoldCloses` and `LapsedCreditLeaves` are
  liveness. `HeldIsSumOfOpenHolds` and `BooksBalance` are run
  through a repricing in `core`, with `HoldsSettleButForAMicro`, which says what
  takes the place of `GrantsBackPromo` and `ReservedCostSettles` once the
  migration has floored the grants; all three are proved of it. `TypeOK`,
  `WithinBalance`, `ClosedHoldsStayClosed`,
  `NoReservationOnLapsedCredit` and `PaidCreditSpentLast` are only proved.
- *Billing.* `OnlyServedIsCharged`, `ServedUnderHold`, `AnsweredLeavesNoHold`
  and `AcknowledgedIsPaid` tie what kiro-go believes to what the core holds, and
  are proved; `RequestsAndHoldsEnd` is liveness.
- *KeySync.* `HandedKeyKept` and `RevokedForGood`, which are proved; serially
  `SyncedMatches`, and `ChangesSettle`, which is liveness.
- *Payments.* `LedgerMatchesEvents`, `OrdersMatchMoney` and `TransfersArrive`;
  `CheckoutCreditedOnce` and `ClosedEventsStay` are only proved.
- *Upstream accounts.* `PublishedIsPersisted`, `CredentialsNeverRegress` and
  `RestedFirst`, which are proved, as is `AccountsAreWanted`, and `WorkEnds`. They
  except what the code cannot promise (section 4): the first two an id given to
  a new account while the old one is refreshed, the fourth a login whose mark
  was evicted. Without their exceptions TLC finds each violated in this run.
- *Core.* `LinksAreSingleUse`, `AnswerIsItsOwn`, `EffectsAsReported`, all proved.
- *Answers.* `OneWellFormedAnswer` for Claude and OpenAI clients (`AnswerFromOneStream`
  and `BlocksWellFormed`), `OneWellFormedReply` for those of the Responses API
  (`ReplyFromOneAttempt` and `ItemsWellFormed`), `AnswerIsIntact` for the text of the streams, `ConversationIsWhole`,
  `CacheReadWasStored`, `TranslationIsSound` and `MinuteBudget`; those of the
  Responses client, of the cache and the last are proved.

## 4. Where the code and its documentation disagree

Each is a run that must end in a violation:

1. `keysync_removal` — `MarkKeySynced` has no condition on the row. The mark of
   a push that began before a revocation overwrites `delete_pending`, and
   nothing removes the entry from the data plane.
2. `sessions_reset` — a login verifies the password in one statement and makes
   the session in another. A reset in between drops every session but that one,
   which was obtained with the old password.
3. `tool_results` — Claude's form attaches the current results whenever the
   message has an image, although they answer no call; when the message has text
   and no image, results that answer no call are in neither place.

Observed while modelling, without a run of their own.

*Wallet, keys, payments*
- Migration 0017 floors the promotional column and each grant separately
  (`0017…:17-24`). With two grants they can come out one micro short of the
  column, and `consumePromotionalGrantsTx` (`wallet.go:78-80`) then refuses a
  settlement that needs that micro as "drifted": grants of 2 and 1 under a column
  of 3 become 10 and 5 under 16, and a request that reserved 16 cannot be settled
  for it. Once 15 are spent or have lapsed, the column is left at 1 with no grant
  behind it, and every later settlement is refused.
  `HoldsSettleButForAMicro` says that this is all that is lost.
- After a failed push the syncer's own push replaces the tagged name by the
  customer's (`dataplane/sync.go:127`, against `key_handlers.go:334-336`);
  requests of that key are then neither reserved nor reported.
- kiro-go's `DeleteApiKey` takes the entry out of memory before it saves
  (`config/apikeys.go:125-128`). When the save fails it answers 500; the retry
  finds nothing, answers success without a save (131), and the core forgets the
  row. Until another change is saved, a restart brings the revoked key back, with
  no row that points at it. `ChangesSettle` excepts it (`unsaved`). `UpdateApiKey`
  keeps its change in memory likewise (106-114), which the syncer's next push
  saves.
- An edit that passed its session check before a suspension enables the key
  after it (`apikeys.go:263`, against `users.go:134-136`).
- A checkout link has no expiry, but its order expires when somebody looks at it
  after 15 minutes; the full payment is then filed as rejected
  (`wallet.go:593`), while DESIGN.md:218 says late money must reach the wallet.
- A bank transfer that `walletCreditMicros` cannot convert fails its transaction
  each time its lease is over and never gets a status that says so
  (`wallet.go:737-740`). Parts of one order are converted one by one, so each may
  lose a fraction of a micro (`wallet.go:177-182`).
- A login counts the attempts, records its own and reads the user in three
  statements (`auth_handlers.go:159-173`), and a count that fails lets it in
  (`underLimit`, 548-567): logins that come together can exceed the limit of
  attempts, and no property claims that they cannot.

*Upstream accounts*
- An edit with a stale copy enables an account that was banned meanwhile; a
  usage query that succeeds clears a ban; `RefreshAccountInfo` bans without a
  reload, so the pool keeps choosing the account until the next one.
- `ResolveProfileArn` (`kiro_api.go:257`) exchanges tokens outside the mutex the
  other exchanges share.
- `UpdateAccountCredentialState` finds the account by its id alone
  (`config.go:949`), and `apiAddAccount` takes an id from the client
  (`handler.go:2831`). A request exchanges a token; before it saves, the
  administrator deletes the account and adds it again under the same id with the
  credential of a new login. The request then saves and publishes the earlier
  one over it. `PublishedIsPersisted` and `CredentialsNeverRegress` except these
  ids (`reused`); without the exception both fail in the run `dataplane`.
- The marks of cancelled Microsoft logins are limited to 128, and the next one
  evicts the oldest (`handler.go:3601-3611`). A call of the evicted login that
  waits for its profiles then finds no mark and adds the account. Calls end
  within minutes, so it takes 128 cancellations in that time.
  `AccountsAreWanted` excepts these logins (`evicted`); the run has one mark for
  two logins, and fails without the exception.
- An import whose profile cannot be verified after the exchange drops the token
  the provider just rotated (`handler.go:4140-4165`).
- A Microsoft session discarded during a call may keep its secret until the call
  ends.

*Wire client*
- A deadline that passes while `readMessage` blocks is not looked at until a
  message comes, so a call on a mute server outlives its context (`conn.go`,
  `doc.go` claims cancellation); a late `CancelRequest` may hit the next
  caller's statement on that connection, which then fails, though never silently.
- The binary encoding follows the Go type, not the parameter's; `PrepareContext`
  takes a notification for an unexpected message.

*Answers*
- Text held back for a tag may be overtaken by a thought that comes as an event;
  streaming and buffered handlers disagree on an unclosed `<thinking>`; a tool
  inside a thought in tags ends the thought.
- In the Responses API text after a tool reopens an item with the id of the
  first and all text so far; thoughts in tags are streamed and only stripped
  from the final object.
- A stored turn keeps its text before its tools, in whatever order they came, and
  is replayed so. Its parallel calls come back as assistant messages of their own
  (`responses_history.go:91-103`), of which `OpenAIToKiro` keeps only the last
  structured, while `responses_parallel_test.go:8-12` tells that
  the upstream rejects parallel calls split into turns of their own. Turns beyond 64 ancestors are dropped
  without a word (`responses_history.go:7,54`); `ConversationIsWhole` speaks of
  the others.
- When the client sends nothing but tool results, what they say is cut at 4000
  bytes, unmarked (`translator.go:1833-1834`).
- The cut to the size limit keeps the active tool turn as "the most recent turns"
  (`translator.go:1682-1684`, and `translator_test.go:100-104` says the upstream
  rejects results without their call), but of the turns it keeps it trims the
  assistant's at the front, and where all are the assistant's the active one goes
  with them (`NoTurnLeft`) and its results stay attached.
- Results answered beside images stay structured in the history
  (`translator.go:1547-1551` and `translator_compaction_test.go:11-13,39-49` would
  have only the active turn structured).
- OpenAI's form loses unmatched results beside images; the `developer` role is
  dropped.
- The cache's 5-minute and 1-hour parts need not add up to its creation tokens,
  and billable, read and written tokens can exceed the measured input.
- A restart forgets the limiter's windows; within one life of the process the
  bound is twice the limit in a minute, not the limit.

*Narrower*, or contradicting only a comment's wording: a settlement does not run
the expiry it makes possible (`wallet.go:203` against 391–420; the next read, reservation or janitor
pass does); a report counted as dropped may have been recorded
(`usage_reporter.go:200` against 286); a key whose `MarkKeySynced` failed after
creation looks like one that never arrived, so the syncer revokes it
(`key_handlers.go:176` against `sync.go:179-197`); a quota push marks the row
synced although it does not carry `enabled` (`admin_handlers.go:158`), which is
why `keysync_live` leaves quota out of `Kinds` while `keysync` includes it; a
genuine Casso delivery that does not verify, because its timestamp is more than
five minutes off or the secret is not configured, is filed under its transaction
id and hides the transfer from the poll (`billing_handlers.go:197`), which is
why `TransfersArrive` allows `rejected`.

## 5. Proofs

The wallet's assumption is `WalletAssumption` (any number of requests, any positive amounts
and payments, any grants), which TLC evaluates in every run of `Wallet`.

`WalletProofs` proves, for every value of the constants, that `Spec` implies
`TypeOK`, `HeldIsSumOfOpenHolds`, `WithinBalance`, `GrantsBackPromo`,
`ReservedCostSettles`, `BooksBalance`, and the three action properties.
None of the invariants is inductive alone: that a settlement does not overdraw
needs held to be the true sum of holds; that the expiry of a grant leaves the
column in step needs each grant to be non-negative and the cached expiry right;
and that the cached expiry is right needs grants to lapse in the order of their
expiry. So the inductive invariant `WalletInv` is the conjunction of the
five state invariants that describe the rows, with `LapsedInOrder`. The proof
has one lemma for each action (`StepReserve`, `StepCloseHold`, `StepSettle`,
`StepExpire`, `StepTopup`, …), each showing the conjuncts that action disturbs.
They rest on lemmas about what `ConsumeGrants` takes from the grants
(`ConsumeFromAll`, `ConsumeFromLapsed`) and about what `Expire` does to any
consistent row (`ExpireRow`). `ReservedCostSettles` follows from `WalletInv`
without being part of it.

`SumsProofs` shows that the recursive function behind a SQL `sum()` is well
defined, bounds each term and changes by the difference when one term changes.
The last part of `WalletProofs` shows that `Wallet!Spec` implements
`Escrow!Spec`: initial states map to initial states, and every transaction maps
to a step of `Escrow` or to a stutter.

The part of `CoreProofs` about the wallet carries it over the migration, from
`RepriceAssumption` (two positive prices, the new one not lower) and
`WalletAssumption`.
`GrantsBackPromo`, and so `WalletInv`, does not survive it. What does is
`WalletSound`, the same invariant with "the grants hold no more than the column"
for "exactly the column": the lemmas about single transactions are stated for
it, and each also shows that its transaction leaves what is missing (`Short`) as
it was, so that `WalletInv` is inductive because nothing is missing at first. The
migration is then arithmetic on floors: `ScaledOfSum` (the floor of a sum is that
of its parts or one more), from which follow `ScaledIsMonotone` and, by induction
on the partial sums, `ScaledSum` (holds floored one by one fit the held column
floored). The invariant `RepriceInv` adds to `WalletSound` that one micro may be
missing after the migration and none before it.

`PaymentsProofs` proves, from `PaymentsAssumption` (any number of transfers,
orders, workers and failures, any positive amounts), `PaymentsTypeOK`,
`LedgerMatchesEvents`, `OrdersMatchMoney`, `CheckoutCreditedOnce` and
`ClosedEventsStay`. That the conversion is short of the exact value by less than
a micro, at any rates, is arithmetic on its two divisions (`CreditRounds`). The inductive invariant `PaymentsInv` joins the state
properties with two facts they need: `EventsHaveTransfers` (only what happened
has an event and only Casso's wait for a worker, so that a worker never credits
a checkout), and `CheckoutsPaid` (a credited checkout has paid its order, so the
next one is a duplicate). PayOS overwrites the received amount where Casso adds
to it; that this is the same follows from `OrdersMatchMoney` for a pending
order. Every action is reduced to one of two lemmas, `StepWithoutCredit` and
`StepWithCredit`. The uniqueness of the ledger's idempotency key (`Bookable`) is
never needed in the proof: the events alone keep the money from being booked
twice.

`BillingProofs` rests on `BillingAssumption` and `WalletAssumption` (any number
of requests, attempts, queue slots and workers, any amounts).
`BillingImplementsWallet` shows that the two services together only do what
`Wallet` alone may do, so each of its theorems holds under retries, lost calls,
drains and crashes. The four properties of billing are not inductive, because an
attempt may reach the core long after its sender gave it up. `BillingInv`
therefore says of every call on its way which stages its request may be in
(`CallFollowsStage`: a release is only under way for a request that will not be
reported, and a report only for one that was served), and of every stage what the
core may hold (`HoldFollowsStage`) and may have recorded (`RecordFollowsStage`).
One lemma for each action shows that the two stay together.

`KeySyncProofs` rests on `KeySyncAssumption`. `HandedKeyKept` (also of
the file) and `RevokedForGood` hold although nothing keeps handlers, the administrator and the
syncer apart, and the invariant `KeyInv` says why: a call is awaited by one actor
(`CallsAwaited`); until the one creation of the key is over, nobody else creates
it or hands it out (`CreationAlone`); and whoever removes the entry works for a
row that is revoked or was rolled back (`RemovalsOnlyOfRevoked`), which no
statement can undo, because revocation is final. A failed save takes nothing from
the file, and a restart nothing from memory that the file has: with a live key
handed out both have the entry, whatever else differs between them.
`SyncedMatches` needs more and is false in general (section 4); where requests
and passes come one at a time and the administrator sets no quota, as in
`keysync_live`, TLC checks it.

Its other part is about what keys are admitted to. From `AdmissionAssumption` (any
keys, visitors and numbers, a window of at least one instant), it proves `MinuteBudget`.
That a window's counts respect the limits says nothing about the past: the
windows before it are gone from the table. `LimiterInv` therefore speaks of the
history of admissions. Each belongs to the window it was counted in
(`since`), two windows of one key begin at least `WindowLength` apart, the
window in the table is the key's last and counts exactly the admissions of its
own, and each admission fitted, with all that came before it in its window,
under the limits that visitor had read (`LimitsKept`). The last admission of a
window so bounds the whole window, also when the limits were edited since. A
minute touches at most two windows (`TwoWindows`: a third would begin more than
`WindowLength` after the first), which gives the factor two. The sums rest on
three lemmas of `SumsProofs` (`SumUpToNext`, `SumUpToAdd`, `SumUpToGrows`).

`CoreProofs` begins with the wire client, of which it proves `AnswerIsItsOwn`,
`EffectsAsReported` and `PgWireTypeOK` for any number of callers, connections
and cuts. It rests on three assumptions:
`PgWireAssumption` (finitely many callers and connections, `NoConn` is none of
them); `GreetingsAssumption`, what PostgreSQL may send at startup (ready once, as
the last message, outside a transaction); and `ArgsAssumption`, that a parameter
sent in binary has the Go type its column's type asks for. The last is a limit of
the driver, not of the proof: `encodeBinaryParam` follows the Go type and the
server would read other bytes than were meant (section 4). The properties speak
of what a call returned; the invariant `PgWireInv` says at each point of an
exchange what the caller, the connection it holds and the session behind it know
of one another. `Owned`: a connection in use is one caller's. `SessionsOK`: an
idle connection has nothing unread and knows its session's transaction status,
and a session has work open only for callers that run a transaction. `EffectsOK`:
a statement that has not been sent cannot take effect, one that was may take
effect through one session only. `CallsOK` has the exchange itself: what is left
to read is at most one row and one end, an error only comes first (`UnreadOK`),
and the rows a loop has collected are those of the caller's own statement
(`ReadingOK`, `ReturnedOK`). Both sides meet in two lemmas: `OneCall` (a step of
one caller on one connection keeps the invariant if it keeps that caller's part)
and `OneSession` (so does a step of one session); `CancelArrives`, `SessionEnds`
and `Cut` have lemmas of their own, because they strike a session whose caller
does not expect it. That a reply has one of four forms, and what each leaves on
the line and in the tables, is settled once (`Failed`, `Succeeded`, `Copies`,
`Executed`).

Its part about sign-in proves `SignInTypeOK` and `LinksAreSingleUse` from
`SignInAssumption` for any number of requests, links and passwords. That a link
works once is not inductive: `LinksOK` adds that a link which is live, or not
yet issued, has not been accepted. `RowsOK` and `HandsOK` give the shape of what
a handler carries between its statements; `ConsumeIsOnce` and `TrialIsOnce` are
the two steps that matter, each of the other actions has a short case.

The end of `CoreProofs` puts the three together: `CoreTypes` is
`CoreTypeOK` for `MCCore`'s `CoreSpec`, whatever the constants.

The first part of `DataplaneProofs` is about the pool and rests on
`PoolAssumption` (any accounts, requests, limits, tasks and mishaps; at least one
account, and names of goroutines that differ).
`PoolTypes` and `RestedAreFirst` hold for all of them. The credentials need the
invariant `VersionsOrdered`: configuration and disk always have the same
credential of an account, at most the provider's, and the pool's copy, the
sweep's and every goroutine's are at most as new (`CopiesBehind`); a goroutine
between exchange and publication holds the mutex, and what it has in hand is at
least the stored credential before the save and at most that after it
(`HoldsOK`). A crash then changes nothing of the credentials, and a failed save
restores what was there. The addition of an account under an id
whose former account is still being refreshed breaks the third part, which is
the sequence of section 4: the invariant says it of the ids outside `reused`,
and `reused` has every such id, because a goroutine that refreshes one is found
by `BeingRefreshed` at the addition. An id can be given again only by the client;
those the code generates (`GenerateAccountID`) never are.

The second part is the Microsoft login, from `EnrolmentAssumption` (positive
limits, at least one login, any calls). `EnrolTypes` needs the shape of each
table alone (`EnrolInv`), and lemmas about the marks: adding one after another
was dropped or removed keeps them distinct and within the limit
(`UnmarkedSequence`, `TailSequence`). `CancelledAddsNothing` needs `NoneLeft`,
which follows a login from its cancellation on: it stays marked until the
cancellation is answered; from then on it is in neither table (`Withdrawn`), and
is marked still or no call is about it, so that nothing is left that could add
its account. A login whose mark
gave way to another's (`evicted`) is the exception (section 4), and the invariant
is about the others: no mark leaves the table but by its own time, when the calls
about it have ended, or by eviction.

The third part, from `ImportsAssumption`, proves `SourcesImportedOnce`. It needs
that the fingerprint of an account is that of the token imported, whatever the
account refreshes with, and that a token which was not issued yet is nobody's.
`DataplaneTypes` and `OnlyWantedAccounts` join the three parts for
`MCDataplane`'s `Spec`.

`AnswersProofs` is about three more of the five components of the run `answers`.
Its first part, from `ResponsesAssumption`, proves `ReplyFromOneAttempt`,
`ItemsWellFormed` (together `OneWellFormedReply`) and `ResponsesTypeOK`. `ItemsWellFormed` counts the items begun
and done before each position, which no step leaves alone; `Heard` says the same
of every prefix by what is open there (`Nested`), so that an event appended needs
one look at the end (`ItemAppended`), and `HeardIsWellFormed` leads back.
`ReplyInv` ties the client's side to the handler's: what was heard so far has as
many items as `reply.index` says and one open when `reply.open` does, nothing was
said before an attempt has started, and all that was said was said by the attempt
at hand. It is the guard of `ReplyBreaks` (no further account once something was
sent) that keeps the last of these.

Its second part, from `PromptCacheAssumption` (any accounts, requests and clock,
and prompts of blocks, whatever their cache controls say), proves
`CacheReadWasStored` and `PromptCacheTypeOK`. The property speaks of a request that reads, the
table of prefixes in between. `CacheInv` says of every entry what the history
says of it: some request with that prefix stored it on this account, and it
expires one lifetime after such a request last stored or found it (`EntryOK`).
The readers differ from the writers because a request is never on an account
twice (`UsesOK`); an hour's lifetime is only given where a prompt asks for one.
What is left is about prompts. The profile of a prompt lists its breakpoints
(`ProfileTypes`), a read is bounded by the last of them that is known and by 85
in 100 of the whole (`ReadsAreHits`), and two prompts with a fingerprint in
common have so many tokens in common (`SharedPrefix`); a hash of each block
alone would not give this. `FlattenSeq` is defined by a recursive function;
that it exists, and what it yields, is shown with the least number for which it
would not (`FlatExists`, `FlattenTypes`).

Its third part, from `StreamsAssumption` (any chunks, tools, attempts and
endpoints, and `Keep` no more than either limit on what is held back), proves
`OneWellFormedAnswer`, `AnswerIsIntact` and `StreamsTypeOK`. The first is again
restated so that an event appended needs one look at the end: `BlocksAre` says
which block is open and how many there were, `MarksAre` whether one of the tags
shown around thoughts is open. The second compares the handler, which takes tags
out of what it holds back and shows the rest when there is enough of it, with a
reader of one character at a time (`Split`). What a state holds back has a
meaning of its own: `Reads` is a reader that has put out what the client got and
goes on with what is held back. Passing a tag (`PastTagIs`), showing what is safe
(`TakeTextIs`, `TakeThoughtIs`) and the loop over both (`DrainIs`) leave `Reads`
as it was, and a chunk changes it as it changes the reader of the stream
(`TextIs`). The two could part only at half a tag: when its other half comes, the
reader takes the first half back, but a handler that has sent it cannot. While
more text may come this is ruled out by `Keep`, which is at least one atom, and
`Ahead` says so; where all is sent, a tool follows or the stream has ended, and no
tag goes on. `StreamInv` states, by where the call is, that what was said comes
from the stream at hand and that `Reads` is what this stream has brought; while a
stream has brought no output, nothing was said. That a stream which has
shown something is not tried again is the guard of `StreamCut`. The limit on the
streams of a request is an invariant of its own (`Counted`): they never outnumber
the accounts, endpoints and tries used up so far (`Used`). `SplitAll`, `Drain` and the
collecting of tools are recursive functions, whose values are found as those of
`FlattenSeq` are.

What stays with TLC: all liveness (`EveryHoldCloses`, `RequestsAndHoldsEnd`,
`ChangesSettle`, `TransfersArrive`, `WorkEnds`), whatever needs `ENABLED`, and of
the run `answers` `ConversationIsWhole`, `TranslationIsSound` and `AnswersTypeOK`
(its parts for `Admission`, `Responses`, `PromptCache` and `Streams` are proved,
`TranslatorTypeOK` is not). The first two say what folds make of a conversation,
and the folds of the community modules take the step as an operator, which the
provers cannot instantiate. The theorems about `Admission`, `Responses`,
`PromptCache` and `Streams` are about each by itself; the composite has one
component more, and no theorem is about it.

## 6. What the modules leave out

- *Wallet*: reads that change nothing, `GetWallet`'s own text, other users, the
  lock order of the janitor (one user at a time). `SettleWallet` is exported and
  has no caller; it is modelled because its transaction exists.
- *Billing*: 4xx answers to malformed reports, streaming, keys without a tag in
  their name and deployments without billing (neither reserves), the cost's
  computation. Promotional credit stays in `Wallet`'s own runs.
- *KeySync*: the per-user limit on keys, names and limits other than the tag,
  `DetectDrift` (read only), several syncers. `next_sync_at` is only "due some
  time" or "parked".
- *Payments*: signatures and payload errors beyond their verdict, the range check
  of amounts on arrival (`MicrosFromVND`), repricings while orders are open (one
  has happened before), `wallets` rows (the ledger
  rows stand for them; `Wallet` has the balance), amounts outside the supported
  range. One bank transfer reported by both Casso and PayOS would be two
  transfers here, as it is to the code, which keeps the providers' ids apart.
- *SignIn*: hashing, mail, limits by address, the audit log. *PgWire*:
  notifications, the text of values, COPY beyond its refusal.
- *AccountPool*: weights, the choice among ready accounts (any), statistics
  beyond a count. *Enrolment*: the limits on pending
  sessions and selections are not reached with two logins; the providers' pages. *Imports*: the formats.
- *Streams*: token counts, refusals, web search, the Responses API's own stream
  (which is in `Responses`). *Translator*: tools, models, filters, bytes (sizes
  are numbers of parts). *PromptCache*: hash collisions. *Admission*: the
  estimate of a request, saves that fail.
- Transactions are atomic in all modules but `PgWire`, which is what carries them: the store uses serializable isolation
  or row locks in each.

## 7. Plan

Done, in this order: `Sums`, `Wallet` with its proofs, `Escrow` with the
refinement, `Reprice`, `Billing`, `KeySync`, `Payments` with its proofs,
`AccountPool`, `Enrolment`, `Imports`, `SignIn`, `PgWire`, `Streams`,
`Responses`, `PromptCache`, `Translator`, `Admission`; then the proofs of
`Billing`, `KeySync`, `AccountPool`, `Reprice`, `SignIn`, `PgWire`, `Enrolment`,
`Imports` and the two composites, `Admission`, `Responses`, `PromptCache` and `Streams`. Next:

1. An abstract specification of a prepaid request (quoted, held, served,
   charged or returned) that `Billing` implements.
2. `Translator` and the conversion of input items in `Responses` with recursive
   functions in place of their folds, after which `TranslationIsSound` and
   `ConversationIsWhole` could be proved.
