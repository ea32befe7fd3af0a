# Kudi: a verification project

Kudi is a stablecoin-to-naira wallet: users receive USDC/AUSD on Solana and
Monad, hold a balance in Kudi's ledger, and send it to other users, to naira
bank accounts or to addresses on a chain. This directory models the parts that
move money and the parts that decide who a user is, what he is shown and which
accounts are his; it model-checks them with TLC, and proves the central
properties with TLAPS. Paths below are relative to the repository (`src/` in the
module map of `PROJECT.json`).

1. [Inventory](#inventory)
2. [Modules and their correspondence to the code](#modules)
3. [What each run checks](#runs)
4. [Fairness](#fairness)
5. [What is proved](#proofs)
6. [What is not modelled, and the plan](#plan)

## Inventory

| Component | State it keeps | Operations | Hard behaviour |
|---|---|---|---|
| **Ledger** (`apps/api/src/services/ledgerService.ts`, Postgres tables of `packages/database/prisma/schema.prisma`) | `BalanceAccount`, `LedgerEntry`, `SpendLimitEntry`; in memory `ledger`, `spends`, `users` | `debitBalanceAtomic`, `creditBalanceAtomic`, `releaseSpendLimitEntry`, `ensureBalanceAccount` | concurrent transactions at READ COMMITTED, an idempotency check outside the lock, caches lost on restart |
| **Crypto withdrawals** (`ledgerService.createWithdrawal`, `apps/worker/src/processors/cryptoWithdrawalProcessor.ts`) | `Withdrawal` rows, transactions on the chain | request, claim, broadcast, confirm, retry, refund, stale recovery | several runs of the job at once, lost answers, landings after a timeout, crashes between two writes |
| **Chain sends and confirmation** (`packages/chains/src/selfCustody.ts`) | none between calls | `sendCrypto` through Privy with two retries, `waitForConfirmation`, `verifyDepositTransaction` | answers that hide a broadcast, forks, nodes that lag or fail, accounts that appear after they were looked up |
| **Bank payouts** (`payout.controller.ts`, `packages/payment-providers`, `webhooks.controller.ts`, `payoutReconcilerService.ts`) | `SpendTransaction` rows, the map `spends`, `ProcessedWebhook` keys, poll counts | `spendToBank`, `cashout`, failover, webhook handling, reconciliation | webhook and poller racing, events before their row, rows written without await, repeated and lost events, a payout that a provider creates and answers as failed |
| **Custody** (`payout.controller.ts`, `bills.controller.ts`, `reconciliationProcessor.ts`) | users' deposit wallets, the treasury, `Deposit` rows, snapshots | `spendToUser`, `payBill`, `spendToBank`, `cashout`, the reconciliation snapshot | two transactions for one transfer, a transfer of tokens before the debit, crashes in between |
| **EVM deposits** (`packages/chains/src/evmListener.ts`, `chainDepositProcessor.ts`) | `lastScannedBlockMap` in memory, `ProcessedSignature`, `Deposit` | poll, chunked log queries, credit | overlapping ranges, confirmations, chunk errors, restarts, several workers |
| **Solana deposits** (`packages/chains/src/solanaListener.ts`) | `ProcessedSignature` | poll of the newest signatures of each wallet | a bounded window over an unbounded history |
| **Naira deposits** (`webhooks.controller.ts`, `ledgerService.creditUserBalance`) | cached balance, rows written without await | webhook, credit | a cached balance that is stale when used |
| **Virtual accounts** (`lib/identityVerification.ts`, `lib/bachs.ts`, `lib/squad.ts`, `kyc.controller.ts`) | `VirtualAccount` rows, a map in memory | issue, list, look up for a deposit | a number that exists at the provider, in memory or in the row only |
| **Gas drips** (`packages/database/src/drips.ts`, `sendCryptoWithGasRetry`) | `GasDrip` rows | eligibility check, drip, record | check-then-act by concurrent sends |
| **Accounts and login** (`auth.controller.ts`) | `User` and `Wallet` rows, the map `users` | login, registration, creation of wallets | two first logins at once, the copy from the database at start-up |
| **User record and PIN** (`ledgerService.ts`, `auth.store.ts`, `set-pin.tsx`) | one record in memory and row, a PIN on the device | `setUserPin`, `updateUserKYC`, `syncUserToDb`, the device's `setPin` | whole-record upserts nobody waits for, memory refilled with older rows, two places for one PIN |
| **Identity verification** (`kyc.controller.ts`, `lib/kycSession.ts`, `lib/sumsub.ts`, `app/kyc.tsx`) | one session row per user, the tier, the screen | start, hosted page, three ways of polling, the profile read every 15 s (`useUserProfile.ts`) | verdicts seen by several checks, sessions replaced meanwhile, a profile that is stale or cannot be read when the screen decides by it |
| **Rates** (`rateService.ts`, `ratePollerProcessor.ts`) | one cached rate, `RateFeedLog` | refresh, override, poller | a refresh finishing after an override |
| **Maintenance flag** (`maintenanceService.ts`) | one row and a cache with a time to live | read, write | slow reads overtaken by writes |
| **Wallet session** (`auth.store.ts`, SDK) | four stored values, state in memory, tokens of the SDK | sign-in, refresh, sign-out, hydrate, `setPin`, profile | the app killed between two writes, a secure store that refuses silently, a refresh or a PIN that lands after a sign-out |
| **Wallet send screens** (`send/onchain.tsx`, `send/ngn.tsx`, `useKudiWallet.ts`) | screen state, polling interval, recipients | review, approve, send, poll, look up a name | prompts and timers that outlive what they were asked for |
| **Notifications** (`useNotifications.ts`, `ledgerService.ts`) | rows, a list in memory, the wallet's copy | list, mark, mark all | a copy changed before the server, answers in any order |
| **Manual rescan** (`depositService.ts`), **Transfer worker** (`transferWorker.ts`) | as above | | SQL that the database refuses, so nothing changes |
| **Referral, admin, health, receipts, types, wallet views, web site** | little or none | request handlers and views | see [the plan](#plan) |

Interactions. The API and the worker share Postgres and nothing else: the
API's in-memory maps are invisible to the worker. HTTP handlers, webhook
handlers and the payout reconciler interleave at every `await` of the API
process. The worker's jobs are scheduled by BullMQ (`apps/worker/src/index.ts`:
deposits every 15 s, withdrawals every 20 s, stale recovery every 60 s);
deposit polling has concurrency 1 per worker process, withdrawals concurrency 5,
and the same processors also run once at start-up outside the queue. The wallet
app talks to the API through the SDK, which refreshes its token on a 401 and
repeats the request.

What makes the components correct:

* *Ledger*: each movement is posted once under its key, the balance is what the
  journal explains, a debit is covered, the daily limit holds, a reversal has
  its debit.
* *Withdrawals and payouts*: the recipient is paid at most once, the payer
  refunded at most once, never both; every debited request ends one way or the
  other; the status the user sees is true; a decided row stays decided.
* *Custody*: Kudi never owes more than the tokens it holds; what is received was
  sent, what is paid was debited, what the client is told is so.
* *Chain sends*: one call pays at most once; "confirmed" means settled without an
  error.
* *Deposits*: every confirmed transfer that was scanned is credited, once, and
  nothing unconfirmed is; a naira account the user was promised finds him.
* *Identity*: one person is one user; VERIFIED only on a provider's word; the
  record in memory, its row and the device do not drift apart unnoticed.
* *Wallet app*: what a screen says of a send, an account or a notification is so,
  and a session is whole or gone.

## Modules

```
AccountBook  <--implements--  Ledger, Withdrawals, Deposits
Settlement   <--implements--  Withdrawals, BankPayouts
LedgerStore  <--extends----   Ledger <-- Custody
             <--extends----   Withdrawals, BankPayouts, Deposits
MCWithdrawals <-- MCWorker (with SolanaDeposits)
Wallet (of Session, OnchainSend, BankSend, Notifications, ChainSend, GasDrips)
MCWithdrawals, Wallet <-- MCWallet
Services (of Accounts, Rates, Maintenance, Kyc, NairaDeposits, UserRecord,
          VirtualAccounts)
MCCustody, Services <-- MCServices
```

`LedgerStore` holds the tables (`account`, `journal`, `latest`, `limitRow`,
`today`) and the database transactions as operators; it has no process state.
The modules that move the ledger extend it and decide when a transaction runs,
so the same `DebitTx`, `CreditTx` and `ReleaseSpendLimit` are composed with each
flow. The other components share no state with it and stand alone.

| Module | Models | State beyond the tables | Actions |
|---|---|---|---|
| `AccountBook` | abstract promise of the ledger | balances and posted keys | `PostDebit`, `PostCredit`, `PostReversal` |
| `Settlement` | abstract promise of a payout rail | times paid, refunded | `Pay`, `Refund` |
| `Ledger` | `ledgerService.ts` balance transactions under concurrent callers | `call`: the executions of `creditBalanceAtomic` in flight | `Debit` is one step, because the row lock comes before every read it decides on. A credit is `BeginCredit` (the check for an existing entry, before the lock) and then `FinishLocked`, or, when the user has no row, `ReadUnlocked` and `FinishUnlocked`, since `FOR UPDATE` locks nothing then |
| `Custody` | `spendToUser`, `payBill`, `spendToBank`, `cashout` from the first check to the answer, deposits, the reconciliation snapshot | `wallet`, `treasury`, `moving`, `depositRow`, `stage`, `answer`, `payout`, `snap` | one per stretch between two awaits: `BankSweep`, `CashoutSends`, `WaitConfirmed`/`WaitTimesOut`, `DebitFrom`, `StartCredit`, `CreditReturns`/`CreditThrows`, `ProviderAccepts`, `BankFails`, `CashoutFails`, `SnapStart`/`SnapEnd`; `Restart` |
| `Withdrawals` | `createWithdrawal`, the job, the stale recovery, the chain | `request`, `row`, `sends`, `worker` | the API's INSERT and debit are two calls in flight (`PersistRow`, `DebitOk`, ...); a run goes through `Claim`, `ChooseWallets`, `Send`/`SendDirect`/..., `MarkBroadcast`, `WaitConfirmed`/`WaitTimesOut`, `MarkConfirmed`, `Retry`/`GiveUp`, `Verify...`, `MarkFailed`, `Reversal...` |
| `ChainSend` | one payment by `sendCrypto` and its confirmation | where the call is, `tx`: the transactions it made, token accounts, the question asked next | `LookUpAccounts`, `FetchBlockhash`, `Accepted`, `NotSponsored`, `BlockhashUnknown`, `Thrown`, `Poll`, `Ask`, `Deadline`; the chain: `Include`, `Fork`, `Drop`, `Settle`, `AtaAppears` |
| `BankPayouts` | `spendToBank`, the naira leg of `cashout`, failover, webhooks, reconciler | `request`, `payout`, `memory`, `spend`, `writes`, `reserved`, `handler`, `polls`; history `struck` | a provider answers by `Accepted`, `Refused` (it made nothing), `RefusedOnRecord` (Bachs created a payout and failed it) or not at all (`AnswerLost`); each `await` of a handler separates two actions (`CheckReversed` / `RefundReversed`, ...); `Restart` empties `memory` and drops the writes in flight |
| `Deposits` | the worker's EVM poller and the credit of a transfer | `head`, `block`, `processed`, `lastScanned`, `poller`; history `first`, `dropped` | `StartPoll` (block number and range), `ScanChunk`/`ChunkFails`/`ScanThrows` per request, `EndScan` (the range is recorded before anything is credited), `Credit`/`CreditFails`, `EndPoll`, `Crash` |
| `SolanaDeposits` | the scan of one Solana wallet | `history`, `processed`, `poll` | `StartPoll` (known signatures), `ListToken`, `ListOwner` (the two lists), `Fetch` (the window), `Credit`, `EndPoll` |
| `NairaDeposits` | `creditUserBalance` among debits, reads and chain deposits of one user | the row, the newest entry, the cached balance, the calls nobody waits for | `CreditUserBalance`, `EnsureSelects`, `EnsureInserts`, `EntryInserts`, `Debit`, `ChainCredit`, `GetBalance`, `Hear` (the cache after a debit), `Restart` |
| `VirtualAccounts` | the numbers users pay into, from the provider to the webhook's lookup | `issued`, `memory`, `rows`, `shown`, `deposit`; history `promised` | `Start`, `Issued`/`IssueFails`, `Written`/`WriteFails`, `List`/`ListReads`/`ListKeeps`, `ByRow`/`NamedCustomer`/`Parked`/`LookupFails` |
| `GasDrips` | `sendCryptoWithGasRetry` and the caps of `drips.ts` | where each call is, drips on the chain, rows | `SponsoredSend`, `Check`, `Drip`, `Record`, `DripConfirmed`, `UnsponsoredSend` |
| `Accounts` | login, registration, wallets of a user | `users`, rows, `writes` nobody waits for, `sync` | `Begin`, `Query`, `Resume`, `WalletsMade`, `WriteUser`, `WriteWallet`, `SyncUser`, `Restart` |
| `UserRecord` | one user's record and the PIN in it, on the server and on the device | `mem`, `row`, `writes`, `reads`; `calls`, `device`; history `accepted`, `doubts`, `missed` | `HandleSetPin`, `Verify`, `Write`/`WriteFails`, `FillMemory`, `LoginReads`, `Restart`; `Save`, `Store`, `Publish`, `AnswerLost`, `Kill` |
| `Kyc` | the verification screen, the session row, the provider's verdict | `session`, `verdict`, `check` (the three kinds), `userKyc`, `rowKyc`, `profile`, `phase`, `loop`, ...; history `stalled`, `lost` | `StartVerification`, `SaveSession`, `Load`/`Lookup`/`Record`/`Clear` of a status request, `LoopHandles`, then `LoopRefetched` (the loop is on until `refetchProfile` returns), `ReadProfile`, `QuietHandles`, `MountHandles`, ... |
| `Rates` | `RateService` and the worker's poller | the feed, the cached rate, fetches under way | `EnsureFreshRate`, `ReadFeed`, `UseFeed`/`UseProvider`, `SetRateOverride`, `PollRateEngine` |
| `Services` | the seven components above and below that serve the API beside the ledger | `part`: which of them moves | `AccountsMove`, `RatesMove`, `KycMoves`, ...: a step of that component |
| `Maintenance` | the switch and its cache | row, cache, reads and writes under way, the clock | `Ask`, `ReadRow`, `Answered`, `Upsert`, `CacheIt` |
| `Session` | the wallet's stored and live session | `store`, `sdk`, `app`, sign-in, the two sign-outs, refresh, `pin`, writes nobody waits for; history `astray` | `SignIn`..., `SignOut`..., `Refreshed`, `RefreshRejected`, `Kill`, `Hydrate`, `WriteLands`, `SetPin`/`PinWritesUser`/`PinSet`; every write, deletion and read of the store (`Puts`, `PutsLater`, `Deletes`, `Hydrate`) may be refused, and the flow goes on as the code does |
| `OnchainSend` | the on-chain screen with prompts and polling | sheet, prompts, request, interval, polls, what is shown | `AskPrompt`, `PromptApproves`, `Submit`, `Debit`, `Answered`, `ShowResult`, `Poll`, `PollAnswered` |
| `BankSend` | the bank screen with name lookups and the PIN modal | typed account, name, lookups, prompts, payment | `Type`, `Pick`, `Resolved`, `Confirm`, `PinOpens`, `EnterPin`, `Answered` |
| `Notifications` | rows, list and copy of one user | rows, list, request for the list, change under way, copy | `AddNotification`, `Insert`, `Ask`, `ReadRows`, `KeepRows`, `GetAnswered`, `Mark`, `MarkRows`, `MarkAnswered` |
| `Wallet` | the wallet app's four components, `ChainSend` and `GasDrips` | `part`: which of them moves | `AppMoves`, `OnchainMoves`, `PayMoves`, ...: a step of that component |
| `MC...` | instances for TLC | | |
| `...Proofs` | theorems | | |

Abstractions that hold everywhere: amounts are small naturals and addition is
exact (the code stores decimals; rounding is not modelled); a reference has one
amount, payer and payee; log lines, formatting and layout are left out. A
definition whose name has a suffix after `_` and whose comment says it is a
mutant, or a plausible bug, is a mistake in the definition below it; it is used
by nothing, and serves to confirm that a property notices the mistake.

Misbehaviour of the surroundings is the constant `Faults` (or `MayFail`) of each
module (crashes, lost answers, refused writes, late landings, ...), so that one
module states both what holds when all goes well and what holds whatever goes
wrong. A property that speaks of what no fault disturbed names the disturbance
in a history variable, which no action reads.

What `ChainSend` takes for granted: Privy refuses a request for its sponsorship or
its blockhash before it signs; a Monad receipt is that of a settled block;
`getTransaction` serves no commitment below confirmed; nobody closes a token
account while a payment is under way.

## Runs

`tlc -config X.cfg MCModule`. Every run is exhaustive for its instance. Three MC
modules put components that share no state into one run: a variable that never
changes (`part`, in `MCWorker` `job`) says which of them moves, so that every
component is explored as if alone, with its own initial states, and the others
stay where they are.

| Run | Module and cfg | Instance | Shows |
|---|---|---|---|
| `ledger_serial` | `MCLedger`, `LedgerSerial.cfg` | 2 users with account rows, 3 references (a spend, a transfer, a payout), 2 callers, one caller per key at a time | `BalanceExplained`, `LimitRespected` through releases and midnight, and `ImplementsAccountBook` |
| `ledger_first_credit` (violation) | `MCLedger`, `LedgerFirstCredit.cfg` | two first credits of one user | `BalanceExplained` fails: finding 1 |
| `services` | `MCServices`, `Services.cfg` | see below | `Solvent`, `ReceivedWasSent`, `PaidWasDebited`, `AnswerIsTrue`, `SnapshotIsBacked`; `OneIdPerPerson`, `ShownWalletsAreWatched`; `OverrideHolds`; `ServedIsRecent`; `VerifiedWasApproved`, `WaitingIsForSomething`; `NairaNeverOverwrites`; `OnePin`; `AccountsReachTheirUser` |
| `worker_benign` | `MCWorker`, `WorkerBenign.cfg` | 2 withdrawals, 2 runs of the job, no faults; a Solana wallet with 4 transactions and one failed request | `ImplementsSettlement`, `EveryDebitSettles`; `EverySolanaDepositIsCredited` |
| `withdrawals_chaos` | `MCWallet`, `WithdrawalsChaos.cfg` | 1 withdrawal, 2 runs, all faults but slow runs; around it see below | `ConfirmedWasPaid`, `ExclusiveHolder`, `FinalStaysFinal`, `ImplementsAccountBook`; `SessionIsWhole`; `OnchainSendIsHonest`; `NameIsOfAccount`; `ReadStaysRead`; `SendIsHonest`; `DripsWithinBudget` |
| `withdrawals_undebited` (violation) | `MCWithdrawals`, `WithdrawalsUndebited.cfg` | no faults | `RefusedIsNotPaid` fails: finding 2 |
| `withdrawals_slow` (violation) | `MCWithdrawals`, `WithdrawalsSlow.cfg` | only slow runs | `PaidAtMostOnce` fails: finding 3 |
| `payouts_chaos` | `MCBankPayouts`, `PayoutsChaos.cfg` | 1 payout over either route, or one that is too large, 2 handlers, all faults | `SuccessWasPaid`, `RefundIsJustified`; `DecidedRowsStay` and `ImplementsSettlement` of payouts whose failing providers have nothing on record; `ReleasedIsRefunded` until a crash; `EveryFailedPayoutIsRefunded` until a fault |
| `payouts_restart` (violation) | `MCBankPayouts`, `PayoutsRestart.cfg` | only restarts | `BalanceExplained` fails: finding 4 |
| `payouts_failover` (violation) | `MCBankPayouts`, `PayoutsFailover.cfg` | no faults | `PaidIsNotRefunded` fails: finding 5 |
| `deposits` | `MCDeposits`, `Deposits.cfg` | 2 transfers, 2 workers, 4 blocks, one fault of any kind | `ScannedIsCredited`, `CreditedIsConfirmed`, `ImplementsAccountBook`, `EveryDepositIsCredited` |
| `deposits_one_tx` (violation) | `MCDeposits`, `DepositsOneTx.cfg` | one transaction makes both transfers, no faults | `ScannedIsCredited` fails: finding 6 |

`Services` puts the components of the API that share no variable with each other or
with the ledger into one specification, where `part` says which of them moves: what
one does, it does whatever the others do, so the behaviours of each are its own. A
component that never moves has no state. For `Kyc` there is a part for every set-up
(which providers, which faults). `MCServices` adds `Custody` as one more part.
`Wallet` and `MCWallet` do the same for the wallet app and the chain services behind it,
beside the withdrawals.

The parts of `services` (values in `Services.cfg`, `MCServices` and `MCCustody`):

| Part | Instance |
|---|---|
| custody | 6 references, made in groups of two or three that compete for one balance or one wallet; one user who is not in the database yet; crashes, lost answers, slow chains and refused writes |
| accounts | one person who logs in three times; a restart, refused writes |
| rates | two refreshes at a time, two overrides, three instants |
| maintenance | two writes, two reads at a time, four instants, a time to live of two |
| kyc, sumsub | a session at Dojah open when the screen is mounted and one without provider, starts that fail, a profile that cannot be read; one session at Sumsub with every fault |
| naira | two naira deposits, one on chain, one debit, one read; restart, refused writes |
| record | two PINs, two saves on the device, two changes on the server; restart, refused writes, lost answers, the app killed |
| numbers | two users, a retry for the first; one deposit; restart, refused writes, a provider that fails |

The parts of `withdrawals_chaos` beside the withdrawals (values in
`WithdrawalsChaos.cfg` and `MCWallet`):

| Part | Instance |
|---|---|
| app | two sign-ins, two setbacks (kills of the app, refusals of the store), one profile or PIN |
| onchain | two sends, one prompt pending, one lost request |
| bank | two accounts, two payments, one prompt pending |
| notes | one notification, read alone and with all; two requests for the list |
| pay | one payment on Solana or Monad, two nodes to ask, two rounds of questions |
| drips | three sends of one wallet, two at a time, a cap of one |

### Bounds, and why they are enough

* Two actors (callers, runs, handlers, workers, requests, prompts) are the least
  that race; every race listed under "hazards" is between two. `accounts` has three
  logins: two that race and one that comes after. The theorems cover any number
  for the properties that are proved.
* Two references let two movements meet on one balance, where it is too small
  for both, and meet on one limit. With all faults at once one reference is
  used: what goes wrong there is between steps of one reference. `custody` takes
  its references in groups, since requests of other users do not touch.
* `MaxAttempts` is the code's 3 in the run for liveness and 2 with all faults (a
  first and a last attempt, the two cases the code tells apart). `BatchLimit` is
  the code's 10 and never reached. `MaxClaims` and `MaxSends` bound the
  model only: they leave room for every attempt plus one recovery or one repeated
  send.
* `MaxPolls` is 24 in the code and 2 here: a poll that sees the outcome and one
  that does not. Giving up is reached in `payouts_chaos`.
* `Deposits` scales 10/500/100/1 blocks (overlap, lookback, chunk, threshold)
  to 1/4/2/1 with four blocks. The overlap equals the threshold, the smallest
  for which the scan is correct; a chunk is shorter than the range, so a
  range is several chunks; the first poll sees the whole chain, so that a
  restarted worker does not skip blocks (with a real lookback, transfers older
  than it at a restart are skipped: `ScannedIsCredited` speaks of blocks from
  `first[p]` on). `MaxFaults` is 1: one restart, refused request or refused credit.
* `SolanaDeposits` scales 25 signatures asked for and 8 fetched to 3 and 1, so
  that both windows are full and something is cut off by each.
* `ChainSend`: at most four transactions can come of two blockhashes, or of two
  requests without sponsorship, so `MaxTx` is never what stops a call. Two nodes are
  the primary and its fallback; two rounds let a fork come between them.
* `UserRecord`: two changes are one that an upsert of the other may overtake; two
  saves are two whose answers cross. The faults of the server come one at a
  time, since its promise ends with the first.
* `Rates`, `Maintenance`: `Horizon` bounds the clock; it lets a read outlast the
  throttle or the time to live once.
* `Session`: `MaxSetbacks` is 2, so that a refused deletion of the token meets a
  refused deletion of the user, or a kill; `MaxSaves` is 1, a profile or a PIN.
* `OnchainSend`, `BankSend`: `MaxPrompts` and `MaxFailures` are 1: each fault meets
  every point of the flow.
* Deadlock checking is off: all flows end when every reference is settled, and
  bounded counters stop the rest.

### Findings

1. A user's first two credits at the same time: `SELECT ... FOR UPDATE` finds no
   row to lock (`ledgerService.ts:858`) and one is lost from the balance, though
   `docs/SRS_COMPLIANCE_AUDIT.md:39` claims row-level locking on all paths.
2. The withdrawal row is inserted before the debit is decided
   (`ledgerService.ts:1554`) and survives its refusal, so the worker pays a
   withdrawal nobody was debited for. The processor's header says rows are
   created after the debit.
3. The stale recovery (`cryptoWithdrawalProcessor.ts:99`) takes a row from a live
   run that has held it for more than five minutes; two runs pay it.
   ADR 0002 says processors may retry safely.
4. After a restart a webhook and the reconciler both reverse a payout and the
   user is refunded twice (`ledgerService.ts:851`, `:975`).
5. `BachsProvider.initiateTransfer` answers `failed` both when it made no payout and
   when Bachs created one and failed it (`bachs.ts:186`). The chain goes on to Squad
   under the same reference (`packages/payment-providers/src/index.ts:74`); when Squad
   has paid, Bachs' event of its failed payout reaches `reverseSpendTransaction`, which
   stops for `REVERSED` and not for `SUCCESS` (`ledgerService.ts:973`), so that the
   payout is paid and refunded. `docs/Project/KUDI_SRS.md:187` has a failed transfer
   retry "against a different provider rather than just reversing".
6. Deposits are keyed by the transaction hash alone
   (`chainDepositProcessor.ts:201`), so of two transfers in one transaction one is
   never credited; ADR 0002 asks for the log index where available.

Met while reading, without a run of their own. Ledger and payouts:

* a `BROADCAST` withdrawal whose run dies is never looked at again
  (`cryptoWithdrawalProcessor.ts:407`), and a payout marked `REVERSED` whose process
  dies before the credit is not refunded (`ledgerService.ts:1003`);
* the event of a provider that failed a payout on record, when it comes before a
  cashout is recorded, finds no debit entry to refund and uses its key up; the money of
  a cashout that no provider took is returned by nobody (the cases
  `EveryFailedPayoutIsRefunded` leaves out);
* `spendToBank` rows are recorded as `pending` and the reconciler asks for
  `PENDING`/`PROCESSING`, so only webhooks settle them;
* a naira deposit of a user who has a `BalanceAccount` row is journaled and shown
  from memory, but never added to the row (`ledgerService.ts:1377`, `:698`): the
  reason `NairaNeverOverwrites` claims no more than it does;
* the withdrawal job passes no drip hooks to `sendCryptoWithGasRetry`, so its drips
  are neither checked nor recorded; `idempotencyKey` of `sendCrypto` is unused;
* the exposure that a snapshot derives never decreases; operator alerts are
  unique by type and reference with `ON CONFLICT DO NOTHING`, so they are never
  updated nor closed;
* the manual rescan's `INSERT INTO "Deposit"` lists 21 columns and 22 values
  (`depositService.ts:163`), and the transfer worker's `UPDATE ... LIMIT 1` is no
  PostgreSQL: neither ever changes anything. `sweepToTreasury` has no caller.

Chain sends (`selfCustody.ts`): on Monad the comment says amount and fee are sent,
the code sends the amount (`:1199`); a Stellar payment sends the fee as the amount
(`:1236`) and is confirmed without asking (`:2217`); a transaction that failed
on the chain is polled until the timeout like one not seen yet; a failed lookup
of the sender's account is reported as "no USDC token account".

Users and accounts:

* the upserts of a user's record may land out of order, and a handler that runs
  before the start-up copy makes a bare record whose `NOT_STARTED` overwrites the
  row's KYC status (`ledgerService.ts:538`): the cases `UserRecord.doubts` names;
* `firstName`, `lastName`, `dob` and `profileCompleted` of a profile are never
  written to the row; usernames are not unique; `attributeReferral` may run before
  the new user's row is written;
* `verifyID` answers with an account whose row was not written
  (`kyc.controller.ts:97`); a failed provisioning is answered 502 before the KYC
  status is set, so that `retryVirtualAccount` refuses with 409 (`:147`);
* a wrong PIN is answered 401, on which the SDK refreshes its token and asks
  again;
* `runPollingLoop` returns at once while a cancelled loop has not stopped, or one that
  was approved still reads the profile (`kyc.tsx:232`), and a restart of a
  verification that fails leaves the screen as it is. In the second case the next read
  of the profile ends the wait; in the first and the third the screen says "Confirming your result" with nothing that confirms it until the user
  cancels: `stalled` in `Kyc`, which `WaitingIsForSomething` names.

Wallet app:

* the secure store's refusals are swallowed (`auth.store.ts:80`): a sign-out whose
  deletions of token and user are both refused is undone by the next start, and so is
  one after which a refreshed token and a user (of a profile or a PIN) are written; a
  write refused
  at a sign-in leaves a value of an earlier session. `SessionIsWhole` names the keys
  (`astray`) and excuses nothing else;
* `setPin` puts the user it was called for back into memory, whoever is signed in by
  then (`auth.store.ts:386`);
* a failed name lookup gives "Demo Account (GTBank)", which counts as verified and
  is kept among the recipients; a lost answer of a bank payment is shown as
  "Transfer Failed"; "Max" in naira mode of the on-chain screen ignores the fee;
* the PINs-do-not-match timer of `set-pin.tsx:117` resets the screen 1.2 s later,
  whatever it shows by then, also the success;
* an unsuccessful answer to the list of notifications empties it;
* the worker logs its static rate as fresh (`ratePollerProcessor.ts`), and
  `setActiveProvider` changes memory first and rows in separate statements.

## Fairness

Liveness is checked under specifications that ask weak fairness only of steps the
code or the surroundings do take when nothing goes wrong:

* *Withdrawals* (`worker_benign`): the API's two calls return; the job is started
  again every 20 s, so a due row is claimed (`WF(Claim(w))`) and a run that has a
  job goes on (`WF(RunNext(w))`); the back-off elapses; the stale recovery runs
  every 60 s; the chain decides every transaction. Nothing is assumed of faults.
* *SolanaDeposits* (`worker_benign`): the scheduler starts a poll every 15 s and a
  started poll goes on (`WF(PollStep(1))`). Requests that fail are not fair and are
  bounded.
* *BankPayouts* (`payouts_chaos`, until a fault strikes): a request and the writes it started go on, a handler that has
  begun goes on, and a provider delivers the event of a payout that it settled
  (webhooks are repeated by the providers until answered). The reconciler's
  polls are not assumed: payouts must settle without them, as rows of
  `spendToBank` are never polled.
* *Deposits*: as for Solana, for each worker (`WF(PollNext(p))`); the chain makes
  blocks up to the bound, which a transfer in its newest block needs to be
  confirmed. Crashes are not fair and are bounded.

Strong fairness is assumed nowhere. Liveness runs have no symmetry. The wallet's
and the services' specifications state no fairness: nothing in them promises that
a user goes on.

## Proofs

Checked by `tlapm`, for any sets of users, references, actors and any positive
amounts, limits and bounds; the assumptions on constants are the ASSUMEs
`StoreAssumption`, `LedgerAssumption`, `WithdrawalsAssumption`,
`PayoutsAssumption`, `DepositsAssumption`, `CustodyAssumption`,
`ServicesAssumption` and `WalletAssumption` (the sentinels for "nothing" are not among the things they stand
beside, and what is counted is finite), which TLC evaluates in every run of their
modules.

| Module | Theorem | States |
|---|---|---|
| `LedgerProofs` | `TypeCorrect` | `TypeOK` |
| | `BalancesNonNegative`, `ReversalsHaveDebits` | no balance is negative, no reversal without its debit, whatever the callers do |
| | `LimitsAreRespected` | `LimitRespected`, whatever the callers do |
| | `SerialBalancesAreExplained` | `BalanceExplained` under `Serial` |
| | `SerialLedgerImplementsAccountBook` | refinement of `AccountBook` under `Serial` |
| `CustodyProofs` | `ReceivedMoneyWasSent`, `PaidMoneyWasDebited`, `AnswersAreTrue` | `ReceivedWasSent`, `PaidWasDebited`, `AnswerIsTrue`, for every set of faults |
| | `KudiStaysSolvent` | `Solvent`, for every set of faults, under `NoHiddenBalance` and `BackedAtStart` |
| | `SnapshotsAreBacked` | `SnapshotIsBacked`, for every set of faults, under `NoHiddenBalance` |
| `ServicesProofs` | `PeopleHaveOneId`, `WalletsAreWatched` | `OneIdPerPerson`, `ShownWalletsAreWatched`, for any people and logins, for every set of faults |
| | `OverridesHold` | `OverrideHolds`, an action property, for any fetches |
| | `ServedValuesAreRecent` | `ServedIsRecent`, for any reads, writes and time to live |
| | `VerifiedUsersWereApproved`, `ScreensWaitForSomething` | `VerifiedWasApproved`, `WaitingIsForSomething`, for any set-ups, sessions, providers and faults |
| | `NairaOverwritesNothing` | `NairaNeverOverwrites`, for any finite number of deposits and debits, for every set of faults |
| | `OnePinEverywhere` | `OnePin`, for any PINs and saves, for every set of faults |
| | `AccountsFindTheirUser` | `AccountsReachTheirUser`, for any users, requests and transfers, for every set of faults |
| `WalletProofs` | `SessionsAreWhole` | `SessionIsWhole`, for any sign-ins, kills, refusals of the store, saved profiles and PINs |
| | `OnchainSendsAreHonest`, `NamesFitTheirAccounts` | `OnchainSendIsHonest`, `NameIsOfAccount`, for any sends, prompts, accounts and payments |
| | `ReadNotesStayRead` | `ReadStaysRead`, for any notifications and requests, for every set of faults |
| | `ChainSendsAreHonest` | `SendIsHonest`, for any nodes and number of questions, on both chains |
| | `DripsAreBudgeted` | `DripsWithinBudget`, for any calls, caps and treasury |
| `WithdrawalsProofs` | `TypeCorrect` | `TypeOK` |
| | `ConfirmedWithdrawalsArePaid` | `ConfirmedWasPaid`, for every set of faults |
| | `OneRunHoldsARow`, `DecidedRowsStay` | `ExclusiveHolder`, `FinalStaysFinal` under `InTime` |
| | `RefundsGiveBackDebits` | a withdrawal is refunded only if it was debited |
| | `WithdrawalsImplementAccountBook` | refinement of `AccountBook` under `InTime` |
| | `WithdrawalsImplementSettlement` | refinement of `Settlement` without faults |
| `BankPayoutsProofs` | `TypeCorrect`, `SuccessfulPayoutsArePaid`, `RefundsAreJustified` | `TypeOK`, `SuccessWasPaid`, `RefundIsJustified`, for every set of faults |
| | `ReleasedLimitsAreRefunded` | `ReleasedIsRefunded`, for every set of faults |
| | `DecidedPayoutsStay` | `DecidedRowsStay`, for every set of faults |
| | `PayoutsImplementSettlement` | refinement of `Settlement` by the payouts that are `Faithful`, for every set of faults |
| `DepositsProofs` | `TypeCorrect`, `CreditsAreConfirmed` | `TypeOK`, `CreditedIsConfirmed`, for every set of faults |
| | `ScannedTransfersAreCredited` | `ScannedIsCredited` under `OwnHash` |
| | `DepositsImplementAccountBook` | refinement of `AccountBook`, for every set of faults |

`LedgerStoreProofs` holds the lemmas that several modules share: what a booking does
to the types, to the account rows and to the balances, what a changed or added
element does to a sum over a finite set, and that a set whose members are all
equal has one at most. Sums are the folds of the community modules, whose recursion
cannot be unrolled by induction here; the lemmas unroll it by the library's
well-foundedness of the subsets of a finite set.

Premises of theorems name exactly what the runs and the findings show to be needed:

* `Serial`: every user has an account row, no two callers are on one key; without it,
  finding 1.
* `InTime`: no run outlives the stale recovery; without it, finding 3.
* `OwnHash`: no transaction makes two transfers; without it, finding 6.
* `NoHiddenBalance`: a user without an account row has no balance; a row is created
  with the newest journal entry or with nothing, so that money elsewhere would not be
  counted. `BackedAtStart`: the wallets and the treasury cover the opening balances.
* `Faults = {}` for `Settlement` by withdrawals: a slow run has a second holder
  pay; a lost answer, a transaction that lands after it was given up, an error of the
  database or a crash between sending and recording all have the row retried while
  the first transaction may land; and after a cover that fails, the direct leg that
  landed before it is paid again by the retry (Case B of `cryptoWithdrawalProcessor`).
  Each of them breaks "paid once" in the code.

The theorems about bank payouts have no premise; the properties say of which payouts
they speak. `Faithful`: no provider that answered "failed" has the payout on record;
without it, finding 5, and the same when an answer is lost: a provider that pays and
does not say so is taken for one that failed, the next one pays again, and a late
event changes a decided row. `struck`: a payout marked `REVERSED` whose process dies
before the credit keeps its limit released (listed above among what has no run).

The inductive invariants, where the property alone is not inductive:

* `ConfirmedWasPaid` needs that a run which is about to write `CONFIRMED` holds a
  hash that landed (`KnownHash`).
* `ExclusiveHolder` needs that the status of a row somebody holds is the one the
  holder's stage expects, never `PENDING`, that the jobs of a run are of distinct
  rows and the ones not begun are `PROCESSING` (`HolderInv`); the account-book
  refinement adds that a debit under way is not in the journal yet and that a
  refund about to be credited is new and has its debit (`MoneyInv`).
* `Settlement` by withdrawals adds to `HolderInv` that a reference has one
  transaction at most that is not dropped, that a run awaits it unless its row says
  `CONFIRMED`, and that the row of what was refunded says `FAILED` (`SettleInv`).
* `SuccessWasPaid` needs that whatever outcome a handler carries is the
  provider's word on a payout that is really decided (`WordInv`);
  `RefundIsJustified` adds that nothing is recorded before a request is done,
  that it gives up only when every provider was tried, and that a refund without
  a provider's "failed" belongs to such a request (`RefundInv`).
* `ReleasedIsRefunded` needs that a limit row belongs to a debit that is booked
  (`ReleaseInv`).
* `DecidedRowsStay` and `Settlement` by payouts need that a request moves along
  the chain of providers only past those that answered "failed", so that as long as those have
  nothing on record one provider at most has the payout (`ChainInv`), and that a row says `REVERSED` only when that provider
  failed and is never inserted over another (`RowInv`).
* `LimitRespected` needs that only finitely many limit rows are counted, or their sum
  would mean nothing (`FiniteTables`): the check and the insert are under one lock.
* `SerialLedgerImplementsAccountBook` and `BalanceExplained` need that the check a
  caller made before the lock is still true when it books (`SerialInv`).
* `CreditedIsConfirmed` needs the same of everything a poll has found, and that
  what is credited is marked (`FoundInv`).
* `ScannedIsCredited` needs the scan's loop invariant (`ScanInv`): up to the next
  chunk, every transfer confirmed when the poll started is credited, found, or
  dropped; and everything confirmed at the end of the last range is. The
  overlap is what carries the second into the first: a transfer before the new
  range's start was confirmed at the end of the last one, as
  `Threshold <= Overlap`.
* The properties of `Custody` need one invariant per request (`FlowInv`): the
  order of a handler's steps, that a stage after the debit has its debit booked
  and one after the wait its tokens in the treasury, that a spend about to be
  refunded is released, and that a credit in flight is its request's and saw what
  is still so. Every step but a restart is of one request and leaves the
  state and rows of the others alone (`Apart`), so the proof of a step is about
  one request. `Solvent` and `SnapshotIsBacked` add what the sums are at every
  moment between a debit and its credit (`FundsInv`).
* The theorems of `ServicesProofs` are each about one component: a step is one of the
  component that moves or leaves its variables alone (`Part`).
* `OneIdPerPerson` and `ShownWalletsAreWatched` need, of every id in memory or told to
  anyone and not in doubt, that it is the row's, or that nobody has a row, the id is
  in memory and its write is on the way (`IdStands`); that without a row a person is
  in memory once (`OneInMemory`); that a write on the way is of someone in memory; and
  that a login which read no row before someone else wrote one will find him in
  memory (`LoginIsSound`). Every step but a restart only adds to what these rely on
  (`Grows`).
* `OverrideHolds` needs that the fetches under way during an override are those it
  overtook (`OverrideInv`).
* `ServedIsRecent` needs that what is cached, or is about to be, was the row's when
  the read for it began, or was overtaken (`SwitchInv`).
* `OnePin` needs what each copy knows while a save, a write or a read is between two
  of its steps.
* `AccountsReachTheirUser` needs that what a list has read is its user's, and that a
  transfer remembers a promise only of a number that was promised, whose row is
  there and stays (`NumbersInv`).
* `NairaNeverOverwrites` needs that as long as there is no row nothing but naira has
  moved, and every balance in memory or in a call under way is one that the credits
  so far can have come to (`NairaInv`).
* `WaitingIsForSomething` needs that a loop that asks has a round left
  (`ScreenTypes`), that one which reads the profile has told the wallet of the approval
  (`LoopTold`), and the property without the profile, which may be read and turn stale
  at any time (`ScreenWaits`).
* `VerifiedWasApproved` needs that an approval any check carries is the provider's
  verdict on a session that exists (`AnswersAreApprovals`, `SessionsExist`), and
  that what the wallet was told is held by the API or was before a restart
  (`ToldIsHeld`).
* `WalletProofs` is laid out the same way. `SessionIsWhole` needs what holds
  between any two awaits (`SessionCore`): the stored values that did not go astray are of
  one session or none, the one of the sign-in under way or of the memory
  (`StoreAgrees`); what a sign-out under way has deleted is gone or went astray
  (`DeletedSoFar`); with nobody signed in or signing in every key is so (`SignedOff`);
  and SDK and screen are of one session while no sign-out is under way (`InMemory`).
  Nothing of it is suspended by a rejected refresh of an ended session.
* `OnchainSendIsHonest` needs that what memory, an answered poll and the modal have of a
  send is its row's once that is final, and that a request not handled yet has left no
  trace (`StatusInv`).
* `NameIsOfAccount` needs that the name on the screen is none, made up or that of the
  account typed, and that lookups under way are of that account (`RecipientInv`).
* `ReadStaysRead` needs of every request for the list that no note marked before it
  was made is unread in what it has read (`GetsInv`), and that the request waited for
  knows of every note that was ever shown as read.
* `SendIsHonest` needs how far a call has come at each transaction that was made
  (`Progress`, `Unmade`), that one at most was made (`Alone`), and that what is sent
  to has a token account or creates one (`Provided`).
* `DripsWithinBudget` needs that a drip has a row, is about to have one, or is known to
  have none; so what a check let through beside what it counted is in flight (`DripInv`).

Only model-checked: liveness (the prover has no ENABLED or fairness). Every invariant
and every action property of a passing run is stated by a theorem, and so is every
refinement, some under the premises above, which their runs' instances satisfy. No module declares a RECURSIVE operator.

## Plan

What carries money, and what decides about it, is modelled: the ledger and its four flows
(withdrawals, payouts, deposits, whole requests), each with an abstract
specification or a theorem; the components that serve them; the wallet
app's session, send screens, notifications and verification. What would come
next:

* a withdrawal composed with `ChainSend`, so that `SendAnswerLost` of `Withdrawals`
  is a step of the payment itself.

Not modelled, and why:

* the manual rescan and the transfer worker: no reachable state change, until their
  SQL is repaired;
* referral, the admin API and console, health: single-row upserts and queries.
  What an administrator changes is modelled where it acts (`Rates`,
  `Maintenance`);
* signing, gas estimation, the choice of a fee payer, the creation of wallets at
  Privy, Stellar, and the amounts a verification reads from a transaction;
* direct BVN and NIN lookups (`lib/identityVerification.ts`), the webhooks of the
  identity providers, push messages, e-mail codes and rate limits;
* platform fees, rounding, KYC tiers (a tier is its limit), chain
  reorganisations deeper than the confirmation threshold of EVM deposits;
* the app lock, the other screens of the wallet, the web site: views, most of the
  repository's lines, with layout and formatting and without state that outlives
  a screen. This is why the map covers a small share of all lines.

`PROJECT.json` lists each component with the reason, and each hazard with the
properties that cover it.
