# tanta in TLA+

A verification development for the two services of this repository:

- `wallet/` (NestJS, PostgreSQL): wallets, their transactions, and transfers
  between them, behind a REST API;
- `user-management/` (Django): accounts, tokens, and a RabbitMQ consumer that
  is meant to authorize the wallet service's requests and to send notifications.

The money is in `wallet/`, and so is the difficulty: every request is a chain of
awaited statements on two shared tables, without a database transaction, a lock
or a version test. That core is modelled, model-checked and proved about here.

## Inventory

| component | state | operations | what makes it correct |
|---|---|---|---|
| `Money`, `Wallet` balance data | value, currency; balance, IDEAL/OVERDRAFT, last transaction version | add, difference, greaterOrEqual, hasUpTo, the body of updateBalance's loop | never negative; signed balance moves by the signed amount |
| `WalletService`, `WalletRepository`, `TransactionControl` | table `Wallet`, the entity a call holds | create, getWalletById, updateBalance, save (insert or update), getWalletsByUser | the row shows what was posted; a list that throws leaves no trace; insert iff there is no row; pages miss and repeat nothing |
| `TransactionService`, `TransactionRepository` | table `Transaction`; the locals of each call in flight | credit, debit, updateWallet | every call ends; versions chained; balances explained by records; no overdraft; a call that returned is applied |
| `TransferringService` | nothing stored; ids and stage of each transfer in flight | transfer, process | only the owner pays; credit after debit; the receiver is credited |
| `TransferringRepository` | table `Transferring` | save, load (no caller) | - |
| REST controller, DTOs, validation pipe, exception filter | none | fund, transfer, create, list | - |
| access guard, user service, messaging (`wallet/`) | a channel; a queue, consumer and timer per request | canActivate, authorize, publishWithDirectResponse | every request gets a verdict, and its own |
| messaging, authorization, notifications (`user-management/`) | handlers, consumed queues | on_ready, authorize, notify | the start-up ends; registered handlers are consumed |
| accounts (`user-management/`) | table `User` | register, create_user, obtain token, details | whoever has an unused email can register: not so, see the disagreements |

**How they interact.** The controller calls the services directly. `transfer`
awaits `debit` and then `credit`; these await the two repositories and
`updateBalance`. Concurrent requests meet only in the tables. The wallet service
talks to user-management through RabbitMQ.

**What is hard.** Interleaving of calls at each await; reads that are stale when
used (the balance a debit tests, the last transaction, the loaded wallet); order
by a millisecond clock with ties; calls that stop between two statements; a
transfer that stops between its halves; pages read while rows are inserted;
numbers that stop being exact. `PROJECT.json` lists each hazard at its
line with the properties that cover it.

## Modules

| module | models | extends |
|---|---|---|
| `Money` | `money.ts` | |
| `WalletBalance` | balance data and one iteration of `updateBalance` | `Money` |
| `WalletService` | sequential create/updateBalance with `WalletRepository.save`, `TransactionControl` and the rounding of numbers | `WalletBalance` |
| `WalletListing` | `getWalletsByUser` read page by page beside `create` | |
| `TransactionService` | overlapping `credit`/`debit` on the shared tables | `WalletBalance` |
| `TransactionBook` | abstract: what `TransactionService` promises about its records | `WalletBalance` |
| `Transferring` | `transfer`/`process` and `fundWallet` over `TransactionService` | `TransactionService` |
| `Payment` | abstract: the two halves of a transfer | |
| `UserManagement` | start-up and accounts of user-management | |
| `AccessGuard` | the guard, `publishWithDirectResponse`, RabbitMQ, and user-management as their peer | `UserManagement` |
| `TransactionServiceMC`, `TransferringMC` | symmetry, the environments of one call at a time and of credits only, ids and owners for TLC | |
| `*Proofs` | the theorems, see below | |

Definitions named `...Signed`, `...Strictly`, `...Untested` and so on, each with
a comment that starts with "Mutant", are plausible bugs of the definition that
follows them. They are not part of the model; each breaks the property that
`PROJECT.json` pairs it with.

### State and actions against the code

*WalletService.* `table` holds the wallet's row (its boolean `version` column
included), `entity` the `Wallet` object of the running call, `pc` where the call
is. `Create` is `create` up to its save; `Load` the `getWalletById` of
`updateBalance`; `Fold` and `Throw` one iteration of its loop; `EndOfList` the
end of the loop; `Save` and `SaveFails` the statement. The list is chosen while
the loop runs, which is the same as choosing it before, because an iteration
looks at nothing but its own transaction. `delta` and `posted` are history
variables: what the running call has folded in, and what completed calls have,
each the signed sum and how often a balance was rounded. `DoubleOf` is the
rounding of a JavaScript number between 2^53 (`Exact`) and 2^54, to even.

*WalletListing.* `creation` and `createdAt` are the running `create` calls,
whose time is taken before their insert is sent; `rows` is table `Wallet` in the
order of insertion; `reading` is a client that reads on, `limit` rows at a time,
until a page is not full. (`multiple-wallets-of-user-query.spec.ts` reads three
fixed pages instead, which are readings of one page each.) Each `GetWallets` is one
request and one query, which may break ties in its own way: updates move rows.
A balance update rewrites `createdAt` with the value it read, so it is no action.

*TransactionService.* `created` and `wallet` are table `Wallet`, `ledger` is
table `Transaction`, `clock` is `Date.now()`. A call is named by its
transactionId; `pc[id]` is the statement it awaits and `frame[id]` its locals.
One action is one statement plus the code up to the next await:

| action | awaited statement | code |
|---|---|---|
| `Credit`, `Debit` | - | the call begins |
| `GetWallet` | `getWalletById` | debit's balance test; INSUFFICIENT_FUND is "refused", NOT_FOUND "failed" |
| `GetLast` | `getLastIfExistsBy` | one of the rows with the smallest `createdAt` |
| `Insert` | `transactionRepository.save` | `Transaction.create` with `createdAt` between the look-up and now, version one above the last |
| `GetAllAfter` | `getAllInAscOrderAfter` | rows of every wallet with a greater version |
| `Load` | `getWalletById` in `updateBalance` | |
| `ApplyNext`, `Save` | `walletRepository.save` | one iteration of the loop; the blind update |
| `Fail` | any | the statement fails, its answer is lost, or the process dies |

`Insert` merges the time stamp, taken just after the look-up is answered, with
the statement; `since` in the frame keeps the range of values it can have.
A statement that took effect although its answer is lost is the statement's
action followed by `Fail` in the next state. The clock only goes up.

*Transferring.* `stage[t]` is what the transfer awaits, `order[t]` its
arguments. "debit" and "credit" wait for the call of `TransactionService` with
the transfer's id; `DebitEnds` and `CreditEnds` are its return or its exception.
A transfer begins behind the access guard: `order[t].user` is the user the guard
put into the request. `Fund` is unguarded, as in the controller. Other requests
that credit and debit do not exist in the code, so `ServiceStep` has no `Start`.

*UserManagement.* `started` counts the calls at the end of `services.py` that
have been made; they run while `app/urls.py` is imported, so a request is only
served (`server = "serving"`) after the last. `StartUp` is one of them,
`StartUpFails` a broker that cannot be reached. `accounts` is the table, with
its two unique columns; `attempt[r]` is a registration between the serializer's
look-up (`Register`) and the insert (`SaveUser`), or a call of the manager
(`CreateUser`), whose `extra_fields` may hold a username. A registration never has
one, and its row gets the empty string (`NoName`).

*AccessGuard.* `stage[r]` is what the guarded request `r` awaits or its verdict;
`channel` is `ChannelManager`'s promise; `bound`, `consuming` and `inbox` are the
broker's. `StartUpAtBroker` is `StartUp` with what `on_ready` does at the broker.

| action | code |
|---|---|
| `Arrive` | `canActivate`, `authorize`, up to the channel |
| `Bind` | `assertExchange`, `assertQueue`, `bindQueue`: one action, as only the binding can be seen by others |
| `Publish` | `consume`, `setTimeout` and `publish`, which no await separates |
| `Deliver`, `Receive` | the consumer's callback; the test of the correlationId |
| `Expire` | the timer |
| `Fail` | the `catch` of the guard |
| `ChannelCloses` | the broker goes away; every later call on the channel throws |
| `WalletEnds` | Node 16 ends the process on a connection error without a listener or a rejected `consume` nobody awaits |
| `StartUpAtBroker`, `Authorize` | the three `on_ready` calls of `services.py`; `authorize` |
| `UserStep` | the failed start-up and the accounts |

A queue holds a set of messages, so they may arrive in any order. The header is
chosen when the token is published. Its token is the header's first word,
"Bearer" in "Bearer x", while user-management's own `user_details` takes the last.
user-management's queue is external to the wallet but `on_ready` is modelled in
its order: pika's `start_consuming` returns at once when nothing consumes, so
the two registrations that follow it are never read, and no request is ever
answered. `NoMessageJudges` and `ServerSurvives` are the consequences: the guard
rejects everybody, and it does so by the timer or an exception, never by taking
another request's copy, or its own, for an answer. Transfers in `Transferring`
are thus those of a deployment whose guard admits.

## Runs

| run | bounds | shows |
|---|---|---|
| `WalletService_covered` | amounts 0..3, both currencies, versions to 6, 4 for 2^53 | `TypeOK`, `BalanceIsPosted`, `SaveKindMatchesTable` |
| `TransactionService_races` | 1 wallet, 3 calls, amount 1, clock 0..2 | `VersionChain`, `SolventUnlessTied` |
| `TransactionService_wallets` | 2 wallets, 3 calls, amounts {0, 1}, one instant | `TypeOK`, `BalanceExplained`, `OneLiveWallet`, `BookSpec` |
| `Transferring_two` | 1 wallet, its owner and another user, 2 transfers and a fund request | `TransferTypeOK`, `OnlyOwnersPay`, `UsesTransactionService`, `PaymentSpec`, `EveryTransferEnds`, `EveryCallEnds` |
| `AccessGuard` | 2 requests, headers of one or two words out of 2, 2 registrations or manager calls, 2 emails, 2 usernames | `AccessTypeOK`, `NoMessageJudges`, `ServerSurvives`, `OneRegistration`, `EveryRequestIsJudged`, `StartupEnds` |
| `WalletListing` | 3 wallets of the reader and 1 of another, limits 1, 2, 4, clock 0..2 | `ListingTypeOK`, `NothingMissed`, `PagesContinue` |

**Why the bounds are enough to be interesting.** Amounts 0..3 with six versions
reach both signs, equality, zero and several roundings; balances stay within
2 * `Exact`, where numbers are even. Amount 0 is legal in a request, and lets a
debit race with the first credit of its wallet (`TransactionService_wallets`). Three calls are the fewest with which a
version can be used twice and still be built upon, a debit can pass on funds that
another is taking, and a list can hold more than one row. Three calls with three
clock values can all differ. In one instant every createdAt ties and the
database may sort as it likes, so each order that distinct times produce is
among those explored. Two wallets are the fewest that can be confused;
`Transferring_two` has one, which its two transfers and the fund request contend
for, so that liveness can be checked of the same instance, while its four safety
properties are proved for any number of wallets and `Transferring_receiver` has
two. Two guarded requests let one be copied to a queue whose request is still
waiting and to one whose request is over. Two registrations race between look-up
and insert with equal and with different emails, and with a manager's call that
takes the empty username or another one. Limits 1, 2 and 4 cut three
wallets into single rows, into a full and a partial page, and not at all; three
clock values let them be distinct, tied and inserted out of order.
Every invariant and every refinement in the table is also proved without bounds.
Deadlock is not checked where all calls may have ended, which is a proper end.
Symmetry is used on call ids and wallets, which no definition tells apart, and
never with a liveness property.

### Disagreements between code and tests

| run | what happens |
|---|---|
| `WalletService_any` | `BalanceIsPosted` fails once transactions need not be `Covered`: a debit of an overdrawn wallet shrinks its overdraft. `...ascending-order4.spec.ts:84` expects the sum, 450. |
| `TransactionService_lostupdate` | two overlapping calls with versions 1 and 2 return; the one that loaded the wallet first saves last and sets it back to version 1 (`ReturnedStaysApplied`); `crediting-wallet.spec.ts:56` expects the returned transaction in the wallet. With a test of the loaded version in the `WHERE` clause of the update the property would hold. |
| `TransactionService_third` | without any overlap and at three different times: the "last" transaction is the oldest one, so every later one gets version 2, and the third call returns without being applied (`ReturnedIsApplied`). In descending order the property would hold. |
| `TransactionService_foreign` | four credits: a wallet's list holds version 2 of another wallet, which is folded into its balance; `crediting-wallet.spec.ts:56` expects the version of its own. The same missing `walletId` makes the first credit of a second wallet throw: `OneLiveWallet`. |
| `TransactionService_insolvent` | two debits in one millisecond pass the same balance test; `overdebiting-...spec.ts:67` expects INSUFFICIENT_FUND. |
| `Transferring_receiver` | the credit of a transfer names the sender's wallet; `wallet.controller.ts:128` returns it as `receiver_credit_transaction`. |

Only one person can ever register (`OneRegistration`, which holds and is proved):
`User` inherits a unique `username`, which the serializer does not set, so the
second registration is answered 500 for the empty username of the first, and
`createsuperuser` may have taken it before anyone registers. `tests.py` registers
once in an empty database.

Two overlapping calls may also read the same last transaction and insert the
same version, of which at most one is ever applied, although both may return.
`BalanceExplained` says that never both are.

`SolventUnlessTied` holds for a reason that is itself a defect: without ties no
wallet gets past version 2, so a second debit is never applied at all.
`BalanceExplained` does not ask whose transactions a balance is made of;
`TransactionService_foreign` shows that it could not. `NothingMissed` and
`PagesContinue` name the conditions under which pages are reliable: with two
wallets of one millisecond a walk over pages can miss one, and a late insert
shows one twice.

## Fairness

`TransactionService!Fairness` is weak fairness of each call's next step: the
database answers and the event loop resumes every promise that has settled.
Nothing is assumed of `Tick`, of new calls, or of failures. `TransferFairness`
adds the same of each transfer's own steps. A pool that never hands out a
connection would break it; knex rejects after a timeout there, which is `Fail`.
`AccessGuard!Fairness` says that the broker answers a declaration, or the closed
channel makes it throw, and that the event loop runs a timer that is due. It
assumes nothing of the delivery of messages. It also says that the import of
`services.py` goes on with its next call unless that call throws.

## Proofs

All are for every value of the constants, under the named assumptions
(`WalletServiceAssumption`, `TransactionServiceAssumption`: amounts are naturals,
and so is `Exact`; `UserAssumption`: a row may have no username;
`ListingAssumption`: a client that pages on asks for at least
one wallet at a time: the DTO admits a limit of 0, with which no one gets further;
`TransferringAssumption`: transaction ids are drawn afresh and never shared;
`AccessAssumption`: queue names and correlation ids are unique).

| theorem | says | argument |
|---|---|---|
| `WalletServiceProofs!TypeCorrect` | `Spec => []TypeOK` | `DistanceType`, `ApplyType`: one iteration turns balance data into balance data |
| `WalletServiceProofs!SaveKind` | `[]SaveKindMatchesTable` | `ControlInv`: the entity's counter is 0 exactly while there is no row |
| `WalletServiceProofs!BalanceCorrect` | `[]BalanceIsPosted` if `OnlyCovered` | `SumInv`: entity = posted + delta up to their roundings; `ApplySigned`: a covered iteration is signed addition, by cases on type and sign; `DoubleOfClose`: a rounding moves it by at most one |
| `TransactionServiceProofs!TypeCorrect` | `[]TypeOK` | one case per action |
| `TransactionServiceProofs!VersionsChained` | `[]VersionChain` | strengthened: a call about to insert knows a row of its base version created no later than it looked (`since`), and rows are never removed |
| `OneLiveWalletProofs!OnlyOneWalletMoves` | `[]OneLiveWallet` | strengthened: rows of a wallet start at version 1, so a list that starts a wallet holds the version 1 of each wallet that has one, and rejects the second |
| `BalanceHistoryProofs!BalancesExplained` | `[]BalanceExplained` | `HistoryInv`, below |
| `BalanceHistoryProofs!NeverOverdrawn`, `ThirdNeverApplied` | `[]SolventUnlessTied`; without ties every wallet's version is at most 2 | `HistoryInv` with `Affordable`, below |
| `TransactionServiceProofs!ServiceImplementsBook` | `Spec => BookSpec` | ids in the ledger are those of calls past their insert; every step is a book step or a stutter |
| `TransferringProofs!TransferUsesService` | `TransferSpec => Safety` | each action is one of `TransactionService` or leaves its variables alone |
| `TransferringProofs!TransfersKeepTheBooks` | `VersionChain`, `OneLiveWallet`, `BalanceExplained` and `SolventUnlessTied` under `TransferSpec` | `TransferUsesService` and the invariants of `TransactionService` |
| `TransferringProofs!TransferTypeCorrect`, `OwnersPay` | `[]TransferTypeOK`, `[]OnlyOwnersPay` | a debit in flight carries the request of the transfer whose id it has |
| `TransferringProofs!TransferImplementsPayment` | `TransferSpec => PaymentSpec` | recorded halves against stages |
| `WalletListingProofs!ListingTypeCorrect`, `ReadingMissesNothing`, `PagesFollowOn` | `[]ListingTypeOK`, `[]NothingMissed`, `[]PagesContinue` | `ReadingInv`, below |
| `AccessGuardProofs!AccessTypeCorrect` | `Safety => []AccessTypeOK` | one case per action |
| `AccessGuardProofs!MessagesDoNotJudge`, `NoRequestKills` | `[]NoMessageJudges`, `[]ServerSurvives` | `Mute`: no queued message carries a correlationId; nothing is registered when user-management listens, so it has no queue |
| `AccessGuardProofs!OneRegistrationSucceeds` | `[]OneRegistration` | `NamesInv`: a registration in flight wants the empty username, one that succeeded has the row with it, and rows differ in it |

None of the invariants above is inductive by itself, as they speak of tables
while the danger is in the locals of calls in flight; each strengthening says
what those locals know. `Safety` is `Spec` without fairness, so the results
carry over to `Transferring`, whose fairness is its own.

*The history of balances* (`HistoryInv`). Rows of one version may be many, but
at most one of them is ever folded in: a list read when there are two holds both,
and `updateBalance` rejects the second (`Hopeless`). So there is one row `c[n]`
for each version and one chain `h[n]` of balance data, which inserts only make
longer (`HistoryStep`); each wallet is at some `h[n]`, and so is each call in
`updateBalance` that is not hopeless (`Agrees`). That explains every balance.
For solvency, without ties: the row a wallet's look-up finds has version 1
(`EarliestIsFirst`), so versions end at 2 (`ShortInv`), and so does the history.
Before its end, no debit waits to take more than `h` ends with (`Affordable`), since the
only wallet balances it can have tested are `h[0]`, which is 0, and `h[1]`.
The proof thus also shows why `SolventUnlessTied` holds, which is no credit to the
code. `BalanceExplained` is stated with a recursive function. The library's
induction theorems cannot be instantiated here, so `LeastNatural`
derives from the well-foundedness of strict inclusion on finite sets that every
set of naturals has a least element, `Induction` and `Recursion` follow from it
for sets and functions, and `BalancesDef` unfolds `Balances`.

*Ranks* (`ReadingInv`). The rank of a wallet is the number of its owner's rows
with an earlier `createdAt`. Without ties it is the wallet's position in the answer
of a query (`PositionIsRank`), and as rows are never deleted and keep their time it
only grows (`OwnRowsStep`). A wallet that a reading still owes has a rank of at
least the offset (`Ahead`), so it is on the next page or behind it. While rows
are inserted in order ranks do not change (`OrderStep`), and what was shown is the
wallets of the lowest ranks (`Lowest`).

**Model-checked only:** the four liveness properties (`EveryCallEnds`,
`EveryTransferEnds`, `EveryRequestIsJudged`, `StartupEnds`), which are beyond the
prover, and the counterexamples of the violation runs. Every invariant of every
passing run is proved.

## Not modelled

- Wording, logging, ISO dates, uuids (fresh ids), DTO decorators, the validation
  pipe and the exception filter: stateless formatting.
- `notifyUser`, which only logs; the refusal that calls it is an outcome.
- `TransferringRepository`: nothing calls it.
- Numbers beyond 2^54, where every fourth is one, and balances beyond the range
  of `bigint`, which the database refuses as in `SaveFails`. The amounts of
  `TransactionService` and `Transferring` are unbounded naturals.
- Currencies other than NGN in `TransactionService` and `Transferring`: the
  controllers create no other (`WalletService` offers both).
- `publishWithNoResponse`, which nothing calls; a restart of either process.
- The number of queues a wallet process has declared: every request adds one that
  lives as long as the connection. It is a hazard without a property, because
  nothing in the repository says what the number may be.
- `create_user` with an `id` among its extra fields, which would update that row;
  no caller in the repository gives one. An account is never deleted.
- Tokens (`rest_framework_simplejwt`) and `user_details`, which read an account
  and change nothing; `notify`, `send_email` and `send_sms`, which no consumed
  message reaches.

## Plan

1. Done: `Money`, `WalletBalance`, `WalletService`, `TransactionService` with
   `TransactionBook`, `Transferring` with `Payment`, `WalletListing`,
   `UserManagement` and `AccessGuard`, and the proofs of all their safety
   properties.
2. Next: theorems that say more than the runs' properties do, for example how
   far the wallet of a call that returned can be behind its rows; and proofs of
   the smaller lemmas that readers of the code would ask for, such as when
   `hasUpTo` and the signed balance agree.
