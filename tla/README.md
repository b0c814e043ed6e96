# Verification of air-wallet

air-wallet keeps custodial Ethereum wallets for registered users. It is four
NestJS processes: an HTTP gateway and three services behind RabbitMQ, which
share one Postgres database. This directory holds TLA+ models of the code under
`src/apps`, the TLC runs that check them, and TLAPS proofs of all their safety
properties.

Run everything from this directory:

    tlc -workers 2 -config WalletRegistry.cfg MCWalletRegistry
    tlapm WalletRegistry_proofs.tla

## 1. The system

| part | state it keeps | operations that change it | talks to |
|---|---|---|---|
| api-gateway | Redis cache of replies to GETs, keyed by URL | one controller method per route; `AuthGuard`, `ApiKeyGuard`, `CacheInterceptor` | all services, by messages; it waits for each reply |
| auth-service | table `session`; JWTs held by clients | `login`, `validateToken` | user-service, by messages |
| user-service | table `user` | `create` (register), `verifyEmail`, `remove` | nobody |
| wallet-service: wallets | table `wallet`; `MemoryService.wallets` | `createWallet`, `removeWallet`, start of the process | itself, by events |
| wallet-service: tokens | table `token`; `MemoryService.tokens` | `addToken`, `updateToken`, `removeToken`, start | itself, by events |
| wallet-service: balances | table `balance` | `updateBalances`; the listener, after a transfer | chain nodes |
| wallet-service: listener | table `transaction` | the `block` handler of each network | chain nodes; reads the two maps |
| wallet-service: networks | table `network`; `MemoryService.networks` | only the seed at the start | - |
| wallet-service: payments | none; the nonces of the accounts are the node's | `sendTransactionWithNativeCurrency` | chain nodes |
| database | the tables, unique keys, foreign keys with `onDelete: Cascade` | a user's deletion takes sessions and wallets; a wallet's takes balances and transactions | - |

What is hard here:

* **Interleaving at every `await`.** Each service handles any number of messages
  at once. No handler uses a database transaction, so what it read may be false
  when it writes.
* **Two copies of the truth.** The maps of `MemoryService` are caches of tables
  that are kept up to date by events in the process, loaded page by page at the
  start, and unknown to user-service, whose deletions cascade into them.
* **Acknowledge, then work.** RabbitMQ messages are acknowledged on delivery: a
  service that dies loses what it took. Callers have no time limit.
* **Waiting for the chain.** The listener waits for three confirmations inside
  the handler of a block; rows are settled by transaction hash, by whichever
  handler comes first. The chain may meanwhile take the transaction back.
* **Numbers given out by others.** A payment needs the next nonce of its account,
  which the node tells, and calls for one wallet are not serialised.
* **Answers given twice.** The provider object of a network is shared by all handlers
  (`MemoryService.networks`), and ethers lets it answer a request for 250 ms with
  the answer to the same one before: balances and nonces may be that old.
* **Time.** Sessions expire to the millisecond, JWTs to the second, cache
  entries by their time to live from when the reply reached Redis.

`PROJECT.json` lists the hazards line by line, with the properties that would catch
each going wrong, or the reason why none does.

## 2. Modules

One module models one component; an `MC` module of the same name adds the
symmetry or the data of the instances, and a `_proofs` module the theorems. A definition that starts with
`\* Mutant:` is a faulty variant of the one below it and is used by no
specification: with it in place the run named in `PROJECT.json` finds the
property violated, which shows that the property can fail.

A handler step goes from the return of one `await` to the effect of the next one
on the database, so the guard and the write of different statements are never
one step. `EventEmitter2.emit` runs its listeners up to their first `await`,
and the handlers of the four events have none: emitting and updating a map are
one step. Where a handler replies without having changed anything (wrong
password, unknown wallet, wrong code), the model has no action.

### WalletRegistry

`users`, `owner`, `rows` are the tables `user` and `wallet`; `wallets` is the
map; `svc`, `total`, `skip` are the start of the process
(`loadWalletsInPartitions`); `req` holds the handlers in flight. `createWallet`
is `CreateInsert; CreateAnnounce`, `removeWallet` is `RemoveFind; RemoveDelete`
(or `RemoveDeleteFails`) `; RemoveAnnounce`, and `RemoveUser` is the statement
of user-service with its cascade. `vanished` and `stray` are history variables.

What all this amounts to for those who read the map is the module `WatchList`: each
wallet lives a life of its own, from unborn over watched to dead, with names for the
ways in which the two copies may differ. `LifeOf` reads that life off the table, the map
and the handlers, and `IsAWatchList` says that every step of WalletRegistry is one of
WatchList or none at all.

Prisma reads a page with `skip`/`take` in the order of the primary key when no
order is given; `Rank` assumes this. A statement that is on its way to the
database when the process dies is taken not to arrive.

### BalanceBook

`updateBalances` and the listener, both of which read a balance from the chain
(`ReadChain`), look for a row (`FindRow`) and update or create it. A currency
stands for a network's native currency or a token contract on it. Rows do not name it,
but network and symbol (`symbolOf`): two currencies with one symbol write one row, and
a sweep then leaves the amount of one of them. The amounts of a currency are
numbered, so that "older" and "newer" can be said. `kept` is what the provider would
repeat, until `AnswerExpires`. `shared` remembers the tasks that overlapped another
one on the same wallet, `since` what the provider gave out when a task began, and `of`
whose amount a row has. `SuccessIsFresh` therefore promises one fresh row for each
symbol, fresh meaning no older than the provider's answers at the task's start, which
may themselves be 250 ms old.

### BlockListener

The handlers of the blocks of one network. A transfer is a log of a token
contract or a transaction, with its place in the block. `at` says which block of the
chain holds a transaction; `Mine` and `Reorganise` are the chain. A fork takes
transactions out of blocks that are not final, and each may come back in a later block.
The listener then finds the transaction a second time: hence a handler is a pair of a
transfer and a block. A block is looked at as it is when the node is asked for it
(`Held`), and a height that was announced once is not announced again.

`LogsOf` a block start together, the other transfers are queued and taken one after the
other (`NextTransaction`). `txProcessing` is `CreatePending` (`CreateRefused`,
`FetchFails`), `WaitEnds` (`WaitFails`), `MarkSuccess` or `MarkFailed`; the
balance follows (`RefreshBalance`). `Plain` holds the addresses that look the
same with and without checksum capitals, because the code looks a transaction's
sender up as ethers writes it, with capitals, among keys without. `Newcomers` are
the addresses of wallets that may be created during the behaviour. The creation and
removal of wallets and tokens are shortened here; WalletRegistry and TokenRegistry
have them in full.

### Users

`create` is `RegisterNew; CreateUser` or `RegisterAgain; UpdateUser`, and
`verifyEmail` is `VerifyFind; VerifyUser`. `stale` remembers the handlers whose row
another one wrote since they read it, so that `OnlyStaleHandlersHarm` can say that
what goes wrong here goes wrong in no other way.

### Auth

`login` is `StartLogin; ValidateUser; ComputeExpiry; InsertSession; Sign`, and
`validateToken` is `StartValidation; FindSession; CheckId; Accept`. `ValidateUser` and
`CheckId` are user-service's, which must first `Take` the request from its queue: states
"credentials" and "check" are in the queue, "validating" and "checking" are taken. `up`
says whether user-service runs. When it dies (`CrashUserService`), what it had taken is
lost, and what is queued waits until somebody starts it (`StartUserService`). The
statement that deletes a user (`RemoveUser`) may still be under way in the database
when it has died. A tick is a fraction of a second.

### TokenRegistry

`token` is the table and `tokens` the map, with one entry a key
(`address_network`) where the table may have several rows. A start is `Begin`, a
`Seed` for each network of the list, and `Load`. A failure of the database during the
seed is logged and ignored (`SeedFails`), so that the process may run without a network;
a token whose network has no provider makes the start throw (`LoadThrows`). `Load`
is one step: wallet-service is the only writer and is not serving yet. `network` counts
the rows of a name; ids and native currencies are left out.

`updateToken` tells the map nothing, so that `GET tokens`, which replies from the map,
lists a token as it was before the update until the next start
(`tokens.service.ts:54`), and removing an updated token removes the entry of its new
key. `EntriesAreCurrent` excepts these keys by the history variable `astray`.

### Sending

`sendTransactionWithNativeCurrency` is `Find` (or `Refuse`) `; ReadNonce; Broadcast`
(or `BroadcastRefused`) `; Return` (or `LoseAnswer`), with `Fails` for a fault of the
node in between. `pool` and `mined` are the node's and the chain's. `kept` holds the
nonces that the providers repeat until `AnswerExpires`, and `counted` remembers, with
each answer, which calls' transactions the node had when it gave it. `SentIsKept` says
that whatever replaced a payment was signed with a nonce told before the node had the
payment: it was a call that overlapped the payment's, or one that began within 250 ms of
such an answer, which may be after the payment was reported as sent. Amounts, gas and
fees are left out: that a transaction with a nonce in use replaces the one that has it, or
is refused, is a choice, because it depends on the fees at the time.

### Gateway

`Routes` is the table of all routes of the six controllers: verb, what may refuse the
request before it is a message, service, command, fields of the payload. `Handlers` is the
table of the services' message patterns: fields read, tables written, tables shown.
A request goes through guards, the cache for a GET, the pipes, and is sent; the service
takes the message, which acknowledges it, and carries it out (`CarryOut`), refuses it
(`CarryOutFails`), fails when a part is done (`CarryOutHalf`) or finds a field of the
payload missing (`Misread`). `Listen` is the chain's listener, which writes unasked. A
service that is down is one that takes nothing, and a start needs no action of its own.
A reply is abstracted to whose data it shows and which of the changes in `changes`.
`:>` and `@@` are defined in the module as module TLC defines them, because the prover
has no definition of TLC's.

The module `Promise` says what that is worth to a client: carried out at most once; "yes"
means done, "no" means not done and never to be done, and a lost connection means
that either may be true. `KeepsPromise` is the specification of Promise under the
mapping `Told`.

## 3. Runs

| run | instance | shows |
|---|---|---|
| `wallet_registry` | 2 users, 2 requests, pages of 2, 3 wallets | map and table agree: `RowsAreWatched`, `SkippedAtMostVanished`, `KeysHaveRows`; `OnlyTheOwnerRemoves`; the refinement `IsAWatchList`; under fairness `EventsReachTheMap`, `StartEnds` |
| `balance_book` | 1 wallet, 2 currencies of one symbol or two, 2 tasks, 2 amounts each | `RowsAreFew`, `BackOnlyByOverlap`, `SuccessIsFresh` |
| `block_listener` | 3 transfers of 2 transactions, one reverted, 2 addresses, 3 blocks, 1 reorganisation | `SuccessIsConfirmed`, `FailureHasACause`, `RowsOfAHashAgree`, `SuccessRefreshes` |
| `block_listener_live` | 2 transactions in a block, of which one may move to the next, 2 confirmations, 3 blocks, 1 reorganisation | under fairness `PendingEnds`, `IncomingIsRecorded` |
| `users` | 2 e-mails, 2 passwords, 2 codes, 3 handlers, 2 users | `StaysVerified`, `VerifiedByIssuedCode`, `OnlyStaleHandlersHarm` |
| `users_takeover` | 1 e-mail, 2 handlers, 1 user | a verified user is not left alone |
| `auth` | 2 users, 2 handlers, 2 ticks a second, 2 sessions, 2 ticks | `AcceptedAsWhoLoggedIn`, `DeletedIsRefused`, `AcceptedInTime`, `JWTCoversTheSession`; under fairness `HandlersEnd` |
| `token_registry` | 3 keys of 3 networks, 2 of them seeded, 2 requests, 3 rows | `EntriesAreCurrent`, `EntriesHaveProviders`, `OneRowANetwork` |
| `gateway` | 2 users, a request of any route and a GET, time to live 1, 2 ticks | `MissesOnlyRecentChanges`, `OnlyDeletionIsMisread`, the refinement `KeepsPromise` |
| `gateway_others_data` | 2 users, 2 requests | a user gets another user's wallets |
| `gateway_deletion` | 1 request | every deletion of a user through the gateway fails |
| `sending` | 2 accounts, 3 calls | `SentIsKept`; under fairness `SentIsMined` |

Each passing run also checks the type invariant of its module.

Why the bounds are enough to be interesting:

* Pages of two with three wallets give a full page and another; a row that
  vanishes from the first moves the third wallet into it after it was read. Two
  requests are what a creation and the removal of the same wallet need to
  overlap. The code's partition of 10000 is the constant `PartitionSize`, about
  which the proofs assume only that it is positive.
* Two balance tasks and two currencies let a sweep overlap another one and the
  listener; two amounts are an older and a newer one. Symbols are chosen at the start, so
  that the currencies share a row or do not.
* In `block_listener` a token transfer and the transaction that made it touch
  different wallets, so that two handlers with rows of their own settle the same
  hash, and a reverted transaction waits behind them. Three blocks are what
  three confirmations of the first need; the reorganisation takes transactions out
  of the first, whose handlers then wait in vain or were failed by the node before.
* In `block_listener_live` a transaction that was taken out may come back, so that two
  handlers of it run, and may leave the one behind it waiting. The number of
  confirmations, 3 in the code, is a constant, and 2 here: a transaction of the second
  block is then final in the third. No wallets are created in this run (`Newcomers`).
* Three handlers in `users` are a registration, a verification and a second
  registration; two users of one e-mail are one before and one after a deletion.
* Two ticks a second let the session's expiry and the JWT's fall into different
  halves of a second. In two ticks a session that was computed at tick 0 expires, as
  does a JWT that was signed at tick 0 or 1, and a session computed at tick 1 is then
  still there.
* Three keys in `token_registry` are two of seeded networks, either of which a seed that
  failed may leave without a provider, and one of a network that never has one; three
  rows let a key have two while another token comes and goes.
* In `gateway` one request ranges over all 18 routes and the other over two of the GETs,
  one that shows what is a user's and one that shows what is everybody's. As requests
  are sent once, TLC meets the recall of an entry after a change mainly through `Listen`;
  for the other pairs of a change and a view there is the theorem `MissesRecent`. Two
  ticks pass a time to live of one after a reply took one. The promise is about one
  request.
* Three calls in `sending` let a payment be replaced by one that is replaced itself, and
  two accounts show that they do not interfere.

`CHECK_DEADLOCK FALSE` is set where the model may stop: in both `BlockListener`
runs when the bounded chain has ended and every handler is done, and in `Gateway` and
`Sending` when each request, which is sent once at most, was answered or lost. The other
runs check for deadlock.

### Fairness

Fairness is assumed only of what a running process does by itself: a load that
was begun goes on, a handler resumes when its database, node or message answered,
the provider polls, and the chain grows. It is never assumed of clients, of deaths, of faults, or of starting a
process: `docker-compose.yml` has no restart policy, so a service that died
stays down, and the liveness properties name that way out. Of the node it is
assumed in `BlockListener` that a transaction that stays in a block gets its
confirmations as the chain grows, and in `Sending` that a transaction whose nonce is next
is mined. That a transaction comes back after a fork is never assumed. In `Auth`,
user-service takes what is queued as long as it is up, and `HandlersEnd` names both ways
out: it died with the request, or it is down while the request is queued.

### Findings

1. `users_takeover`: a registration that read a user as unverified may write its
   password after the owner verified (`users.service.ts:43`).
   The mirror image, a verification that read the row before a second registration
   and verifies the second password with the first code (`users.service.ts:103`), is
   the other case of `OnlyStaleHandlersHarm`.
2. `gateway_others_data`: the global `CacheInterceptor` keys by URL, so
   a user is answered with the wallets of whoever asked last (`gateway.module.ts:96`).
3. `gateway_deletion`: `deleteUser` nests the id in the payload, so that the service
   deletes nobody (`user.controller.ts:96`).

Finding 3 makes the deletion of users unreachable through the gateway as it is.
The other modules model `remove` at the interface of user-service, where it
works.

## 4. Proofs

Every invariant and every action property of the passing runs is proved, for all
values of the constants, and so are the two refinements. Each module `M_proofs` proves
`Invariance`, `Spec => []IInv` for an inductive invariant `IInv`, with a lemma that a step
preserves each of its parts; the other theorems follow from it.

| module | theorems, and the property each states |
|---|---|
| `WalletRegistry_proofs` | `TypeCorrect` (`TypeOK`), `FewAreSkipped` (`SkippedAtMostVanished`), `EveryRowIsWatched` (`RowsAreWatched`), `EveryKeyIsExplained` (`KeysHaveRows`), `RemovalIsTheOwners` (`OnlyTheOwnerRemoves`), `MapIsAWatchList` (`IsAWatchList`) |
| `BalanceBook_proofs` | `TypeCorrect` (`TypeOK`), `RowsFew` (`RowsAreFew`), `BackByOverlap` (`BackOnlyByOverlap`), `SuccessFresh` (`SuccessIsFresh`) |
| `BlockListener_proofs` | `TypeCorrect` (`TypeOK`), `SuccessConfirmed` (`SuccessIsConfirmed`), `FailureCaused` (`FailureHasACause`), `RowsAgree` (`RowsOfAHashAgree`), `SuccessRefreshed` (`SuccessRefreshes`) |
| `Users_proofs` | `TypeCorrect` (`TypeOK`), `VerifiedForGood` (`StaysVerified`), `VerifiedByOwnCode` (`VerifiedByIssuedCode`), `OnlyOvertakenHandlersHarm` (`OnlyStaleHandlersHarm`) |
| `Auth_proofs` | `TypeCorrect` (`TypeOK`), `AcceptsWhoLoggedIn` (`AcceptedAsWhoLoggedIn`), `RefusesTheDeleted` (`DeletedIsRefused`), `AcceptsInTime` (`AcceptedInTime`), `SessionsEndWithJWTs` (`JWTCoversTheSession`) |
| `TokenRegistry_proofs` | `TypeCorrect` (`TypeOK`), `EntriesCurrent` (`EntriesAreCurrent`), `ProvidersForEntries` (`EntriesHaveProviders`), `SeedsOnce` (`OneRowANetwork`) |
| `Gateway_proofs` | `TypeCorrect` (`TypeOK`), `MisreadsDeletion` (`OnlyDeletionIsMisread`), `MissesRecent` (`MissesOnlyRecentChanges`), `PromiseKept` (`KeepsPromise`) |
| `Sending_proofs` | `TypeCorrect` (`TypeOK`), `SentKept` (`SentIsKept`) |

### What is assumed

The named assumptions in the modules, which TLC evaluates in every run: bounds are
numbers, a partition, a second and a time to live are positive, the data of an instance fits
together (transfers, seeds, routes). One is more than typing: `BalanceBook` takes the
handler slots `Tasks` to be finitely many, because `RowsAreFew` counts them. The proofs
about `Sending` assume nothing of its constants, and nowhere is a bound on what is
created, mined or ticked more than a number.

### Along which argument

**WalletRegistry.** `Process`: handlers run only while the process takes requests, and a
dead process has an empty map; without it a load could meet a handler half-way.
`HandlersKnow`: what was found has its owner, what was deleted is not in the
table, what was inserted is there unless its user or the wallet was deleted meanwhile.
`Unannounced`: a wallet is announced once. `PagesRead` carries the paging: `total`
is the number of rows and of those that vanished, and the rows that lie below
`skip` and are not in the map (`Missed`) number no more than `vanished`. Nothing less is
inductive, because a page says nothing about the pages before it. When `k` rows vanish,
each other row moves down by at most `k` places (`RankFalls`), so those newly missed had
ranks in an interval of length `k`, and as no two rows share a rank (`RanksDiffer`) they
are at most `k` (`RanksApart`, by the pigeonhole principle). `RowsAreWatched`
follows as the case of none. For `IsAWatchList`, `LifeNow` and `LifeThen` tell the
life of a wallet in a state and the next, and each action is a step of WatchList or
hidden (`LoadIsHidden`, `ListenIsStart`, `CrashIsStop`, `CreateIsCreate`,
`AnnounceIsAnnounce`, `FindIsHidden`, `RowsGo`, `RemoveIsForget`). `Forget` needs
`Unannounced`: a wallet that was removed is not announced afterwards.

**BalanceBook.** `Few` counts, for a wallet and a symbol, the rows together with the
tasks that found none and will create one: a task joins them only while there is no
row, and leaves them by adding one, so that the sum stays within the slots. A repeated
answer is never ahead of the chain (`Lags`), and the table never ahead of what the
provider gives out (`Behind`), which never falls: so a repeated answer alone does not undo
what an earlier task wrote. `Latest` (what a task read is not older than its start and, if
nobody overlapped it, not older than any row of the currency) and `Done` (the symbols
behind it are fresh) carry the other two.

**BlockListener.** That a success is confirmed needs what a handler knows between
the end of its wait and its update (`Waits`), and that no reorganisation reaches as
deep as the confirmations it waited for. The other properties need the reason
for which a handler ended (`Ends`), that no handler starts twice (`Announced`,
`NotFetched`), when a row may still be pending (`Rows`), and that the rows of a hash are
settled together (`Alike`).

**Users.** The primary key (`Keys`), and for each handler between its read and its write
what the row may have become: it is as read, or the handler is `stale` (`Updates`,
`Verifications`).

**Auth.** A session's id stays in its range because logins in flight are counted
beforehand (`Bounded`), its expiry because it is not too far off (`Computed`). `Signed` and
`Tokens` say what a JWT says of its session, also while it is being signed, and
`Validations` what a validation found out before each of its awaits. That user-service
takes a request or dies changes nothing that these speak of (`TakeStep`).

**TokenRegistry.** While a key is not `astray`, one handler at most has it in hand and its
row is the only one of the key (`HandlersKnow`); a process that is not up has empty maps
and no handlers (`Process`).

**Gateway.** That the tables of gateway and services agree is proved by evaluating them
(`AuthKnows` to `RoutesFit`). `Stages` says where the message of a request is for each
place of the request, and `Counts` how often it was carried out, which is what the
refinement `PromiseKept` rests on: a step moves one request (`RequestStep`), except
that a death of the gateway drops several clients at once and one of a service is
invisible to them. `Sound` (a value shows every change made before the tick it was
read in) holds of what services reply, what is on its way to the cache, what is cached
and what is answered (`Replies`, `OnTheWay`, `Cached`, `Answers`).

**Sending.** The node has an account's nonces below the next one, each once (`Slots`,
`Distinct`); a nonce that a call holds or a provider repeats is not above that (`Held`).
It is above the nonces of the calls that were counted for it (`Counted`), so that a call
never takes the place of one it counted; what the node has comes from calls past their
broadcast (`Senders`). So what took the place of a payment did not count it (`Placed`).

### What is only model-checked

All liveness (`EventsReachTheMap`, `StartEnds`, `PendingEnds`, `IncomingIsRecorded`,
`HandlersEnd`, `SentIsMined`): liveness under fairness is out of the prover's reach. The
properties of the three runs that find a violation are false.


## 5. Not modelled

* Failures of the database in the listener and in the load of the maps, other than by a
  constraint; a commit whose answer is lost.
* A clock for the 250 ms for which a provider repeats an answer: in BalanceBook and
  Sending an answer may be dropped at any time or kept for as long as the process lives,
  which contains what ethers does. The listener's own questions about blocks and receipts
  are taken to be answered afresh.
* A change of a token's symbol (`updateToken`, or removing and adding it) between two
  updates of a balance: `symbolOf` is chosen once for a behaviour.
* A fork between the two requests of `wait(3)`, that for the receipt and that for the
  height: `WaitEnds` is one step. If the chain grew by the missing confirmations before the
  second one is answered, the library would vouch for a transaction that is in no block.
* A `block` event that the provider skips, and a reorganisation deeper than the
  confirmations.
* A transaction without a recipient (a contract creation), whose row Prisma refuses.
* In `updateBalances`, names of networks: a token whose network is written with other
  capitals than the network is skipped (`wallets.service.ts:88`). This is a filter
  on its input; BalanceBook starts with the currencies it lets through.
* A missing RPC URL, which makes every start throw (`memory.service.ts:98`).
* Encryption of keys, which is a library call: Sending takes it that a key is read back or
  the call is refused. A node that drops a pending transaction from its pool.
* Retries by clients: each request of Gateway and each call of Sending is made once, and
  a second one is another request, because the code has nothing that ties them.
* Restarts of RabbitMQ and Redis, and eviction from the cache by `REDIS_MAX`.
* `isActive` of sessions: nothing ever sets it to false. `NetworksService.create` and
  `remove`: their message patterns are commented out.
* Mail (its calls are commented out), DTOs, Swagger, bootstraps.
* Random verification codes are a choice from a small set, which contains the
  case that two draws agree.

## 6. Plan

Every component that keeps state has its module, the two copies of the wallets have an
abstract specification, and so has the client's view of a request; all safety
properties that the runs check are proved. Next, in this order:

1. **Abstract specifications**, each with its refinement proved: the life of a
   transaction row (pending, then settled, and when it may change again); the life of an
   account (registered, verified, deleted) over Users.
2. **Composition.** BlockListener over WalletRegistry and TokenRegistry instead of
   the actions that stand for them; Gateway over Users and Auth for the life
   of an account across services.
3. **Towards liveness.** The safety part of the liveness properties: that the measure
   by which a load, a handler or a pending row approaches its end never grows.
