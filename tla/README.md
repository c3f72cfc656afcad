# Cowrie, specified in TLA+

Cowrie is the backend of a digital wallet: a double-entry ledger on Postgres,
withdrawals and deposits through a banking partner (BaaS), transfers between
wallets, KYC profiles with compliance cases, refresh-token sessions, and
reconciliation runs. This directory holds TLA+ specifications of its core,
the TLC configurations that check them, and proofs checked by TLAPS.
`PROJECT.json` maps every definition to the source lines it models. All paths
below are relative to the repository.

## 1. The system

| component | state | operations | talks to |
|---|---|---|---|
| ledger (`src/ledger`) | `Account`, `LedgerTransaction`, `Posting` | `saveTransaction`, `getBalance`, `createAccount`, `PooledAccountService.getOrCreate`, `POST /ledger/transactions` | Postgres row locks; called by every use case that moves money |
| withdrawals (`src/wallet`) | `Withdrawal` | `InitiateWithdrawal`, `AttemptExternalTransfer`, `SettleWithdrawal`, `ReleaseWithdrawal` | ledger, banking partner |
| reconciliation (`src/reconciliation`) | `ReconciliationRun`, `ReconciliationDiscrepancy` | `RunReconciliation`, `ReconcileStuckWithdrawals`, `ReconcileBalance` | withdrawals' use cases, ledger, banking partner |
| deposits, transfers (`src/wallet`) | `Deposit`, `Transfer` | `ProcessDeposit`, `InitiateTransfer` | ledger |
| wallets, virtual accounts (`src/wallet`) | `Wallet`, `VirtualAccount` | `CreateWallet`, `CreateVirtualAccount`, `RetryVirtualAccountProvisioning` | called by profiles; banking partner |
| profiles, compliance (`src/identity`) | `Profile`, `ComplianceCase` | `CreateProfile`, `UpgradeToTier2/3`, `ResolveComplianceCase` | screening gateway, wallets |
| sessions (`src/identity`) | `RefreshToken` | `LoginUser`, `RefreshAccessToken`, `Logout` | Postgres row locks |
| registration, users (`src/identity`) | `User` | `RegisterUser`, the lookups of `LoginUser` and `RevealBvn` | audit |
| audit (`src/audit`) | `AuditLog` | `create` inside other operations, an admin listing by pages | all of the above |
| the rest | none | access tokens, guards, step-up, encryption, validation, throttling | |

The processes are Node servers, any number of them, each handling many HTTP
requests at once. They share nothing but the database, so that what can
interleave is what lies between two `await`s: SQL statements, and calls to the
partner. A database transaction (`PrismaTransactionManager.run`) commits as a
whole or not at all, at Postgres' default isolation, READ COMMITTED. Locks are
taken explicitly by `SELECT ... FOR UPDATE` (ledger accounts, the user at
login), implicitly by UPDATE, DELETE, unique indexes and foreign keys.

What is hard here, and drives the properties:

* **Reads outside the transaction that writes.** Profiles, idempotency keys,
  wallets and the pooled account are looked up on another connection first.
* **Balances are derived.** Nothing but the order of locks, checks and inserts
  in `saveTransaction` keeps concurrent debits from overdrawing an account.
* **A saga without an outbox.** A withdrawal is two database transactions and a
  call to the partner in between; any of them may be the last thing a process
  does.
* **Reconciliation runs beside live requests** and calls the same use cases.
* **Clients and the partner repeat themselves.** Keys and references are unique
  columns, checked twice: by a lookup, and by the insert. So are e-mails.
* **Transactions that need a second connection.** Whoever looks something up
  outside its open transaction waits for the pool, and may wait for others who
  wait for it.
* **Pages of a growing log.** A listing is cut by offset, newest first, while
  entries are added in front.

`PROJECT.json` lists the hazards line by line, with the properties that would
catch each going wrong, or why none does yet.

### What makes each component correct

* Ledger: no `LIABILITY` account below zero; a check never stale at commit;
  debits and credits of a currency equal at all times; every call ends.
* Withdrawals and reconciliation: the pending account holds exactly the open
  reservations; a wallet pays once per withdrawal and is paid back for failed
  ones; the partner is asked once; a status never goes backwards and never
  lies; what was sent gets settled and what was rejected released, whoever dies.
* Deposits and transfers: every balance is explained by the recorded deposits
  and transfers; a deposit arrives; a request ends, however small the pool.
* Sessions: a session never splits, and does not outlive a logout or a later
  login.
* KYC: a wallet exactly for those who may have one; one resolution per case;
  nobody passes the screening without a decision; status and resolution agree; no
  tier without its upgrades; a virtual account is opened and audited once.
* Registration and audit: one user per e-mail; nothing is answered that is not in
  the log; a walk through the pages misses nothing.

## 2. The modules

```
Postings ------+-- AbstractLedger <---- implemented by -+
               +-- Ledger ------------------------------+-- LedgerProofs
               +-- Withdrawals -- Reconciliation -------+-- ReconciliationProofs
               |        +-- implements AbstractWithdrawal
               +-- Payments ----------------------------+-- PaymentsProofs
AuditLog -------- Accounts -------------------------------- AuditProofs
Sessions -- implements AbstractSession -------------------- SessionsProofs
Kyc ------------------------------------------------------- KycProofs

SumLemmas ------- PostingLemmas     used by the proofs about money
```

Each component has an `MC*` module with the values of its constants, and one
`.cfg` per question. Operators marked `\* mutant:` are deliberate mistakes, used
to see that each property can fail; no specification uses them.

**Postings** (`ledger-transaction.ts`, parts of `prisma-ledger.repository.ts`).
Postings are records and a transaction is a sequence of them. `Balanced` is
`LedgerTransaction.balanced`, `Added` is what the inserts do to the sums of an
account, and `BalanceOf` is `getBalance`'s rule for the two account types.
Amounts are natural numbers, which the DTOs' `^\d+$` guarantees.

**Ledger** (`saveTransaction`). One process per invocation, with `pc` going
`idle -> locking -> checking -> writing -> written -> posted`. `LockRow` takes
the rows of the `FOR UPDATE` query one at a time, in any order, as there is no
ORDER BY; `CheckPosting` is one turn of the loop with the balance it reads;
`WritePosting` one insert, into `written`, which others do not see before
`Commit`. The state `written` is the caller's own work in the same database
transaction (its withdrawal, deposit, transfer and audit rows). `Abort` cuts a
call short anywhere; `AbortDeadlocked` is Postgres' detector. `sums` keeps the
committed postings summed by account and direction, which is all that
`getBalance` and the properties can tell apart. A posting in a currency that is
not its account's never gets that far, so sums need no currency.

**AbstractLedger** is the promise the use cases rely on: a call posts a balanced
transaction at one instant with no `LIABILITY` account left below zero, or
nothing. `Ledger` is shown to implement it (`KeepsPromise`) with
`answer <- Answer`, `sums` unchanged. The posting happens at `Commit`. This is
what lets the modules below treat a database transaction that ends in
`saveTransaction` as a single step, and they are shown not to take more than it
gives: `Payments` and `Withdrawals` implement the same module (`ImplementsLedger`), each of
their records, deposits beside the saga included, standing for the answer of one call,
or, of a withdrawal, of two: one as its row is stored and one as it is resolved. So a record is never there
without its postings, nor postings without it, and none is posted twice.

**Withdrawals** (the saga). `Admit`, `ReturnExisting`, `RefuseNoWallet` are the
lookups before the first transaction; `Reserve` is that transaction, with its
unique key; `MarkProcessing`, `AskPartner` and `Settle` or `Release` follow, and
`Die` may come between any two. `rail` is what the partner did with the key;
it treats a repeated key as the same transfer (the purpose of passing it), and
may decide later what it answered UNKNOWN to (`Decide`). `OwnerOf` maps wallet
ids to user ids, and `FindByUserId` works on it, as the table does: this is what
makes `ReleaseWithdrawalUseCase`'s lookup by wallet id visible. The two
platform accounts exist, and there is one currency, NGN. Deposits share the pooled
account and the partner's cash with the withdrawals, so they are here too: one
`Arrives` at the partner, which raises the cash, and at some later time, perhaps
never, `ProcessDeposit` posts it, which raises the pool and the wallet. Of the
announcement only its success is a step: repeated and failed ones are in Payments.

**AbstractWithdrawal** is what the owner of a wallet is promised: the money of a
withdrawal is held, once and only if there is enough; the partner sends it,
refuses it or says later; then it is gone for good or back. A deposit adds to the
wallet, once. It knows neither ledger nor requests nor runs. `ImplementsWithdrawal`
maps the saga to it: the stage is read off the row's status and the partner's verdict,
`available` is the wallet's balance, `credited` the deposits that are posted. `PostedOnce` and `NobodyOverpays` say what the books make of a
withdrawal that is resolved twice, which only overlapping runs do.

**Reconciliation** extends it with runs: `Snapshot`, `Requery`, `SettleStuck`,
`ReleaseStuck`, `Record`, then `ReadInternal`, `CompareExternal`, `CompleteRun`,
`AuditRun`; `RunThrows` is an exception no one catches, `KillRun` a crash.
With `Overlap = FALSE` a snapshot is taken only while nobody is at work on a
PROCESSING withdrawal. *The code does not enforce this.* It is an operating
assumption under which the strong properties hold; without it they do not
(`SagaDoubleSettle`), and the properties that do are in `SagaOverlap`. `byRuns` is a
history variable: the withdrawals that runs have resolved, of which the
discrepancy table should tell (`ReportedByRuns`). So is `seen`: the deposits that were
in the ledger when a run read the pooled account (`OnlyDepositsHide`).

**Payments** (deposits, transfers, the pooled account). The lookups before the
transaction are part of `Announce` and `AskTransfer`. `FindPool`, `CreatePool`
and `LoseCreateRace` are `getOrCreate` inside the deposit's transaction:
`creator` holds the uncommitted row for which other inserts wait, and `aborted`
marks the transactions Postgres refuses to continue after the failed insert,
caught or not. `PostDeposit` and `PostTransfer` are the rest of the
transaction and its commit. A transaction holds one of `poolSize` connections
from its start to its end (`Exhausted`); the lookups of `getOrCreate` need another.
`Starved` is a transaction waiting for one, `TimeOut` Prisma's time limit on
interactive transactions, which the code leaves at its default.

**AuditLog** (entries and their listing). `Record` stamps an entry with the time,
`Create` stores it; in between its transaction may take any time, so entries
become visible out of order. `StartWalk`, `FindMany`, `Count` and `Leave` are an
administrator who asks for one page after the other; `IsPage` is
`ORDER BY createdAt DESC` with `skip` and `take`, under which entries of one time
come in any order, and in another one the next time.

**Accounts** extends it with the requests that write entries: registration
(`Register` looks the e-mail up, `InsertUser` inserts or waits for the uncommitted
row of another, `RefuseInsert` is the violated constraint, `CommitRegistration`
commits user and entry together), logins (`LoginUnknown`, `Login`) and reveals.
`WriteEntry` stores the entry of a login or a reveal and answers; `Die` may come
before. An e-mail is typed in several spellings and normalised. The answer stays
in `pc`.

**Sessions** (refresh tokens). A login is `LockUser`, `DeleteAll`, `CommitLogin`
in one transaction, `deleting` being the rows it has locked by deleting them. A
refresh is `Consume` (one autocommitted DELETE ... RETURNING) and `Store`. `Store`
waits for a login's lock, because the foreign key of the new row takes a share
lock on the user; a logout's audit entry names no user and so waits only for the
token's row, which makes the whole logout one step. `session`, `latest`,
`overtaken` and `closed` are history variables: no guard reads them.

**AbstractSession** is what a user is promised of a login, with neither tokens nor
transactions: the session it begins is held until it ends for good, and has no
holder while a token is exchanged for the next. A login ends the user's other
sessions that are held; one that is being exchanged it may miss.
`ImplementsSession` maps a session to the token of its login: its stage is read off
the stored token or the request that goes back to it (`HoldingTokens`, `Exchanging`,
`BeingMade`).

**Kyc** (profiles, cases, wallets, virtual accounts). `CreateProfile` is the
transaction with profile, case and wallet; `FindVirtualAccount`,
`OpenVirtualAccount` and `AuditVirtualAccount` the three steps of provisioning,
first by the system and then by `RetryProvisioning`; `BeginUpgrade` and
`Upgrade` the read and the write of a tier upgrade; `ClaimCase`, `ReadProfile`
and `ResolveCase` the resolution, whose conditional update keeps the case locked
(`Claimed`) and whose read of the profile takes no lock. `Fail` covers crashes,
errors of the partner and taken numbers. The history variable `unaudited` holds the
users whose account was committed by a request that failed before it wrote the entry.

## 3. The runs

States are distinct states found by TLC. Every property of a passing run has a
mutant of the code in `PROJECT.json` that breaks it.

| run | question | bounds | states |
|---|---|---|---|
| `LedgerSafety` | `TypeOK`, `NoOverdraft`, `ChecksStayTrue`, `TrialBalance`, `KeepsPromise` (refinement), `EveryCallEnds` (liveness) | 3 calls, 7 posting lists, 4 accounts and a missing one, 2 currencies | 168,059 |
| `SagaSettles` | `TypeOK`, `PendingCovers`, `DebitedOnce`, `DriftIsInFlight`, `OnlyDepositsHide`, `ReportedByRuns`, `ImplementsWithdrawal`, `ImplementsLedger` (refinements), `DecidedIsResolved` (liveness) | 2 requests at a time, of 2 kinds, 1 deposit, 2 keys, 2 wallets of mixed ids, 1 runner, 1 killed run | 88,010 |
| `SagaOverlap` | `AskedOnceReserved`, `StatusIsTrue`, `NobodyOverpays`, `StatusForward` | 2 requests at a time, of 4 kinds, 2 keys, 2 wallets of mixed ids, 2 overlapping runs | 1,475,026 |
| `PaymentsSafety` | `TypeOK`, `LedgerMatchesRecords`, `ImplementsLedger` (refinement), `DepositsArrive`, `EveryRequestEnds` (liveness) | 2 servers, pools of 2 and of 3 connections, 2 references, 2 keys, 8 requests, 1 crash | 14,376 |
| `SessionsSafety` | `TypeOK`, `OneTokenPerSession`, `LatestLoginRules`, `ImplementsSession` (refinement) | 2 users, 3 requests, 4 tokens (all symmetric) | 8,161 |
| `KycSafety` | `TypeOK`, `WalletIffAllowed`, `ResolvedOnce`, `ClearedByDecision`, `TiersAreEarned`, `AccountAuditedOnce`, `EveryWalletGetsAccount` (liveness) | 1 user, 3 requests, 2 failures | 106,837 |
| `AuditTrail` | `TypeOK`, `RegisteredOnce`, `AnswersAreAudited`, `WalkShowsAll`, `EveryRequestEnds` (liveness) | 2 requests, 2 users at first, a free e-mail in 2 spellings, 2 filters, pages of 1 entry, 3 instants | 175,234 |

Why these bounds are enough to be worth something: overdrafts, double
settlements, lost updates and split sessions need two actors; a third lets
another act in the middle of a race, and deadlock rings of three differ from
those of two, so the ledger has three calls, and KYC two administrators and a
user. Two keys let one withdrawal take another's reservation. One deposit can hide a
withdrawal in flight from a run, and in `SagaSettles` it is what funds the other
withdrawal, which is refused before. Users of KYC share
nothing but the unique columns, so one is enough. Four tokens are two logins and
a refresh of each. With two servers a pool of two connections can be exhausted by
transactions that both wait, and one of three cannot. A page of one entry is the
size at which every new entry moves all others to the next page; three instants
let an entry be stamped before and committed after another. Bounds
in guards are `MaxDeaths`, `MaxFailures`, `MaxTime` and the set `Tokens`; when tokens
run out, logins stop, and the clock stops at `MaxTime`. A handler of `Accounts`
serves one request, as what it creates carries its id. Sessions keeps a step that is always possible (`Logout`) and
Kyc one (`Refuse`), so neither reports a deadlock for that reason; the ledger
stutters explicitly when all calls have ended (`Finished`). Withdrawals and
Payments go on for ever, as runs and announcements are repeated.

**Wallets of mixed ids.** In `SagaSettles` and `SagaOverlap` one wallet has the id of its owner, which
the code's random UUIDs never do, and the other has not. The first is the only way
to reach `ReleaseTx`, since with real ids the lookup finds nothing
(`SagaRejected`): its withdrawals show what the refund path does when the lookup is
right. The second is the program as it stands. `DecidedIsResolved` says of each key that
what the partner has decided is acted upon, unless there is a refund that finds no wallet:
every run throws on that one, perhaps before it has come to the others. That exception is
the disagreement `SagaRejected` shows, and its consequence for the other withdrawals; no
property covers it (hazards in `PROJECT.json`).

### Runs that find a disagreement

| run | property | what the code does |
|---|---|---|
| `LedgerTwice` | `NoOverdraft` | two debits of one wallet in one posting list are each compared with the same balance (`prisma-ledger.repository.ts:126`); `docs/16` forbids any such debit |
| `SagaRejected` | `RejectedIsReleased` | the refund looks the wallet up by user id but passes a wallet id (`release-withdrawal.use-case.ts:29`); `docs/27`: "`FAILED` reverses" |
| `SagaDoubleSettle` | `PendingCovers` | a settlement does not look at the status (`settle-withdrawal.use-case.ts:30`); `docs/10`: "Every saga step ... must be idempotent" |
| `SessionsOneToken` | `AtMostOneToken` | a refresh in flight stores a token after a login (`refresh-access-token.use-case.ts:30`); comment in `login-user.use-case.ts:78` |
| `KycLostUpdate` | `DispositionHolds` | an upgrade writes a stale screening status back (`upgrade-to-tier2.use-case.ts:23`); `docs/20` |

Each has a theorem (section 4). `OnlyDoubleDebitsOverdraw`, `PostingOnceSuffices`,
`OneTokenUnlessStoredLate` and `FreshCopiesSuffice` say that what the run shows is the
only way the property can fail, `RefundsNeverFound` that it always does.

Other places where the code and the documents differ were met while modelling.
The models behave as the code does, and no run is devoted to them:

* an exception in one withdrawal of a run (`reconcile-stuck-withdrawals.use-case.ts:40`)
  ends the run, which is then neither completed nor audited (`RunThrows`);
  `docs/30-reconciliation.md:124` says "Every reconciliation run is recorded and
  audited, whether or not it found anything";
* runs select PROCESSING only (`prisma-withdrawal.repository.ts:104`): a
  withdrawal whose process died between the reservation and that status keeps its
  money reserved, and a repeated request only returns the row (`Die`, `Snapshot`);
* losing the race to create the pooled account aborts the database transaction of
  the deposit (`pooled-account.service.ts:30`, `LoseCreateRace`), although the
  account is found by the second lookup; `docs/27-deposits-and-withdrawals.md:147`
  calls it race-safe. The next announcement succeeds (`DepositsArrive`);
* clearing a case opens a wallet without provisioning its virtual account
  (`resolve-complaince-case.use-case.ts:64`): it exists once the user asks
  (`EveryWalletGetsAccount` needs `RetryingSpec`); `docs/26-accounts.md:99` says
  it is provisioned automatically;
* a run commits a settlement before its discrepancy
  (`reconcile-stuck-withdrawals.use-case.ts:32`): killed in between, it leaves a
  withdrawal resolved that no report will mention, as later runs no longer see it.
  One for each killed run is the most that can be missing (`ReportedByRuns`);
* a virtual account and its audit entry are two commits
  (`create-virtual-account.use-case.ts:44`), and a retry writes no entry;
  `docs/23-audit-logs.md:182` says the entry is atomic with the action. What does
  hold is `AccountAuditedOnce`: an account nobody is about to audit has one entry,
  unless the request that opened it failed between the two, and that one has none;
* the balance check is no proof that nothing is in flight: it compares the ledger, read
  first (`reconcile-balance.use-case.ts:25`), with the partner's cash, read second, and
  a deposit that has reached the partner but had no entry in the ledger yet
  (`process-deposit.use-case.ts:59`) offsets a withdrawal of its amount, or is taken
  for a mismatch. `OnlyDepositsHide` says that this is all that can hide money in flight:
  whatever is sent and settled between the two reads, the difference falls short of
  it by such deposits at most;
* the resolution of a case writes back the whole profile it has read on another
  connection (`resolve-complaince-case.use-case.ts:44`): an upgrade committed in
  between is undone, and its NIN or address erased (`ReadProfile`, `ResolveCase`).
  `KycLostUpdate` shows the same race in the other order. That "Tier 3 requires
  already being Tier 2" (`docs/19-profiles-and-kyc.md:166`) does hold, in the sense
  of `TiersAreEarned`.

### Fairness

* `Ledger.FairSpec`: weak fairness of what drives a call that has begun: the
  process goes on, the database grants a free lock and detects deadlocks. A
  waiting call that is overtaken for ever would need infinitely many calls.
  Neither arrival nor `Abort` is fair.
* `Reconciliation.FairSpec`: handlers and runs keep going unless killed, and runs
  are triggered again and again. The code has no schedule (`docs/30` says so);
  that operators keep triggering runs is an assumption. The number of killed
  runs is bounded, or no run need ever finish. Nothing says that a deposit comes, or
  that one that has come is ever announced.
* `Payments.FairSpec`: steps are weakly fair; announcing is strongly fair,
  because the partner repeats an announcement until it is acknowledged and a
  server is free only now and then. `TimeOut` is one of the steps: without the time
  limit, `EveryRequestEnds` fails. `DepositsArrive` excepts a pool that is exhausted
  again and again, as every announcement may then time out.
* `Accounts.FairSpec`: a request goes on unless it is killed. Neither arrivals nor
  the administrator's walk are fair.
* `Kyc.FairSpec` is weak fairness of each request's steps. `RetryingSpec` adds
  that users without an account keep asking: strongly, as above.

## 4. The proofs

Every invariant, action property and refinement that a passing run checks is
proved for all values of the constants that meet the modules' assumptions. Only the
liveness properties are left to TLC: liveness and ENABLED are out of the
prover's reach.

**Ledger** (`LedgerProofs`), for every set of accounts, calls, currencies and
posting lists that meets `AccountsAssumption`, `CallsAssumption`,
`TransactionsAssumption` and `OpeningAssumption` (finitely many accounts, books that
are balanced at first):

* `TypeCorrect`: `Spec => []TypeOK`;
* `ChecksNeverStale`: `Spec => []ChecksStayTrue`;
* `BooksBalance`: `Spec => []TrialBalance`;
* `LedgerPostsWhole`: `Spec => AnyList!Spec`: whatever lists are sent, a call posts a
  whole balanced list at one instant or nothing, and the accounts that no list debits
  twice (`Singly`) stay at zero or more;
* `OnlyDoubleDebitsOverdraw`: `Spec => OverdrawnOnlyTwice`: an account falls below zero,
  or from there further, only at the commit of a list that debits it twice, which is
  what `LedgerTwice` shows to be possible. It is the only way past the check;
* `NeverOverdrawn`: `Spec => []NoOverdraft`, and `LedgerKeepsPromise`:
  `Spec => KeepsPromise`, both assuming `SingleDebit`, that no list debits an account
  twice. The lists of the application's own callers, one debit and one credit, satisfy
  it (`MovementsDebitOnce`); lists sent to `POST /ledger/transactions` need not.

`ChecksStayTrue` is not inductive: a check is kept true because
nobody else can commit a change to the account, which is because the call holds
the row, which is because it has passed the SELECT. So

    LockInv == TypeOK /\ RowsHeld /\ WritesHeld /\ ChecksStayTrue

where `RowsHeld` says that a call past its SELECT holds the row of every account
it names, and `WritesHeld` that it has written to no other. Its four parts are
separate lemmas per step, with one case per action. The interesting case is
`Commit` (`CommitKeepsChecks`): an account another call has checked is held by that
call, so the committing call has written nothing to it. For `NeverOverdrawn`,
`OneDebitWritten` adds that what a call has written as the debit of a `LIABILITY`
account is the amount of one checked posting; with `ChecksStayTrue` at the commit,
the balance covers it (`CommitKeepsCover`). It is stated account by account, for calls
whose list debits the account once, so that one strange list takes the guarantee
from the accounts it debits twice and from no other. For `BooksBalance`, `PostInv` says that
what a call has written is the postings it is done with, by account and by
currency (`WrittenIsDone`); at the commit it is done with all, and they balance.
The refinement puts these together: every step but `Commit` leaves the abstract
state alone, or answers, and `Commit` posts the whole list at once.

**Withdrawals and reconciliation** (`ReconciliationProofs`). Whether or not runs
overlap with live requests:

* `SagaTypeCorrect`, `PartnerAskedOnce` (`AskedOnceReserved`), `StatusesAreTrue`
  (`StatusIsTrue`), `StatusesMoveForward` (`StatusForward`), `ResolutionsReported`
  (`ReportedByRuns`), `NobodyEverOverpays` (`NobodyOverpays`);
* `RefundsNeverFound`: if no wallet's owner has the id of a wallet
  (`IdsAsGenerated`, true of random ids), a withdrawal the partner has rejected never
  leaves PROCESSING. `SagaRejected` is thus no race: no refund ever succeeds;
* `PostingOnceSuffices`: in every behaviour in which no withdrawal is posted twice
  (`PostedOnce`), `PendingCovers`, `DebitedOnce`, `DriftIsInFlight`,
  `OnlyDepositsHide`, `ImplementsWithdrawal` and `ImplementsLedger` hold. Overlapping
  runs break the first of these (`SagaDoubleSettle`); the theorem says that resolving
  twice is the only reason, so that an update of the status that requires it to be
  PROCESSING still, in the transaction that posts, would restore them all without
  keeping runs and requests apart.

Under `~Overlap`, the operating assumption explained in section 2, which is a
hypothesis of the theorem and not of the module:

* `QuietRunsPostOnce` (`PostedOnce`), and through it, by `PostingOnceSuffices`,
  `ReservationsCovered` (`PendingCovers`), `WalletsDebitedOnce` (`DebitedOnce`),
  `DriftIsMoneyInFlight` (`DriftIsInFlight`), `ChecksMissDepositsOnly`
  (`OnlyDepositsHide`), `SagaImplementsPromise` (`ImplementsWithdrawal`) and
  `SagaKeepsLedgerPromise` (`ImplementsLedger`).

`SagaInv` relates where each request and each run is to the row, the verdict and the
number of calls; it holds however they overlap. `ReportInv` adds that a run about to
record has resolved what it records; only `KillRun` adds to what stays unreported,
and one withdrawal at most (`NoneLost` covers all other steps). `AloneInv` adds that a withdrawal
is resolved by one request or one run at a time, which `Quiet` ensures. A step has one
of a few effects (`Effect`: reserve, mark, decide, settle, release, or none on money
and rows), or settles or releases what is resolved already (`Again`), which posts the
amount and leaves the row alone: so `PostedOnce` excludes `Again`, and `AloneInv`
excludes it too. The balances as sums over the rows follow effect by effect. They are
proved through three errors, `Shortfall`, `Missing` and `Extra`, the amounts by which the
pending account, the pool and each wallet are off, where the last two are what the
withdrawals leave unexplained (`Unclaimed`, `Surplus`) with the deposits accounted for.
Every effect leaves the errors as they are (`SameErrors`), and so does a deposit that
arrives or is posted (`FundMoney`), so that they stay zero and `MoneyInv` holds; `Again`
lets them only grow (`AgainMoney`), and that they are never negative is `NobodyOverpays`.
Its last part, that no money is made, is the sum of all wallets (`Purses`) against the
platform's two accounts. `FundingInv` types the deposits and says that those a run has
seen are in the ledger. For the balance check, `Watched` says that the pooled account less
the deposits in it (`OwnPool`) has not grown since a run read it: deposits enter both
sides, and what is left can only be lowered, by settlements. For the refinements each effect maps to one abstract step:
`StepOwner` reads the owner's off the row and the verdict, `StepLedger` shows that
storing a row and resolving it answer one call each (`OneAnswer`) and post one whole
list (`ReservePosts`, `ResolvePosts`) that the accounts cover (`AlwaysSolvent`).
`IdAssumption` (no customer has the id of somebody else's wallet),
`FiniteAssumption` (finitely many keys and wallets) and `DepositAssumption` (finitely many
deposits, each of an amount to a wallet) are assumptions of `Withdrawals`; ids are random
UUIDs.

**Payments** (`PaymentsProofs`): `PaymentsTypeCorrect`, `LedgerSaysWhatRecordsSay`
(`LedgerMatchesRecords`) and `PaymentsKeepPromise` (`ImplementsLedger`), for any
servers, pools, deposits and transfers. `RequestsSound` says what an open
transaction knows of the request it serves. Every step then either leaves money and
records alone, or records one deposit or transfer under an unused key and moves its
amount (`Money`), so both sides of the equation grow alike, and the step is the
posting of a list of two for the call that the key stands for; that wallets stay at
zero or more (`AlwaysFunded`) is the part of the promise that needs the check.

**Registration and audit** (`AuditProofs`): `TypeCorrect`, `EmailRegisteredOnce`
(`RegisteredOnce`), `AnswersInLog` (`AnswersAreAudited`) and `WalkMissesNothing`
(`WalkShowsAll`), for any requests, filters and page sizes. `Prepared` is what a
request holds on its way, `RowsApart` says that an uncommitted user has its e-mail to
itself. For the walk, `WalkInv` says that an entry of the start that has not been shown has
at least as many newer ones as the pages turned so far hold, so that it is still to
come; new entries push it back, never forward.

**Sessions** (`SessionsProofs`), for any users, tokens and requests:
`SessionsNeverSplit` (`OneTokenPerSession`), `LogoutIsFinal` (`ClosedForGood`),
`LoginsRule` (`LatestLoginRules`), `SessionsKeepPromise` (`ImplementsSession`),
`SessionsTypeCorrect`, and `OneTokenUnlessStoredLate`: `AtMostOneToken` holds in every
behaviour in which no refresh stores its token after a login of the user has committed
between its two statements (`NoneStoredLate`), which `SessionsOneToken` shows one to
do. A session is held by its
stored token, by a refresh between its two statements, or by the login about to
store its first token. `SessionInv` says that there is
one holder at most (`LoginsFresh`, `HeldOnce`) and none once the session is closed
(`ClosedUnheld`); `OneTokenPerSession` alone is not inductive, as it says nothing of
tokens drawn and not yet stored. Most steps only make holders let go
(`FewerHolders`); the four that do not have a lemma each. For `LoginsRule`,
`LoginInv` adds that a login holds the row of its user from its DELETE to its commit
(`RowOfUserHeld`), so that no token of the user escapes it (`NothingEscapes`): a
refresh cannot store one while the row is locked. For the refinement, `PromiseInv`
adds that every session goes back to a login (`Rooted`) and that a login deletes
tokens of its own user only (`DeletingOwn`). `StageOf` then gives a session's stage
by its one holder, and each step changes the stage of one session (`OneMoves`,
`OneEnds`, `OneBegins`), or of none. `ClosedForGood` is left to its
proof: the run checks `ImplementsSession`, in which a session that has ended stays so.

**Profiles and wallets** (`KycProofs`), for any users, requests and number of
failures: `WalletsFollowDecisions` (`WalletIffAllowed`), `CasesResolvedOnce`
(`ResolvedOnce`), `NobodyClearedUndecided` (`ClearedByDecision`), `TiersEarned`
(`TiersAreEarned`), `AccountsAuditedOnce` (`AccountAuditedOnce`), `KycTypeCorrect`. Requests write back
profiles they read long ago, so an invariant has to speak of the
copies: `CopiesDecided` says that a copy that is CLEARED is of a user without a case
or whose case was cleared, and that any other copy is of a user with a case.
`ClaimsOpen` says that a claimed case is open and claimed once. The reverse of
`NobodyClearedUndecided` does not hold: a user whose case was cleared may be FLAGGED
or BLOCKED again (`KycLostUpdate`). `CopiesEarned` says of the tier of a copy
what `TiersAreEarned` says of the profile's. `OneAuditor`, one request at most between the
account and its entry, is what the unique index gives to `AccountsAuditedOnce`;
`LostForGood` says that an entry lost to a failure is lost for good: the account exists,
and nobody is about to audit it or ever will be.
`FreshCopiesSuffice`: in every behaviour in which upgrades and resolutions write back
profiles that have not changed since they were read (`NoneStale`), `DispositionHolds`,
and a profile has the status and the tier the audit log tells (`ProfilesFollowLog`). So
an update that requires the profile to be as it was read would be enough.

**Sums.** Balances are sums over postings, rows and records. `SumLemmas` derives what
`SumFunctionOnSet` does when an element is added, changed or split off from its
definition; as induction over an operator is not available, `SetInduction` is
induction for a family of subsets, from the well-foundedness of strict inclusion.
`PostingLemmas` says that a list of one debit and one credit of an amount balances, and
what it does to the sums of an account.

## 5. What is not modelled

* The mock partner's own behaviour. Its requery always answers SUCCESSFUL, also
  for a transfer it rejected or never saw; the port's contract is modelled.
* Integer width: amounts beyond int8 fail in the database like any other error.
* Currencies other than NGN outside `Ledger`, and platform accounts that do not
  exist yet in Withdrawals.
* A second use of a unique phone number, BVN or NIN, other than as a failure.
* Announcements beside the saga that are repeated, fail, or find no pooled account: they
  are in `Payments`, and change nothing the saga or a run could see.
* A lookup that waits for a connection outside any transaction: it holds none, so
  that it delays only itself. The pool of Withdrawals and Kyc is not modelled.
* Access tokens, guards, step-up, encryption, validation, throttling, the other
  listings, and the wording of answers: no state to follow.

## 6. Plan

Done: all components that keep state, the proofs of what the runs check but for
liveness, and of what causes the disagreements. What is left, in this order:

1. an abstract case for `Kyc` to implement, as `AbstractSession` is for `Sessions`;
2. the creation of the pending account inside a withdrawal, as in a deposit;
3. pure operators checked against a reference: the mock's NUBAN check digit.
