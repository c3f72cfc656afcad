------------------------------ MODULE Payments ------------------------------
(***************************************************************************)
(* Deposits announced by the banking partner and transfers between         *)
(* wallets: two use cases that post to the ledger and store the record     *)
(* that makes them idempotent in one database transaction.  A deposit also *)
(* needs the pooled asset account, which PooledAccountService creates the  *)
(* first time, inside the same database transaction but after looking for  *)
(* it outside.  The steps before the ledger posting are kept apart to show *)
(* that race; posting, record, audit entry and commit are one step, as the *)
(* row locks of the ledger make them.                                      *)
(*                                                                         *)
(* A server handles one request after another.  The partner announces a    *)
(* deposit any number of times, and a client may repeat a transfer.        *)
(*                                                                         *)
(* Every open database transaction holds one connection of a pool, and a   *)
(* lookup outside it needs another for as long as it takes: with the pool  *)
(* exhausted by transactions that are about to look something up, nothing  *)
(* moves until Prisma's time limit rolls one of them back.                 *)
(***************************************************************************)
EXTENDS Postings, FiniteSets

CONSTANTS Servers,
          Wallets,          \* wallet ids, each naming its LIABILITY account
          Numbers,          \* virtual account numbers that exist
          WalletOfNumber,   \* and the wallet of each
          Deposits,         \* what the partner may announce
          Transfers,        \* what clients may ask for
          References, Keys, \* external references and idempotency keys
          Pool,             \* the pooled asset account
          PoolSizes,        \* numbers of connections a pool may have
          MaxDeaths,        \* bound: how many requests are cut short
          NoRow, NoRequest, NoServer

Accounts == Wallets \cup {Pool}
Currency == "NGN"

ASSUME PaymentAssumption ==
    /\ Pool \notin Wallets
    /\ WalletOfNumber \in [Numbers -> Wallets]
    /\ NoServer \notin Servers
    /\ MaxDeaths \in Nat /\ PoolSizes \subseteq Nat
    /\ IsFiniteSet(References) /\ IsFiniteSet(Keys)
ASSUME RequestAssumption ==
    /\ \A q \in Deposits : q.reference \in References /\ q.amount \in Nat
    /\ \A q \in Transfers : q.key \in Keys /\ q.amount \in Nat
    /\ Deposits \cap Transfers = {}

DepositRows  == [wallet : Wallets, amount : Nat]
TransferRows == [from : Wallets, to : Wallets, amount : Nat]

ASSUME RowAssumption == NoRow \notin DepositRows \cup TransferRows

VARIABLES
    sums,       \* the ledger: committed postings by account and direction
    deposits,   \* the Deposit table, by external reference
    transfers,  \* the Transfer table, by idempotency key
    pool,       \* is the pooled account's row committed?
    creator,    \* whose open transaction holds its uncommitted row
    aborted,    \* servers whose database transaction Postgres has aborted
    pc, request,
    poolSize,   \* connections to the database, set at deployment
    deaths

vars == <<sums, deposits, transfers, pool, creator, aborted, pc, request,
          poolSize, deaths>>

records == <<sums, deposits, transfers, pool, poolSize>>

Resting == {"idle", "done", "failed", "dead"}
Open    == {"find", "create", "post"}

Balance(a) == BalanceOf(a \in Wallets, sums[a]["DEBIT"], sums[a]["CREDIT"])

Inflow(q)     == LET w == WalletOfNumber[q.number]
                 IN  <<Debit(Pool, q.amount, Currency),
                       Credit(w, q.amount, Currency)>>
Movement(q)   == <<Debit(q.from, q.amount, Currency),
                   Credit(q.to, q.amount, Currency)>>
-----------------------------------------------------------------------------
Init ==
    /\ sums = [a \in Accounts |-> [d \in Directions |-> 0]]
    /\ deposits = [r \in References |-> NoRow]
    /\ transfers = [k \in Keys |-> NoRow]
    /\ pool = FALSE
    /\ creator = NoServer
    /\ aborted = {}
    /\ pc = [s \in Servers |-> "idle"]
    /\ request = [s \in Servers |-> NoRequest]
    /\ poolSize \in PoolSizes
    /\ deaths = 0

Goto(s, where) == pc' = [pc EXCEPT ![s] = where]

(* Each open transaction holds a connection: is there another one?         *)
Exhausted == Cardinality({s \in Servers : pc[s] \in Open}) >= poolSize

Accept(s, q, where) ==
    /\ pc[s] \in Resting
    /\ ~Exhausted
    /\ request' = [request EXCEPT ![s] = q]
    /\ Goto(s, where)
    /\ UNCHANGED <<records, creator, aborted, deaths>>

(* A deposit is announced: an existing one is returned, an unknown virtual *)
(* account is an error, and otherwise a database transaction opens.        *)
Announce(s, q) ==
    Accept(s, q, IF deposits[q.reference] # NoRow THEN "done"
                 ELSE IF q.number \notin Numbers THEN "failed"
                 ELSE "find")

AskAnyone(s, q) ==                  \* mutant: the wallets are not looked up
    Accept(s, q, IF transfers[q.key] # NoRow THEN "done"
                 ELSE IF q.from = q.to THEN "failed"
                 ELSE "post")

(* A transfer is asked for: an existing one is returned, a wallet that is  *)
(* missing or the sender's own is an error.                                *)
AskTransfer(s, q) ==
    Accept(s, q, IF transfers[q.key] # NoRow THEN "done"
                 ELSE IF ~({q.from, q.to} \subseteq Wallets) THEN "failed"
                 ELSE IF q.from = q.to THEN "failed"
                 ELSE "post")

IsDeposit(s) == request[s] \in Deposits

FindNothing(s) ==                   \* mutant: the lookup never finds it
    /\ pc[s] = "find"
    /\ ~Exhausted
    /\ Goto(s, "create")
    /\ UNCHANGED <<records, creator, aborted, request, deaths>>

(* getOrCreate, first on a connection of its own: only a committed row is  *)
(* seen.                                                                   *)
FindPool(s) ==
    /\ pc[s] = "find"
    /\ ~Exhausted
    /\ Goto(s, IF pool THEN "post" ELSE "create")
    /\ UNCHANGED <<records, creator, aborted, request, deaths>>

(* The insert waits while another transaction holds an uncommitted row of  *)
(* that name.                                                              *)
CreatePool(s) ==
    /\ pc[s] = "create"
    /\ creator = NoServer
    /\ ~pool
    /\ creator' = s
    /\ Goto(s, "post")
    /\ UNCHANGED <<records, aborted, request, deaths>>

(* The insert fails on the committed row.  The error is caught and the row *)
(* looked up again, but Postgres has aborted the transaction.              *)
LoseCreateRace(s) ==
    /\ pc[s] = "create"
    /\ pool
    /\ ~Exhausted
    /\ aborted' = aborted \cup {s}
    /\ Goto(s, "post")
    /\ UNCHANGED <<records, creator, request, deaths>>

(* The database transaction of a server ends.                              *)
Leave(s, where) ==
    /\ Goto(s, where)
    /\ creator' = IF creator = s THEN NoServer ELSE creator
    /\ aborted' = aborted \ {s}
    /\ UNCHANGED <<request, poolSize>>

Rollback(s, where) == Leave(s, where) /\ UNCHANGED records

UnusedAlways(table, key) == TRUE    \* mutant: the key is not unique

Unused(table, key) == table[key] = NoRow

CoveredAlways(q) == TRUE            \* mutant: saveTransaction does not check

Covered(q) == Balance(q.from) >= q.amount

(* The record's unique key is checked when it is inserted, in the same     *)
(* transaction as the posting.                                             *)
PostDeposit(s) ==
    LET q == request[s]
    IN  /\ pc[s] = "post" /\ IsDeposit(s)
        /\ s \notin aborted
        /\ Unused(deposits, q.reference)
        /\ Balanced(Inflow(q))
        /\ sums' = Added(sums, Inflow(q))
        /\ deposits' = [deposits EXCEPT ![q.reference] =
                [wallet |-> WalletOfNumber[q.number], amount |-> q.amount]]
        /\ pool' = TRUE
        /\ Leave(s, "done")
        /\ UNCHANGED <<transfers, deaths>>

PostTransfer(s) ==
    LET q == request[s]
    IN  /\ pc[s] = "post" /\ ~IsDeposit(s)
        /\ Unused(transfers, q.key)
        /\ Covered(q)
        /\ Balanced(Movement(q))
        /\ sums' = Added(sums, Movement(q))
        /\ transfers' = [transfers EXCEPT ![q.key] =
                [from |-> q.from, to |-> q.to, amount |-> q.amount]]
        /\ Leave(s, "done")
        /\ UNCHANGED <<deposits, pool, deaths>>

(* The key was used meanwhile, the sender has too little, or the database  *)
(* transaction was aborted before: everything is rolled back.              *)
PostThrows(s) ==
    LET q == request[s]
    IN  /\ pc[s] = "post"
        /\ IF IsDeposit(s)
           THEN s \in aborted \/ ~Unused(deposits, q.reference)
           ELSE ~Unused(transfers, q.key) \/ ~Covered(q)
        /\ Rollback(s, "failed")
        /\ UNCHANGED deaths

(* The transaction waits for a second connection.                          *)
Starved(s) ==
    /\ Exhausted
    /\ pc[s] = "find" \/ (pc[s] = "create" /\ pool)

WaitOn(s) == Starved(s) /\ UNCHANGED vars   \* mutant: there is no limit

(* An interactive transaction of Prisma lives for five seconds, as the     *)
(* code sets no other limit.                                               *)
TimeOut(s) ==
    /\ Starved(s)
    /\ Rollback(s, "failed")
    /\ UNCHANGED deaths

Die(s) ==
    /\ pc[s] \in Open
    /\ deaths < MaxDeaths
    /\ deaths' = deaths + 1
    /\ Rollback(s, "dead")

Step(s) == \/ FindPool(s) \/ CreatePool(s) \/ LoseCreateRace(s)
           \/ PostDeposit(s) \/ PostTransfer(s) \/ PostThrows(s)
           \/ TimeOut(s)

Next == \E s \in Servers :
            \/ \E q \in Deposits : Announce(s, q)
            \/ \E q \in Transfers : AskTransfer(s, q)
            \/ Step(s)
            \/ Die(s)

Spec == Init /\ [][Next]_vars

(* A request goes on unless it is cut short, and the partner repeats an    *)
(* announcement until it is acknowledged.                                  *)
FairSpec ==
    /\ Spec
    /\ \A s \in Servers : WF_vars(Step(s))
    /\ \A q \in Deposits : SF_vars(\E s \in Servers : Announce(s, q))
-----------------------------------------------------------------------------
(* Each variable holds what it is meant to.                                *)
TypeOK ==
    /\ sums \in [Accounts -> [Directions -> Nat]]
    /\ deposits \in [References -> DepositRows \cup {NoRow}]
    /\ transfers \in [Keys -> TransferRows \cup {NoRow}]
    /\ pool \in BOOLEAN
    /\ creator \in Servers \cup {NoServer}
    /\ aborted \subseteq Servers
    /\ pc \in [Servers -> Resting \cup Open]
    /\ request \in [Servers -> Deposits \cup Transfers \cup {NoRequest}]
    /\ poolSize \in PoolSizes
    /\ deaths \in 0 .. MaxDeaths

Recorded(table) == {i \in DOMAIN table : table[i] # NoRow}

Amount(table) == [i \in DOMAIN table |->
                      IF table[i] = NoRow THEN 0 ELSE table[i].amount]
Sum(table, S) == SumFunctionOnSet(Amount(table), S)

DepositsTo(w)    == {r \in Recorded(deposits) : deposits[r].wallet = w}
TransfersTo(w)   == {k \in Recorded(transfers) : transfers[k].to = w}
TransfersFrom(w) == {k \in Recorded(transfers) : transfers[k].from = w}

(* Each wallet's balance is what its recorded deposits and transfers say,  *)
(* and the pool is the sum of the deposits: whatever is announced twice,   *)
(* repeated, raced or cut short moves money exactly once per record.       *)
LedgerMatchesRecords ==
    /\ Balance(Pool) = Sum(deposits, Recorded(deposits))
    /\ \A w \in Wallets :
          Balance(w) = Sum(deposits, DepositsTo(w))
                       + Sum(transfers, TransfersTo(w))
                       - Sum(transfers, TransfersFrom(w))

(* A record stands for a call of the ledger that has posted.               *)
Calls == ({"deposit"} \X References) \cup ({"transfer"} \X Keys)

TableOf(c) == IF c[1] = "deposit" THEN deposits ELSE transfers
Answer == [c \in Calls |-> IF TableOf(c)[c[2]] = NoRow THEN "pending" ELSE "posted"]

Promise == INSTANCE AbstractLedger
    WITH Liability <- Wallets,
         CurrencyOf <- [a \in Accounts |-> Currency],
         Transactions <- {Inflow(q) : q \in {p \in Deposits : p.number \in Numbers}}
                         \cup {Movement(q) : q \in Transfers},
         OpeningSums <- [a \in Accounts |-> [d \in Directions |-> 0]],
         answer <- Answer

(* Money and records move together, as the ledger promises: whatever is    *)
(* raced, repeated or cut short, the books change only in the step that    *)
(* stores a record, by one whole balanced transaction that leaves no       *)
(* wallet below zero, and never again for that record.                     *)
ImplementsLedger == Promise!Spec

(* A deposit of an existing virtual account is credited in the end, with   *)
(* any number of lost races, duplicates and crashes before: unless the     *)
(* pool of connections is exhausted again and again.                       *)
DepositsArrive ==
    \A q \in Deposits : q.number \in Numbers =>
        <>(deposits[q.reference] # NoRow) \/ []<>Exhausted

(* Every request that has opened a transaction is answered, though the     *)
(* transactions that hold the connections may all wait for another one.    *)
EveryRequestEnds ==
    \A s \in Servers : pc[s] \in Open ~> pc[s] \in Resting
=============================================================================
