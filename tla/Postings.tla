------------------------------ MODULE Postings ------------------------------
(***************************************************************************)
(* The value objects of the ledger: a posting moves an amount in one       *)
(* currency into or out of one account, and a transaction is a sequence of *)
(* postings that LedgerTransaction.balanced() accepts.  Everything here is *)
(* a pure operator; the modules that keep state are built on it.           *)
(***************************************************************************)
EXTENDS Integers, Sequences, Functions

Directions == {"DEBIT", "CREDIT"}

(* What a PostingInput can be, for the given accounts, amounts, currencies.*)
PostingsOver(accounts, amounts, currencies) ==
    [account : accounts, amount : amounts, currency : currencies,
     direction : Directions]

Debit(a, n, c)  ==
    [account |-> a, amount |-> n, currency |-> c, direction |-> "DEBIT"]
Credit(a, n, c) ==
    [account |-> a, amount |-> n, currency |-> c, direction |-> "CREDIT"]

(* The distinct account ids a transaction names.                           *)
AccountsOf(txn) == {txn[i].account : i \in DOMAIN txn}

SignedAmount(p) == IF p.direction = "DEBIT" THEN p.amount ELSE -p.amount

BalancedCurrency(txn) ==            \* mutant: the amounts are not summed
    /\ Len(txn) >= 2
    /\ \A i \in DOMAIN txn : txn[i].currency = txn[1].currency

(* LedgerTransaction.balanced: at least two postings, all in the currency  *)
(* of the first, whose signed sum is zero.                                 *)
Balanced(txn) ==
    /\ Len(txn) >= 2
    /\ \A i \in DOMAIN txn : txn[i].currency = txn[1].currency
    /\ SumFunction([i \in DOMAIN txn |-> SignedAmount(txn[i])]) = 0

(* What a transaction posts to one account in one direction, all told.     *)
Posted(txn, a, direction) ==
    SumFunction([i \in DOMAIN txn |->
        IF txn[i].account = a /\ txn[i].direction = direction
        THEN txn[i].amount ELSE 0])

(* The sums of an account table once a transaction is posted to it.        *)
Added(sums, txn) ==
    [a \in DOMAIN sums |-> [d \in Directions |->
                               sums[a][d] + Posted(txn, a, d)]]

(* getBalance: LIABILITY grows with credits, ASSET grows with debits.      *)
BalanceOf(isLiability, debits, credits) ==
    IF isLiability THEN credits - debits ELSE debits - credits
=============================================================================
