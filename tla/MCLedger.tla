------------------------------ MODULE MCLedger ------------------------------
(***************************************************************************)
(* Instances of Ledger: two wallets, the pooled asset account, a wallet in *)
(* another currency, and the posting lists that tell the guards apart.     *)
(***************************************************************************)
EXTENDS Ledger, TLC

CONSTANTS w1, w2, pool, dollars, ghost, c1, c2, c3

MCAccountIds == {w1, w2, pool, dollars, ghost}
MCAccounts   == {w1, w2, pool, dollars}
MCLiability  == {w1, w2, dollars}
MCCurrencies == {"NGN", "USD"}
MCCurrencyOf == [a \in MCAccounts |-> IF a = dollars THEN "USD" ELSE "NGN"]

(* w1 owns 2, w2 owns 1, and the pool holds both.                          *)
MCOpeningSums == [a \in MCAccounts |->
    CASE a = w1 -> [DEBIT |-> 0, CREDIT |-> 2]
      [] a = w2 -> [DEBIT |-> 0, CREDIT |-> 1]
      [] a = pool -> [DEBIT |-> 3, CREDIT |-> 0]
      [] OTHER -> [DEBIT |-> 0, CREDIT |-> 0]]

Move(a, b, n) == <<Debit(a, n, "NGN"), Credit(b, n, "NGN")>>

Deposit    == Move(pool, w1, 1)
Pay        == Move(w1, w2, 2)
Cash       == Move(w2, pool, 1)
Split      == <<Credit(pool, 1, "NGN"), Debit(w1, 2, "NGN"),
                Credit(w2, 1, "NGN")>>
Unbalanced == <<Debit(w1, 2, "NGN"), Credit(w2, 1, "NGN")>>
WrongMoney == <<Debit(w2, 1, "USD"), Credit(dollars, 1, "USD")>>
ToNobody   == Move(w1, ghost, 1)
Twice      == <<Debit(w1, 2, "NGN"), Debit(w1, 2, "NGN"),
                Credit(w2, 4, "NGN")>>

(* Every posting list the checks are about, each debiting a wallet once.   *)
(* Calls on Pay, Cash and Deposit can wait for each other in a ring.       *)
MCTransactions == {Deposit, Pay, Cash, Split,
                   Unbalanced, WrongMoney, ToNobody}

(* The list POST /ledger/transactions also takes: two debits of a wallet.  *)
WithTwice == {Pay, Twice}

ThreeCalls == {c1, c2, c3}
TwoCalls   == {c1, c2}

ASSUME MCTransactionsAreSingleDebit == Transactions = WithTwice \/ SingleDebit
=============================================================================
