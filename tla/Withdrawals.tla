----------------------------- MODULE Withdrawals -----------------------------
(***************************************************************************)
(* The withdrawal saga: POST /wallets/withdrawals reserves the money in    *)
(* one database transaction, marks the withdrawal PROCESSING, asks the     *)
(* banking partner to send the money, and settles or releases the          *)
(* reservation in a second database transaction.  Each database            *)
(* transaction is one step, as the Ledger module shows it may be.  The     *)
(* process that runs a request may die between any two steps.              *)
(*                                                                         *)
(* A withdrawal is known by its idempotency key, which is unique.  Beside  *)
(* the withdrawals, deposits arrive at the partner and are posted to the   *)
(* same pooled account; module Payments has the details of their requests. *)
(* Module Reconciliation composes the two with the runs that resolve what  *)
(* was left behind.                                                        *)
(***************************************************************************)
EXTENDS Postings, FiniteSets

CONSTANTS Users,            \* user ids
          Wallets,          \* wallet ids, each naming its LIABILITY account
          OwnerOf,          \* the userId of each wallet
          Pending, Pool,    \* the two accounts the platform owns
          Keys,             \* idempotency keys
          Requests,         \* what clients may send
          Handlers,         \* the HTTP requests being handled
          Outcomes,         \* how the partner may answer
          OpeningBalance,   \* what each wallet holds at first
          Deposits,         \* external references of deposits to come
          DepositOf,        \* the wallet and the amount of each
          NoRow, NoRequest

Accounts  == Wallets \cup {Pending, Pool}
Liability == Wallets \cup {Pending}
Currency  == "NGN"
Verdicts  == {"SUCCESSFUL", "FAILED", "UNKNOWN"}

ASSUME WalletAssumption ==
    /\ OwnerOf \in [Wallets -> Users]
    /\ \A v, w \in Wallets : OwnerOf[v] = OwnerOf[w] => v = w
    /\ Pending # Pool /\ {Pending, Pool} \cap Wallets = {}
    /\ OpeningBalance \in [Wallets -> Nat]
(* Ids are generated: no customer has the id of another's wallet.          *)
ASSUME IdAssumption ==
    \A w \in Wallets : OwnerOf[w] \in Wallets => OwnerOf[w] = w
ASSUME FiniteAssumption == IsFiniteSet(Keys) /\ IsFiniteSet(Wallets)
ASSUME RequestAssumption ==
    /\ Requests \subseteq [user : Users, key : Keys, amount : Nat]
    /\ Outcomes \subseteq Verdicts
    /\ NoRequest \notin Requests
ASSUME DepositAssumption ==
    /\ IsFiniteSet(Deposits)
    /\ DepositOf \in [Deposits -> [wallet : Wallets, amount : Nat]]

Statuses == {"PENDING", "PROCESSING", "SUCCESSFUL", "FAILED"}
Rows     == [wallet : Wallets, amount : Nat, status : Statuses]

ASSUME RowAssumption == NoRow \notin Rows

VARIABLES
    sums,       \* the ledger: committed postings by account and direction
    rows,       \* the Withdrawal table, by idempotency key
    rail,       \* what the partner did with each transfer
    calls,      \* how often it was asked to send each
    pc,         \* how far each request is
    request,    \* and what it asks for
    deposits    \* how far each deposit is

(* The variables of the withdrawals: deposits share the ledger with them.  *)
sagaVars == <<sums, rows, rail, calls, pc, request>>

(* What the ledger holds for an account, in its own sense.                 *)
Balance(a) == BalanceOf(a \in Liability, sums[a]["DEBIT"], sums[a]["CREDIT"])

(* saveTransaction, in a transaction of the caller's: the debit of a       *)
(* LIABILITY account must be covered.                                      *)
Fundable(txn) ==
    \A i \in DOMAIN txn :
        txn[i].account \in Liability /\ txn[i].direction = "DEBIT" =>
            Balance(txn[i].account) >= txn[i].amount

SaveTransaction(txn) ==
    /\ Balanced(txn)
    /\ Fundable(txn)
    /\ sums' = Added(sums, txn)

FindByUserId(user) == {w \in Wallets : OwnerOf[w] = user}

ReversalToPool(w, n) ==             \* mutant: the wrong account is credited
    <<Debit(Pending, n, Currency), Credit(Pool, n, Currency)>>

(* The lists of the three transactions of a withdrawal, and of a deposit.  *)
Reservation(w, n) == <<Debit(w, n, Currency), Credit(Pending, n, Currency)>>
Settlement(n)     == <<Debit(Pending, n, Currency), Credit(Pool, n, Currency)>>
Reversal(w, n)    == <<Debit(Pending, n, Currency), Credit(w, n, Currency)>>
Receipt(w, n)     == <<Debit(Pool, n, Currency), Credit(w, n, Currency)>>
-----------------------------------------------------------------------------
(* The wallets have been funded by earlier deposits, and the pool holds    *)
(* the cash.                                                               *)
OpeningCash == SumFunctionOnSet(OpeningBalance, Wallets)

Funded == [a \in Accounts |->
    [d \in Directions |->
        CASE a \in Wallets /\ d = "CREDIT" -> OpeningBalance[a]
          [] a = Pool /\ d = "DEBIT" -> OpeningCash
          [] OTHER -> 0]]

SagaInit ==
    /\ sums = Funded
    /\ rows = [k \in Keys |-> NoRow]
    /\ rail = [k \in Keys |-> "unseen"]
    /\ calls = [k \in Keys |-> 0]
    /\ pc = [h \in Handlers |-> "idle"]
    /\ request = [h \in Handlers |-> NoRequest]
    /\ deposits = [d \in Deposits |-> "expected"]

Goto(h, where) == pc' = [pc EXCEPT ![h] = where]

KeyOf(h) == request[h].key

(* The request arrives: findByIdempotencyKey, then findByUserId.           *)
Arrive(h, q, where) ==
    /\ pc[h] = "idle"
    /\ request' = [request EXCEPT ![h] = q]
    /\ Goto(h, where)
    /\ UNCHANGED <<sums, rows, rail, calls>>

ReturnExisting(h) ==
    \E q \in Requests : rows[q.key] # NoRow /\ Arrive(h, q, "done")

RefuseNoWallet(h) ==
    \E q \in Requests : /\ rows[q.key] = NoRow
                        /\ FindByUserId(q.user) = {}
                        /\ Arrive(h, q, "failed")

Admit(h) ==
    \E q \in Requests : /\ rows[q.key] = NoRow
                        /\ FindByUserId(q.user) # {}
                        /\ Arrive(h, q, "reserve")

CreateRowTwice(k, w, n) ==          \* mutant: the key is not unique
    rows' = [rows EXCEPT ![k] =
                 [wallet |-> w, amount |-> n, status |-> "PENDING"]]

(* The first database transaction: the reservation and the PENDING row,    *)
(* whose idempotency key is unique.                                        *)
CreateRow(k, w, n) ==
    /\ rows[k] = NoRow
    /\ rows' = [rows EXCEPT ![k] =
                    [wallet |-> w, amount |-> n, status |-> "PENDING"]]

Reserve(h) ==
    /\ pc[h] = "reserve"
    /\ \E w \in FindByUserId(request[h].user) :
          /\ SaveTransaction(Reservation(w, request[h].amount))
          /\ CreateRow(KeyOf(h), w, request[h].amount)
    /\ Goto(h, "mark")
    /\ UNCHANGED <<rail, calls, request>>

(* It is rolled back when the wallet holds too little, or when the key has *)
(* been used since it was looked up.                                       *)
RefuseReserve(h) ==
    /\ pc[h] = "reserve"
    /\ \/ rows[KeyOf(h)] # NoRow
       \/ \E w \in FindByUserId(request[h].user) :
             ~Fundable(Reservation(w, request[h].amount))
    /\ Goto(h, "failed")
    /\ UNCHANGED <<sums, rows, rail, calls, request>>

SetStatus(k, status) == rows' = [rows EXCEPT ![k].status = status]

MarkNothing(h) ==                   \* mutant: the update is forgotten
    /\ pc[h] = "mark"
    /\ Goto(h, "send")
    /\ UNCHANGED <<sums, rows, rail, calls, request>>

MarkProcessing(h) ==
    /\ pc[h] = "mark"
    /\ SetStatus(KeyOf(h), "PROCESSING")
    /\ Goto(h, "send")
    /\ UNCHANGED <<sums, rail, calls, request>>

(* The partner sends the money, rejects the transfer, or cannot tell yet;  *)
(* it treats a repeated key as the same transfer.                          *)
VerdictOf(fate) == CASE fate = "sent" -> "SUCCESSFUL"
                     [] fate = "rejected" -> "FAILED"
                     [] OTHER -> "UNKNOWN"

Fates(k) == IF rail[k] = "unseen"
            THEN {f \in {"sent", "rejected", "undecided"} :
                      VerdictOf(f) \in Outcomes}
            ELSE {rail[k]}

AssumeSuccess(verdict, otherwise) == \* mutant: UNKNOWN is not told apart
    IF verdict = "FAILED" THEN "release" ELSE "settle"

AskAgain(verdict, otherwise) ==     \* mutant: the handler does a run's part
    CASE verdict = "SUCCESSFUL" -> "settle"
      [] verdict = "FAILED" -> "release"
      [] OTHER -> "requery"

(* What the caller of the partner does with its verdict.                   *)
AfterVerdict(verdict, otherwise) ==
    CASE verdict = "SUCCESSFUL" -> "settle"
      [] verdict = "FAILED" -> "release"
      [] OTHER -> otherwise

AskPartner(h) ==
    /\ pc[h] = "send"
    /\ calls' = [calls EXCEPT ![KeyOf(h)] = @ + 1]
    /\ \E fate \in Fates(KeyOf(h)) :
          /\ rail' = [rail EXCEPT ![KeyOf(h)] = fate]
          /\ Goto(h, AfterVerdict(VerdictOf(fate), "done"))
    /\ UNCHANGED <<sums, rows, request>>

SettleUnmarked(k) ==                \* mutant: markSuccessful is forgotten
    SaveTransaction(Settlement(rows[k].amount)) /\ UNCHANGED rows

(* SettleWithdrawalUseCase: no look at the status the row has now.         *)
SettleTx(k) ==
    /\ SaveTransaction(Settlement(rows[k].amount))
    /\ SetStatus(k, "SUCCESSFUL")

CannotSettle(k) == ~Fundable(Settlement(rows[k].amount))

Settle(h) ==
    /\ pc[h] = "settle"
    /\ SettleTx(KeyOf(h))
    /\ Goto(h, "done")
    /\ UNCHANGED <<rail, calls, request>>

(* ReleaseWithdrawalUseCase looks the wallet up by owner, and passes the   *)
(* id of the wallet for that of the owner.                                 *)
WalletToRefund(k) == FindByUserId(rows[k].wallet)

ReleaseUnmarked(k) ==               \* mutant: markFailed is forgotten
    /\ \E w \in WalletToRefund(k) :
          SaveTransaction(Reversal(w, rows[k].amount))
    /\ UNCHANGED rows

ReleaseTx(k) ==
    /\ \E w \in WalletToRefund(k) :
          SaveTransaction(Reversal(w, rows[k].amount))
    /\ SetStatus(k, "FAILED")

CannotRelease(k) ==
    \/ WalletToRefund(k) = {}
    \/ \E w \in WalletToRefund(k) : ~Fundable(Reversal(w, rows[k].amount))

Release(h) ==
    /\ pc[h] = "release"
    /\ ReleaseTx(KeyOf(h))
    /\ Goto(h, "done")
    /\ UNCHANGED <<rail, calls, request>>

(* Either use case throws, and the request is answered with an error.      *)
ResolveThrows(h) ==
    /\ \/ pc[h] = "settle" /\ CannotSettle(KeyOf(h))
       \/ pc[h] = "release" /\ CannotRelease(KeyOf(h))
    /\ Goto(h, "failed")
    /\ UNCHANGED <<sums, rows, rail, calls, request>>

(* The process dies, or the call to the partner or the database throws.    *)
Underway == {"reserve", "mark", "send", "settle", "release"}

Die(h) ==
    /\ pc[h] \in Underway
    /\ Goto(h, "dead")
    /\ UNCHANGED <<sums, rows, rail, calls, request>>

(* The partner makes up its mind.                                          *)
Decide(k) ==
    /\ rail[k] = "undecided"
    /\ \E fate \in {"sent", "rejected"} :
          /\ VerdictOf(fate) \in Outcomes
          /\ rail' = [rail EXCEPT ![k] = fate]
    /\ UNCHANGED <<sums, rows, calls, pc, request>>

HandlerStep(h) ==
    \/ Reserve(h) \/ RefuseReserve(h) \/ MarkProcessing(h) \/ AskPartner(h)
    \/ Settle(h) \/ Release(h) \/ ResolveThrows(h)

SagaStep ==
    \/ \E h \in Handlers : \/ ReturnExisting(h)
                           \/ RefuseNoWallet(h)
                           \/ Admit(h)
                           \/ HandlerStep(h)
                           \/ Die(h)
    \/ \E k \in Keys : Decide(k)

(* The partner receives a deposit, and announces it at some later time.    *)
Arrives(d) ==
    /\ deposits[d] = "expected"
    /\ deposits' = [deposits EXCEPT ![d] = "arrived"]
    /\ UNCHANGED sagaVars

(* ProcessDepositUseCase: the posting and the Deposit row, whose external  *)
(* reference is unique, in one database transaction.  What fails or is     *)
(* announced again is no step here.                                        *)
ProcessDeposit(d) ==
    /\ deposits[d] = "arrived"
    /\ SaveTransaction(Receipt(DepositOf[d].wallet, DepositOf[d].amount))
    /\ deposits' = [deposits EXCEPT ![d] = "posted"]
    /\ UNCHANGED <<rows, rail, calls, pc, request>>

DepositStep == \E d \in Deposits : Arrives(d) \/ ProcessDeposit(d)
-----------------------------------------------------------------------------
(* Each variable holds what it is meant to.                                *)
SagaTypeOK ==
    /\ sums \in [Accounts -> [Directions -> Nat]]
    /\ rows \in [Keys -> Rows \cup {NoRow}]
    /\ rail \in [Keys -> {"unseen", "undecided", "sent", "rejected"}]
    /\ calls \in [Keys -> Nat]
    /\ pc \in [Handlers -> Underway \cup {"idle", "done", "failed", "dead"}]
    /\ request \in [Handlers -> Requests \cup {NoRequest}]

DepositsTypeOK == deposits \in [Deposits -> {"expected", "arrived", "posted"}]

HasStatus(k, statuses) == rows[k] # NoRow /\ rows[k].status \in statuses
KeysWith(statuses) == {k \in Keys : HasStatus(k, statuses)}

Amount == [k \in Keys |-> IF rows[k] = NoRow THEN 0 ELSE rows[k].amount]
AmountOf(S) == SumFunctionOnSet(Amount, S)

Open == KeysWith({"PENDING", "PROCESSING"})
PaidFrom(w) == {k \in KeysWith(Statuses \ {"FAILED"}) : rows[k].wallet = w}

Received(S) == SumFunctionOnSet([d \in Deposits |-> DepositOf[d].amount], S)

Arrived  == {d \in Deposits : deposits[d] # "expected"}
Entered  == {d \in Deposits : deposits[d] = "posted"}
Unposted == {d \in Deposits : deposits[d] = "arrived"}
PaidInto(w) == {d \in Entered : DepositOf[d].wallet = w}

(* What a wallet was given: at first, and by deposits.                     *)
Given(w) == OpeningBalance[w] + Received(PaidInto(w))

(* The pending account holds exactly what is reserved for the withdrawals  *)
(* nobody has resolved: no settlement or release draws on the reservation  *)
(* of another withdrawal, and none is left behind.                         *)
PendingCovers == Balance(Pending) = AmountOf(Open)

(* A wallet has paid for each of its withdrawals once, however often the   *)
(* request was repeated and wherever its handlers died, and has been paid  *)
(* back those that failed.                                                 *)
DebitedOnce ==
    \A w \in Wallets : Given(w) - Balance(w) = AmountOf(PaidFrom(w))

(* The partner is asked to send a withdrawal at most once, and only once   *)
(* its money is reserved and the row says PROCESSING.                      *)
AskedOnceReserved ==
    \A k \in Keys : calls[k] > 0 =>
        calls[k] = 1 /\ HasStatus(k, Statuses \ {"PENDING"})

(* What the partner holds: the opening cash and the deposits that have     *)
(* arrived, less what it has sent.                                         *)
Cash == OpeningCash + Received(Arrived)
            - AmountOf({k \in Keys : rail[k] = "sent"})

(* The transfers sent and not settled yet.                                 *)
InFlight == {k \in Keys : rail[k] = "sent" /\ ~HasStatus(k, {"SUCCESSFUL"})}

(* The cash the ledger believes the partner holds exceeds what it holds by *)
(* exactly the transfers sent and not settled yet, less the deposits that  *)
(* have arrived and are not posted yet.  The balance check of              *)
(* reconciliation compares the two: a mismatch means money on its way out  *)
(* or in, and that the two are equal means no more than that both amount   *)
(* to the same.                                                            *)
DriftIsInFlight ==
    Balance(Pool) - Cash = AmountOf(InFlight) - Received(Unposted)

(* A use case posts money only together with a change of a status, or as a *)
(* deposit: no withdrawal is settled or released a second time.            *)
PostedOnce == [][rows' # rows \/ deposits' # deposits]_sums

(* Whatever is resolved twice, it is at the expense of the platform: a     *)
(* wallet never pays more than once for a withdrawal nor for one that has  *)
(* failed, the pending account never holds more than what is reserved, and *)
(* the pool never claims cash that is not there or in flight: it may lack  *)
(* some, beside the deposits yet to be posted.  No money is made: what the *)
(* pool holds is what wallets and reservations hold.                       *)
NobodyOverpays ==
    /\ \A w \in Wallets : Given(w) - Balance(w) <= AmountOf(PaidFrom(w))
    /\ Balance(Pending) <= AmountOf(Open)
    /\ Balance(Pool) - Cash <= AmountOf(InFlight) - Received(Unposted)
    /\ Balance(Pool) = Balance(Pending) +
           SumFunctionOnSet([w \in Wallets |-> Balance(w)], Wallets)

(* A withdrawal is said to have succeeded only if the money was sent, and  *)
(* to have failed only if it was not.                                      *)
StatusIsTrue ==
    \A k \in Keys : /\ HasStatus(k, {"SUCCESSFUL"}) => rail[k] = "sent"
                    /\ HasStatus(k, {"FAILED"}) => rail[k] = "rejected"

Forward == {<<"PENDING", "PROCESSING">>, <<"PROCESSING", "SUCCESSFUL">>,
            <<"PROCESSING", "FAILED">>}

(* A row keeps its wallet and amount, and its status only moves forward:   *)
(* PENDING, PROCESSING, then SUCCESSFUL or FAILED for good, whoever writes *)
(* it and in whatever order.                                               *)
StatusForward ==
    [][\A k \in Keys : rows'[k] # rows[k] =>
          IF rows[k] = NoRow
          THEN rows'[k].status = "PENDING"
          ELSE /\ rows'[k] # NoRow
               /\ rows'[k] = [rows[k] EXCEPT !.status = rows'[k].status]
               /\ <<rows[k].status, rows'[k].status>> \in Forward]_rows

(* A withdrawal as its owner sees it.                                      *)
Stage(k) ==
    CASE rows[k] = NoRow -> "none"
      [] HasStatus(k, {"SUCCESSFUL"}) -> "settled"
      [] HasStatus(k, {"FAILED"}) -> "returned"
      [] OTHER -> CASE rail[k] = "unseen" -> "held"
                    [] rail[k] = "rejected" -> "refused"
                    [] OTHER -> rail[k]

TermsOf(k) == IF rows[k] = NoRow THEN NoRow
              ELSE [wallet |-> rows[k].wallet, amount |-> rows[k].amount]

Owner == INSTANCE AbstractWithdrawal
             WITH NoTerms <- NoRow,
                  credited <- Entered,
                  stage <- [k \in Keys |-> Stage(k)],
                  terms <- [k \in Keys |-> TermsOf(k)],
                  available <- [w \in Wallets |-> Balance(w)]

(* The saga keeps the promise made to the owner of the wallet: the money   *)
(* leaves the wallet once and comes back only if the partner refused, and  *)
(* a verdict is acted upon as it was given, whichever of the requests and  *)
(* runs does so and wherever they die.                                     *)
ImplementsWithdrawal == Owner!Spec

(* A withdrawal calls the ledger twice: its row stands for the first call, *)
(* and a status of SUCCESSFUL or FAILED for the second.  A deposit calls   *)
(* it once.                                                                *)
SagaCalls   == {"reserve", "resolve"} \X Keys
LedgerCalls == SagaCalls \cup ({"deposit"} \X Deposits)

Waiting(c) ==
    \/ c[1] = "deposit" /\ deposits[c[2]] # "posted"
    \/ c[1] # "deposit" /\ rows[c[2]] = NoRow
    \/ c[1] = "resolve" /\ c[2] \in Open

Answer == [c \in LedgerCalls |-> IF Waiting(c) THEN "pending" ELSE "posted"]

Asked == {q.amount : q \in Requests}
Lists == {Reservation(w, n) : w \in Wallets, n \in Asked}
         \cup {Reversal(w, n) : w \in Wallets, n \in Asked}
         \cup {Settlement(n) : n \in Asked}
         \cup {Receipt(DepositOf[d].wallet, DepositOf[d].amount) : d \in Deposits}

Promise == INSTANCE AbstractLedger
    WITH CurrencyOf <- [a \in Accounts |-> Currency], Calls <- LedgerCalls,
         Transactions <- Lists, OpeningSums <- Funded, answer <- Answer

(* Rows and money move together, as the ledger promises: the books change  *)
(* only in the step that stores a row, resolves it or posts a deposit, by  *)
(* one whole list that leaves no LIABILITY account below zero, and never   *)
(* again for that row, whichever of the requests and runs does so and      *)
(* wherever they die.                                                      *)
ImplementsLedger == Promise!Spec
=============================================================================
