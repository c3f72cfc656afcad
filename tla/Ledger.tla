------------------------------- MODULE Ledger -------------------------------
(***************************************************************************)
(* PrismaLedgerRepository.saveTransaction and getBalance, run by several   *)
(* calls at once on one Postgres database (READ COMMITTED).                *)
(*                                                                         *)
(* A call is one invocation of saveTransaction, in a database transaction  *)
(* of its own or in the caller's.  It locks the rows of the accounts it    *)
(* names one at a time, checks its postings one at a time, writes them,    *)
(* and commits.  What it wrote is visible to the others only once it has   *)
(* committed.  Whatever its caller does in the same database transaction   *)
(* after saveTransaction lies between "written" and Commit or Abort.       *)
(***************************************************************************)
EXTENDS Postings, FiniteSets

CONSTANTS AccountIds,       \* the ids a posting may name
          Accounts,         \* the rows of the Account table
          Liability,        \* the accounts of type LIABILITY
          Currencies,
          CurrencyOf,       \* each account's one currency
          Calls,            \* the invocations of saveTransaction
          Transactions,     \* the posting lists the callers pass
          OpeningSums,      \* the sums posted before the first call
          NoAccount, NoCall

Sums == [Accounts -> [Directions -> Nat]]

ASSUME AccountsAssumption ==
    /\ Accounts \subseteq AccountIds
    /\ Liability \subseteq Accounts
    /\ CurrencyOf \in [Accounts -> Currencies]
    /\ IsFiniteSet(Accounts)
    /\ NoAccount \notin AccountIds
ASSUME CallsAssumption == NoCall \notin Calls
ASSUME TransactionsAssumption ==
    Transactions \subseteq Seq(PostingsOver(AccountIds, Nat, Currencies))
(* Sums over the accounts of one currency, per direction.                  *)
AccountsIn(c) == {a \in Accounts : CurrencyOf[a] = c}
TotalOf(s, c, d) ==
    SumFunctionOnSet([a \in Accounts |-> s[a][d]], AccountsIn(c))
ASSUME OpeningAssumption ==
    /\ OpeningSums \in Sums
    /\ \A a \in Liability : OpeningSums[a]["DEBIT"] <= OpeningSums[a]["CREDIT"]
    /\ \A c \in Currencies : TotalOf(OpeningSums, c, "DEBIT") =
                                 TotalOf(OpeningSums, c, "CREDIT")

(* Every transaction debits a LIABILITY account in at most one posting.    *)
(* All of the application's own callers do; POST /ledger/transactions      *)
(* accepts any posting list.                                               *)
SingleDebit ==
    \A t \in Transactions : \A i, j \in DOMAIN t :
        /\ t[i].account \in Liability
        /\ t[i].account = t[j].account
        /\ t[i].direction = "DEBIT"
        /\ t[j].direction = "DEBIT"
        => i = j

VARIABLES
    sums,       \* the committed postings, summed by account and direction
    lockedBy,   \* the call whose database transaction holds the row lock
    pc,         \* how far each call is
    txn,        \* the transaction each call saves
    at,         \* the row each call's SELECT ... FOR UPDATE stands at
    idx,        \* the posting each call checks or writes next
    written     \* what each call has inserted and not yet committed

vars == <<sums, lockedBy, pc, txn, at, idx, written>>

Open  == {"locking", "checking", "writing", "written"}
Ended == {"posted", "refused", "aborted"}

Nothing == [a \in Accounts |-> [d \in Directions |-> 0]]

(* getBalance on what is committed: the caller's own writes come later.    *)
Balance(a) == BalanceOf(a \in Liability, sums[a]["DEBIT"], sums[a]["CREDIT"])

(* The rows of a transaction the database finds, and those of them that a  *)
(* call has yet to lock.                                                   *)
RowsUnfiltered(t) == AccountsOf(t)  \* mutant: every id is taken for a row

Rows(t)   == AccountsOf(t) \cap Accounts
ToLock(c) == {a \in Rows(txn[c]) : lockedBy[a] # c}

(* The posting is the debit of a LIABILITY account, the one kind checked.  *)
IsCheckedCredit(p) ==               \* mutant: the wrong direction
    p.account \in Liability /\ p.direction = "CREDIT"

IsChecked(p) == p.account \in Liability /\ p.direction = "DEBIT"
-----------------------------------------------------------------------------
Init ==
    /\ sums = OpeningSums
    /\ lockedBy = [a \in Accounts |-> NoCall]
    /\ pc = [c \in Calls |-> "idle"]
    /\ txn = [c \in Calls |-> <<>>]
    /\ at = [c \in Calls |-> NoAccount]
    /\ idx = [c \in Calls |-> 1]
    /\ written = [c \in Calls |-> Nothing]

(* LedgerTransaction.balanced throws before anything is locked.            *)
RefuseUnbalanced(c) ==
    /\ pc[c] = "idle"
    /\ \E t \in Transactions : ~Balanced(t) /\ txn' = [txn EXCEPT ![c] = t]
    /\ pc' = [pc EXCEPT ![c] = "refused"]
    /\ UNCHANGED <<sums, lockedBy, at, idx, written>>

(* The SELECT has no ORDER BY: the plan decides which row comes first.     *)
Begin(c) ==
    /\ pc[c] = "idle"
    /\ \E t \in Transactions :
          /\ Balanced(t)
          /\ txn' = [txn EXCEPT ![c] = t]
          /\ \E a \in IF Rows(t) = {} THEN {NoAccount} ELSE Rows(t) :
                at' = [at EXCEPT ![c] = a]
    /\ pc' = [pc EXCEPT ![c] = "locking"]
    /\ UNCHANGED <<sums, lockedBy, idx, written>>

FreeAlways(a) == TRUE               \* mutant: SELECT without FOR UPDATE

Free(a) == lockedBy[a] = NoCall

(* FOR UPDATE: wait until the row is free, take it, stand at another one.  *)
LockRow(c) ==
    /\ pc[c] = "locking"
    /\ at[c] # NoAccount
    /\ Free(at[c])
    /\ lockedBy' = [lockedBy EXCEPT ![at[c]] = c]
    /\ LET rest == ToLock(c) \ {at[c]}
       IN  \E a \in IF rest = {} THEN {NoAccount} ELSE rest :
              at' = [at EXCEPT ![c] = a]
    /\ UNCHANGED <<sums, pc, txn, idx, written>>

EndOpen(c, how) ==                  \* mutant: the transaction stays open
    /\ pc' = [pc EXCEPT ![c] = how]
    /\ at' = [at EXCEPT ![c] = NoAccount]
    /\ idx' = [idx EXCEPT ![c] = 1]
    /\ written' = [written EXCEPT ![c] = Nothing]
    /\ UNCHANGED <<lockedBy, txn>>

(* The database transaction ends: its locks go with it.                    *)
End(c, how) ==
    /\ pc' = [pc EXCEPT ![c] = how]
    /\ lockedBy' = [a \in Accounts |->
                        IF lockedBy[a] = c THEN NoCall ELSE lockedBy[a]]
    /\ at' = [at EXCEPT ![c] = NoAccount]
    /\ idx' = [idx EXCEPT ![c] = 1]
    /\ written' = [written EXCEPT ![c] = Nothing]
    /\ UNCHANGED txn

RollbackKeeping(c, how) ==          \* mutant: the inserts autocommit
    /\ sums' = [a \in Accounts |-> [d \in Directions |->
                                       sums[a][d] + written[c][a][d]]]
    /\ End(c, how)

Rollback(c, how) == End(c, how) /\ UNCHANGED sums

(* The SELECT has returned: fewer rows than ids is "Account(s) not found". *)
AllRowsLocked(c) == pc[c] = "locking" /\ at[c] = NoAccount

RefuseMissing(c) ==
    /\ AllRowsLocked(c)
    /\ ~(AccountsOf(txn[c]) \subseteq Accounts)
    /\ Rollback(c, "refused")

StartChecks(c) ==
    /\ AllRowsLocked(c)
    /\ AccountsOf(txn[c]) \subseteq Accounts
    /\ pc' = [pc EXCEPT ![c] = "checking"]
    /\ idx' = [idx EXCEPT ![c] = 1]
    /\ UNCHANGED <<sums, lockedBy, txn, at, written>>

Acceptable(p) ==
    /\ p.currency = CurrencyOf[p.account]
    /\ IsChecked(p) => Balance(p.account) >= p.amount

(* One turn of the loop over the postings, with the balance it reads.      *)
CheckPosting(c) ==
    /\ pc[c] = "checking"
    /\ idx[c] \in DOMAIN txn[c]
    /\ Acceptable(txn[c][idx[c]])
    /\ idx' = [idx EXCEPT ![c] = @ + 1]
    /\ UNCHANGED <<sums, lockedBy, pc, txn, at, written>>

RefusePosting(c) ==
    /\ pc[c] = "checking"
    /\ idx[c] \in DOMAIN txn[c]
    /\ ~Acceptable(txn[c][idx[c]])
    /\ Rollback(c, "refused")

StartWrites(c) ==
    /\ pc[c] = "checking"
    /\ idx[c] \notin DOMAIN txn[c]
    /\ pc' = [pc EXCEPT ![c] = "writing"]
    /\ idx' = [idx EXCEPT ![c] = 1]
    /\ UNCHANGED <<sums, lockedBy, txn, at, written>>

(* The nested create inserts the postings in turn.                         *)
WritePosting(c) ==
    /\ pc[c] = "writing"
    /\ idx[c] \in DOMAIN txn[c]
    /\ LET p == txn[c][idx[c]]
       IN  written' = [written EXCEPT ![c][p.account][p.direction] =
                                                            @ + p.amount]
    /\ idx' = [idx EXCEPT ![c] = @ + 1]
    /\ UNCHANGED <<sums, lockedBy, pc, txn, at>>

Return(c) ==
    /\ pc[c] = "writing"
    /\ idx[c] \notin DOMAIN txn[c]
    /\ pc' = [pc EXCEPT ![c] = "written"]
    /\ UNCHANGED <<sums, lockedBy, txn, at, idx, written>>

Commit(c) ==
    /\ pc[c] = "written"
    /\ sums' = [a \in Accounts |-> [d \in Directions |->
                                       sums[a][d] + written[c][a][d]]]
    /\ End(c, "posted")

(* The caller's work after saveTransaction throws, the process dies, the   *)
(* connection is lost or Prisma's transaction timeout expires.             *)
Abort(c) == pc[c] \in Open /\ Rollback(c, "aborted")

(* Postgres' deadlock detector: a victim in a cycle of waits is aborted.   *)
WaitsFor(c, d) ==
    /\ pc[c] = "locking"
    /\ at[c] # NoAccount
    /\ lockedBy[at[c]] = d

InCycle(c) ==
    \E D \in SUBSET Calls :
        /\ c \in D
        /\ \A d \in D : /\ \E e \in D : WaitsFor(d, e)
                        /\ \E e \in D : WaitsFor(e, d)

AbortDeadlocked(c) == InCycle(c) /\ Rollback(c, "aborted")

(* Every call has ended.                                                   *)
Finished == (\A c \in Calls : pc[c] \in Ended) /\ UNCHANGED vars

Progress(c) ==
    \/ LockRow(c) \/ RefuseMissing(c)
    \/ StartChecks(c) \/ CheckPosting(c) \/ RefusePosting(c)
    \/ StartWrites(c) \/ WritePosting(c) \/ Return(c)
    \/ Commit(c)
    \/ AbortDeadlocked(c)

Next ==
    \/ \E c \in Calls : \/ RefuseUnbalanced(c)
                        \/ Begin(c)
                        \/ Progress(c)
                        \/ Abort(c)
    \/ Finished

Spec == Init /\ [][Next]_vars

(* Once begun, a call is driven by the process and by the database; the    *)
(* arrival of calls and their failure are not promised.                    *)
FairSpec == Spec /\ \A c \in Calls : WF_vars(Progress(c))
-----------------------------------------------------------------------------
(* Each variable holds what it is meant to.                                *)
TypeOK ==
    /\ sums \in Sums
    /\ lockedBy \in [Accounts -> Calls \cup {NoCall}]
    /\ pc \in [Calls -> Open \cup Ended \cup {"idle"}]
    /\ txn \in [Calls -> Transactions \cup {<<>>}]
    /\ at \in [Calls -> Accounts \cup {NoAccount}]
    /\ idx \in [Calls -> Nat \ {0}]
    /\ written \in [Calls -> Sums]

(* Concurrent debits never take a LIABILITY account below zero, the rule   *)
(* saveTransaction's row locks and balance check are there to keep.        *)
NoOverdraft == \A a \in Liability : Balance(a) >= 0

(* The postings a call in progress has checked.                            *)
PassedChecks(c) ==
    {i \in DOMAIN txn[c] : /\ pc[c] \in {"checking", "writing", "written"}
                           /\ pc[c] = "checking" => i < idx[c]}

(* A balance read in the loop over the postings is still enough for the    *)
(* debit it was read for at every later point of the database transaction, *)
(* through the other checks, the inserts and the caller's own work: the    *)
(* check is never stale when the transaction commits.                      *)
ChecksStayTrue ==
    \A c \in Calls : \A i \in PassedChecks(c) : Acceptable(txn[c][i])

Total(c, d) == TotalOf(sums, c, d)

(* Over all accounts of one currency the committed debits and credits are  *)
(* equal, whichever calls were cut short: no posting of a transaction is   *)
(* ever visible without the others.                                        *)
TrialBalance == \A c \in Currencies : Total(c, "DEBIT") = Total(c, "CREDIT")

(* Every call that has begun ends: waits for row locks taken in no         *)
(* particular order end because Postgres aborts a call of each cycle.      *)
EveryCallEnds == \A c \in Calls : pc[c] \in Open ~> pc[c] \in Ended

(* What a call has been told.                                              *)
Answer == [c \in Calls |-> CASE pc[c] = "posted" -> "posted"
                             [] pc[c] \in Ended \ {"posted"} -> "failed"
                             [] OTHER -> "pending"]

Promise == INSTANCE AbstractLedger WITH answer <- Answer

(* saveTransaction implements the promise of AbstractLedger: it posts at   *)
(* Commit, and every other way out of it posts nothing.                    *)
KeepsPromise == Promise!Spec
=============================================================================
