---------------------------- MODULE LedgerProofs ----------------------------
(***************************************************************************)
(* Ledger keeps its types and its checks, posts whole balanced lists, and  *)
(* overdraws a LIABILITY account only by a list that debits it twice, for  *)
(* any accounts, any calls and any transactions.                           *)
(***************************************************************************)
EXTENDS Ledger, SumLemmas, TLAPS

Checked == {"checking", "writing", "written"}

(* What a call that has got its rows holds.                                *)
RowsHeld ==
    \A c \in Calls :
        /\ AllRowsLocked(c) => ToLock(c) = {}
        /\ pc[c] \in Checked =>
             \A a \in AccountsOf(txn[c]) : a \in Accounts /\ lockedBy[a] = c

(* What a call has written touches only accounts its transaction names.    *)
WritesHeld ==
    \A c \in Calls, a \in Accounts, d \in Directions :
        written[c][a][d] # 0 =>
            /\ pc[c] \in {"writing", "written"}
            /\ a \in AccountsOf(txn[c])

LockInv == TypeOK /\ RowsHeld /\ WritesHeld /\ ChecksStayTrue

(* The list debits the account in at most one posting.                     *)
DebitsOnce(t, a) ==
    \A i, j \in DOMAIN t :
        /\ IsChecked(t[i]) /\ t[i].account = a
        /\ IsChecked(t[j]) /\ t[j].account = a
        => i = j

(* What a call has written as the debit of a LIABILITY account that its    *)
(* list debits once is the amount of one of its checked postings.          *)
OneDebitWritten ==
    \A c \in Calls, a \in Liability :
        written[c][a]["DEBIT"] # 0 /\ DebitsOnce(txn[c], a) =>
            \E i \in DOMAIN txn[c] :
                /\ pc[c] = "writing" => i < idx[c]
                /\ IsChecked(txn[c][i])
                /\ txn[c][i].account = a
                /\ txn[c][i].amount = written[c][a]["DEBIT"]

(* The LIABILITY accounts no list debits twice, and what is promised of    *)
(* them.                                                                   *)
Singly == {a \in Liability : \A t \in Transactions : DebitsOnce(t, a)}
SinglyCovered == \A a \in Singly : Balance(a) >= 0

(* A LIABILITY account sinks below zero, or from there further, only at    *)
(* the commit of a list that debits it twice: there is no other way to     *)
(* overdraw an account, whatever calls run at once.                        *)
OverdrawnOnlyTwice ==
    [][\A a \in Liability :
          Balance(a)' < Balance(a) /\ Balance(a)' < 0 =>
              \E c \in Calls : /\ pc[c] = "written" /\ pc'[c] = "posted"
                               /\ ~DebitsOnce(txn[c], a)]_vars
-----------------------------------------------------------------------------
(* A posting of a transaction in progress is a posting.                    *)
LEMMA PostingOfCall ==
    ASSUME TypeOK, NEW c \in Calls, NEW i \in DOMAIN txn[c]
    PROVE  /\ txn[c][i].account \in AccountIds
           /\ txn[c][i].amount \in Nat
           /\ txn[c][i].direction \in Directions
  <1>1. txn[c] \in Seq(PostingsOver(AccountIds, Nat, Currencies))
    BY TransactionsAssumption DEF TypeOK
  <1>2. txn[c][i] \in PostingsOver(AccountIds, Nat, Currencies)
    BY <1>1
  <1> QED BY <1>2 DEF PostingsOver

(* The postings of a transaction in progress are numbered from 1.          *)
LEMMA DomainOfCall ==
    ASSUME TypeOK, NEW c \in Calls
    PROVE  \E n \in Nat : DOMAIN txn[c] = 1 .. n
  <1>1. CASE txn[c] = <<>>
    BY <1>1
  <1>2. CASE txn[c] \in Transactions
    <2>1. txn[c] \in Seq(PostingsOver(AccountIds, Nat, Currencies))
      BY <1>2, TransactionsAssumption
    <2> QED BY <2>1
  <1> QED BY <1>1, <1>2 DEF TypeOK

(* Ending a call keeps every type but that of the sums.                    *)
LEMMA EndKeepsTypes ==
    ASSUME TypeOK, sums' \in Sums, NEW c \in Calls,
           NEW how \in Ended, End(c, how)
    PROVE  TypeOK'
  <1>1. Nothing \in Sums
    BY DEF Nothing, Sums
  <1> QED BY <1>1, CallsAssumption DEF TypeOK, End

(* Before the first call everything has its type.                          *)
THEOREM InitTypeOK == Init => TypeOK
  <1>1. Nothing \in Sums
    BY DEF Nothing, Sums
  <1> QED BY <1>1, OpeningAssumption DEF Init, TypeOK

(* Every step keeps the types, given that the rows of a call that writes   *)
(* are accounts.                                                           *)
LEMMA StepTypeOK ==
    ASSUME TypeOK, RowsHeld, [Next]_vars
    PROVE  TypeOK'
  <1>. USE DEF TypeOK, Open, Ended
  <1>1. ASSUME NEW c \in Calls, RefuseUnbalanced(c) PROVE TypeOK'
    BY <1>1 DEF RefuseUnbalanced
  <1>2. ASSUME NEW c \in Calls, Begin(c) PROVE TypeOK'
    BY <1>2 DEF Begin, Rows
  <1>3. ASSUME NEW c \in Calls, LockRow(c) PROVE TypeOK'
    BY <1>3 DEF LockRow, Free, ToLock, Rows
  <1>4. ASSUME NEW c \in Calls, RefuseMissing(c) PROVE TypeOK'
    BY <1>4, EndKeepsTypes DEF RefuseMissing, Rollback
  <1>5. ASSUME NEW c \in Calls, StartChecks(c) PROVE TypeOK'
    BY <1>5 DEF StartChecks
  <1>6. ASSUME NEW c \in Calls, CheckPosting(c) PROVE TypeOK'
    BY <1>6 DEF CheckPosting
  <1>7. ASSUME NEW c \in Calls, RefusePosting(c) PROVE TypeOK'
    BY <1>7, EndKeepsTypes DEF RefusePosting, Rollback
  <1>8. ASSUME NEW c \in Calls, StartWrites(c) PROVE TypeOK'
    BY <1>8 DEF StartWrites
  <1>9. ASSUME NEW c \in Calls, WritePosting(c) PROVE TypeOK'
    <2>1. PICK p : p = txn[c][idx[c]] /\ idx[c] \in DOMAIN txn[c]
      BY <1>9 DEF WritePosting
    <2>2. p.account \in Accounts /\ p.amount \in Nat /\ p.direction \in Directions
      BY <1>9, <2>1, PostingOfCall DEF WritePosting, RowsHeld, Checked, AccountsOf
    <2>3. written' = [written EXCEPT ![c][p.account][p.direction] = @ + p.amount]
      BY <1>9, <2>1 DEF WritePosting
    <2>4. written' \in [Calls -> Sums]
      BY <2>2, <2>3 DEF Sums
    <2> QED BY <1>9, <2>4 DEF WritePosting
  <1>10. ASSUME NEW c \in Calls, Return(c) PROVE TypeOK'
    BY <1>10 DEF Return
  <1>11. ASSUME NEW c \in Calls, Commit(c) PROVE TypeOK'
    <2>1. sums' \in Sums
      BY <1>11 DEF Commit, Sums
    <2> QED BY <1>11, <2>1, EndKeepsTypes DEF Commit
  <1>12. ASSUME NEW c \in Calls, AbortDeadlocked(c) PROVE TypeOK'
    BY <1>12, EndKeepsTypes DEF AbortDeadlocked, Rollback
  <1>13. ASSUME NEW c \in Calls, Abort(c) PROVE TypeOK'
    BY <1>13, EndKeepsTypes DEF Abort, Rollback
  <1>14. CASE UNCHANGED vars
    BY <1>14 DEF vars
  <1> QED
    BY <1>1, <1>2, <1>3, <1>4, <1>5, <1>6, <1>7, <1>8, <1>9, <1>10, <1>11,
       <1>12, <1>13, <1>14 DEF Next, Progress, Finished
-----------------------------------------------------------------------------
(* What ending a call does to the rows of the others.                      *)
LEMMA EndKeepsRows ==
    ASSUME TypeOK, RowsHeld, NEW c \in Calls, NEW how \in Ended, End(c, how)
    PROVE  RowsHeld'
  <1>. USE DEF TypeOK, Ended, AllRowsLocked, Checked
  <1>1. /\ pc' = [pc EXCEPT ![c] = how]
        /\ at' = [at EXCEPT ![c] = NoAccount]
        /\ txn' = txn
        /\ \A a \in Accounts : lockedBy'[a] = IF lockedBy[a] = c THEN NoCall
                                              ELSE lockedBy[a]
    BY DEF End
  <1>2. SUFFICES ASSUME NEW e \in Calls
        PROVE  /\ AllRowsLocked(e)' => ToLock(e)' = {}
               /\ pc'[e] \in Checked =>
                    \A a \in AccountsOf(txn[e]) :
                        a \in Accounts /\ lockedBy'[a] = e
    BY <1>1 DEF RowsHeld
  <1>3. CASE e = c
    BY <1>1, <1>3
  <1>4. CASE e # c
    <2>1. pc'[e] = pc[e] /\ at'[e] = at[e]
      BY <1>1, <1>4
    <2>2. \A a \in Accounts : lockedBy[a] = e => lockedBy'[a] = e
      BY <1>1, <1>4
    <2>3. ToLock(e)' \subseteq ToLock(e)
      BY <1>1, <2>2 DEF ToLock, Rows
    <2> QED BY <2>1, <2>2, <2>3 DEF RowsHeld
  <1> QED BY <1>3, <1>4

(* A step keeps the rows of every call past its SELECT locked by it.       *)
LEMMA StepRowsHeld ==
    ASSUME TypeOK, RowsHeld, [Next]_vars
    PROVE  RowsHeld'
  <1>. USE DEF TypeOK, Open, Ended, AllRowsLocked, Checked
  <1>1. ASSUME NEW c \in Calls, RefuseUnbalanced(c) PROVE RowsHeld'
    BY <1>1 DEF RefuseUnbalanced, RowsHeld, ToLock
  <1>2. ASSUME NEW c \in Calls, Begin(c) PROVE RowsHeld'
    <2>1. /\ pc' = [pc EXCEPT ![c] = "locking"]
          /\ \A e \in Calls \ {c} : txn'[e] = txn[e] /\ at'[e] = at[e]
          /\ at'[c] = NoAccount => Rows(txn'[c]) = {}
          /\ lockedBy' = lockedBy
      BY <1>2, AccountsAssumption DEF Begin, Rows
    <2>2. SUFFICES ASSUME NEW e \in Calls
          PROVE  /\ AllRowsLocked(e)' => ToLock(e)' = {}
                 /\ pc'[e] \in Checked =>
                      \A a \in AccountsOf(txn'[e]) :
                          a \in Accounts /\ lockedBy'[a] = e
      BY DEF RowsHeld
    <2>3. CASE e = c
      BY <2>1, <2>3 DEF ToLock
    <2>4. CASE e # c
      BY <2>1, <2>4 DEF RowsHeld, ToLock
    <2> QED BY <2>3, <2>4
  <1>3. ASSUME NEW c \in Calls, LockRow(c) PROVE RowsHeld'
    <2>1. /\ pc' = pc /\ txn' = txn
          /\ pc[c] = "locking"
          /\ at[c] \in Accounts /\ lockedBy[at[c]] = NoCall
          /\ lockedBy' = [lockedBy EXCEPT ![at[c]] = c]
          /\ \A e \in Calls \ {c} : at'[e] = at[e]
          /\ at'[c] = NoAccount => ToLock(c) \ {at[c]} = {}
      BY <1>3, AccountsAssumption DEF LockRow, Free, ToLock, Rows
    <2>2. \A e \in Calls, a \in Accounts : lockedBy[a] = e => lockedBy'[a] = e
      BY <2>1, CallsAssumption
    <2>3. ToLock(c)' \subseteq ToLock(c) \ {at[c]}
      BY <2>1, <2>2 DEF ToLock, Rows
    <2>4. \A e \in Calls : ToLock(e)' \subseteq ToLock(e)
      BY <2>1, <2>2 DEF ToLock, Rows
    <2> QED BY <2>1, <2>2, <2>3, <2>4 DEF RowsHeld
  <1>4. ASSUME NEW c \in Calls, RefuseMissing(c) PROVE RowsHeld'
    BY <1>4, EndKeepsRows DEF RefuseMissing, Rollback
  <1>5. ASSUME NEW c \in Calls, StartChecks(c) PROVE RowsHeld'
    <2>1. \A a \in AccountsOf(txn[c]) : a \in Accounts /\ lockedBy[a] = c
      BY <1>5 DEF StartChecks, RowsHeld, ToLock, Rows
    <2> QED BY <1>5, <2>1 DEF StartChecks, RowsHeld, ToLock
  <1>6. ASSUME NEW c \in Calls, CheckPosting(c) PROVE RowsHeld'
    BY <1>6 DEF CheckPosting, RowsHeld, ToLock
  <1>7. ASSUME NEW c \in Calls, RefusePosting(c) PROVE RowsHeld'
    BY <1>7, EndKeepsRows DEF RefusePosting, Rollback
  <1>8. ASSUME NEW c \in Calls, StartWrites(c) PROVE RowsHeld'
    BY <1>8 DEF StartWrites, RowsHeld, ToLock
  <1>9. ASSUME NEW c \in Calls, WritePosting(c) PROVE RowsHeld'
    BY <1>9 DEF WritePosting, RowsHeld, ToLock
  <1>10. ASSUME NEW c \in Calls, Return(c) PROVE RowsHeld'
    BY <1>10 DEF Return, RowsHeld, ToLock
  <1>11. ASSUME NEW c \in Calls, Commit(c) PROVE RowsHeld'
    BY <1>11, EndKeepsRows DEF Commit
  <1>12. ASSUME NEW c \in Calls, AbortDeadlocked(c) PROVE RowsHeld'
    BY <1>12, EndKeepsRows DEF AbortDeadlocked, Rollback
  <1>13. ASSUME NEW c \in Calls, Abort(c) PROVE RowsHeld'
    BY <1>13, EndKeepsRows DEF Abort, Rollback
  <1>14. CASE UNCHANGED vars
    BY <1>14 DEF vars, RowsHeld, ToLock
  <1> QED
    BY <1>1, <1>2, <1>3, <1>4, <1>5, <1>6, <1>7, <1>8, <1>9, <1>10, <1>11,
       <1>12, <1>13, <1>14 DEF Next, Progress, Finished
-----------------------------------------------------------------------------
(* A call writes nothing before its rows are locked, and ending it takes   *)
(* back what it wrote.                                                     *)
LEMMA EndKeepsWrites ==
    ASSUME TypeOK, WritesHeld, NEW c \in Calls, NEW how \in Ended, End(c, how)
    PROVE  WritesHeld'
  <1>1. /\ \A e \in Calls \ {c} : pc'[e] = pc[e] /\ written'[e] = written[e]
        /\ written'[c] = Nothing
        /\ txn' = txn
    BY DEF End, TypeOK
  <1>2. \A a \in Accounts, d \in Directions : written'[c][a][d] = 0
    BY <1>1 DEF Nothing
  <1> QED BY <1>1, <1>2 DEF WritesHeld

(* A step keeps every insert on a row that its call has locked.            *)
LEMMA StepWritesHeld ==
    ASSUME TypeOK, RowsHeld, WritesHeld, [Next]_vars
    PROVE  WritesHeld'
  <1>. USE DEF TypeOK, Open, Ended
  <1>1. ASSUME NEW c \in Calls, RefuseUnbalanced(c) PROVE WritesHeld'
    BY <1>1 DEF RefuseUnbalanced, WritesHeld
  <1>2. ASSUME NEW c \in Calls, Begin(c) PROVE WritesHeld'
    BY <1>2 DEF Begin, WritesHeld
  <1>3. ASSUME NEW c \in Calls, LockRow(c) PROVE WritesHeld'
    BY <1>3 DEF LockRow, Free, WritesHeld
  <1>4. ASSUME NEW c \in Calls, RefuseMissing(c) PROVE WritesHeld'
    BY <1>4, EndKeepsWrites DEF RefuseMissing, Rollback
  <1>5. ASSUME NEW c \in Calls, StartChecks(c) PROVE WritesHeld'
    BY <1>5 DEF StartChecks, AllRowsLocked, WritesHeld
  <1>6. ASSUME NEW c \in Calls, CheckPosting(c) PROVE WritesHeld'
    BY <1>6 DEF CheckPosting, WritesHeld
  <1>7. ASSUME NEW c \in Calls, RefusePosting(c) PROVE WritesHeld'
    BY <1>7, EndKeepsWrites DEF RefusePosting, Rollback
  <1>8. ASSUME NEW c \in Calls, StartWrites(c) PROVE WritesHeld'
    BY <1>8 DEF StartWrites, WritesHeld
  <1>9. ASSUME NEW c \in Calls, WritePosting(c) PROVE WritesHeld'
    <2>1. PICK p : p = txn[c][idx[c]] /\ idx[c] \in DOMAIN txn[c]
      BY <1>9 DEF WritePosting
    <2>2. p.account \in AccountsOf(txn[c])
      BY <2>1 DEF AccountsOf
    <2>3. /\ written' = [written EXCEPT ![c][p.account][p.direction] = @ + p.amount]
          /\ pc' = pc /\ txn' = txn /\ pc[c] = "writing"
      BY <1>9, <2>1 DEF WritePosting
    <2>4. \A e \in Calls, a \in Accounts, d \in Directions :
              written'[e][a][d] # written[e][a][d] => e = c /\ a = p.account
      BY <2>3 DEF Sums
    <2> QED BY <2>2, <2>3, <2>4 DEF WritesHeld
  <1>10. ASSUME NEW c \in Calls, Return(c) PROVE WritesHeld'
    BY <1>10 DEF Return, WritesHeld
  <1>11. ASSUME NEW c \in Calls, Commit(c) PROVE WritesHeld'
    BY <1>11, EndKeepsWrites DEF Commit
  <1>12. ASSUME NEW c \in Calls, AbortDeadlocked(c) PROVE WritesHeld'
    BY <1>12, EndKeepsWrites DEF AbortDeadlocked, Rollback
  <1>13. ASSUME NEW c \in Calls, Abort(c) PROVE WritesHeld'
    BY <1>13, EndKeepsWrites DEF Abort, Rollback
  <1>14. CASE UNCHANGED vars
    BY <1>14 DEF vars, WritesHeld
  <1> QED
    BY <1>1, <1>2, <1>3, <1>4, <1>5, <1>6, <1>7, <1>8, <1>9, <1>10, <1>11,
       <1>12, <1>13, <1>14 DEF Next, Progress, Finished
-----------------------------------------------------------------------------
(* A step that changes no sums and moves no call past a check keeps every  *)
(* check true.                                                             *)
LEMMA SameSumsKeepChecks ==
    ASSUME ChecksStayTrue, sums' = sums,
           \A e \in Calls : \A i \in PassedChecks(e)' :
               i \in PassedChecks(e) /\ txn'[e][i] = txn[e][i]
    PROVE  ChecksStayTrue'
  <1>1. \A p : Acceptable(p) => Acceptable(p)'
    BY DEF Acceptable, IsChecked, Balance, BalanceOf
  <1> QED BY <1>1 DEF ChecksStayTrue

(* A call that ends has no passed checks left.                             *)
LEMMA EndForgetsChecks ==
    ASSUME TypeOK, NEW c \in Calls, NEW how \in Ended, End(c, how)
    PROVE  \A e \in Calls : \A i \in PassedChecks(e)' :
               e # c /\ i \in PassedChecks(e) /\ txn'[e][i] = txn[e][i]
  <1>1. pc'[c] = how /\ txn' = txn
    BY DEF End, TypeOK
  <1>2. PassedChecks(c)' = {}
    BY <1>1 DEF PassedChecks, Ended
  <1>3. \A e \in Calls \ {c} : pc'[e] = pc[e] /\ idx'[e] = idx[e]
    BY DEF End, TypeOK
  <1>4. \A e \in Calls \ {c} : PassedChecks(e)' = PassedChecks(e)
    BY <1>1, <1>3 DEF PassedChecks
  <1> QED BY <1>1, <1>2, <1>4

(* A rollback changes no balance, so the checks of the others stay true.   *)
LEMMA RollbackKeepsChecks ==
    ASSUME TypeOK, ChecksStayTrue, NEW c \in Calls, NEW how \in Ended,
           Rollback(c, how)
    PROVE  ChecksStayTrue'
  BY EndForgetsChecks, SameSumsKeepChecks DEF Rollback

(* The accounts a call has checked are locked by it, so nobody else's      *)
(* commit changes their balance.                                           *)
LEMMA CommitKeepsChecks ==
    ASSUME TypeOK, RowsHeld, WritesHeld, ChecksStayTrue,
           NEW c \in Calls, Commit(c)
    PROVE  ChecksStayTrue'
  <1>. USE DEF TypeOK
  <1>1. SUFFICES ASSUME NEW e \in Calls, NEW i \in PassedChecks(e)'
        PROVE  Acceptable(txn[e][i])'
    BY DEF ChecksStayTrue
  <1>2. e # c /\ i \in PassedChecks(e) /\ txn'[e][i] = txn[e][i]
    BY <1>1, EndForgetsChecks DEF Commit, Ended
  <1>3. Acceptable(txn[e][i])
    BY <1>2 DEF ChecksStayTrue
  <1>4. pc[e] \in Checked /\ i \in DOMAIN txn[e]
    BY <1>2 DEF PassedChecks, Checked
  <1> PICK a : a = txn[e][i].account
    OBVIOUS
  <1>5. a \in Accounts /\ lockedBy[a] = e
    BY <1>4 DEF RowsHeld, AccountsOf
  <1>6. a \notin AccountsOf(txn[c])
    BY <1>2, <1>5 DEF RowsHeld, Commit, Checked
  <1>7. \A d \in Directions : written[c][a][d] = 0
    BY <1>5, <1>6 DEF WritesHeld
  <1>8. \A d \in Directions : sums'[a][d] = sums[a][d]
    BY <1>5, <1>7 DEF Commit, Sums
  <1>9. Balance(a)' = Balance(a)
    BY <1>8 DEF Balance, BalanceOf, Directions
  <1> QED BY <1>2, <1>3, <1>9 DEF Acceptable, IsChecked

(* A step leaves every check that was passed true.                         *)
LEMMA StepChecksStayTrue ==
    ASSUME TypeOK, RowsHeld, WritesHeld, ChecksStayTrue, [Next]_vars
    PROVE  ChecksStayTrue'
  <1>. USE DEF TypeOK, Open, Ended
  <1>1. ASSUME NEW c \in Calls, RefuseUnbalanced(c) PROVE ChecksStayTrue'
    BY <1>1, SameSumsKeepChecks DEF RefuseUnbalanced, PassedChecks
  <1>2. ASSUME NEW c \in Calls, Begin(c) PROVE ChecksStayTrue'
    BY <1>2, SameSumsKeepChecks DEF Begin, PassedChecks
  <1>3. ASSUME NEW c \in Calls, LockRow(c) PROVE ChecksStayTrue'
    BY <1>3, SameSumsKeepChecks DEF LockRow, Free, PassedChecks
  <1>4. ASSUME NEW c \in Calls, RefuseMissing(c) PROVE ChecksStayTrue'
    BY <1>4, RollbackKeepsChecks DEF RefuseMissing
  <1>5. ASSUME NEW c \in Calls, StartChecks(c) PROVE ChecksStayTrue'
    BY <1>5, SameSumsKeepChecks DEF StartChecks, PassedChecks
  <1>6. ASSUME NEW c \in Calls, CheckPosting(c) PROVE ChecksStayTrue'
    <2>1. /\ Acceptable(txn[c][idx[c]])
          /\ idx' = [idx EXCEPT ![c] = @ + 1]
          /\ sums' = sums /\ pc' = pc /\ txn' = txn
      BY <1>6 DEF CheckPosting
    <2>2. \A e \in Calls : \A i \in PassedChecks(e)' :
              \/ i \in PassedChecks(e)
              \/ e = c /\ i = idx[c]
      BY <2>1, DomainOfCall DEF PassedChecks
    <2>3. \A e \in Calls : \A i \in PassedChecks(e)' : Acceptable(txn[e][i])
      BY <2>1, <2>2 DEF ChecksStayTrue
    <2>4. \A p : Acceptable(p) => Acceptable(p)'
      BY <2>1 DEF Acceptable, IsChecked, Balance, BalanceOf
    <2> QED BY <2>1, <2>3, <2>4 DEF ChecksStayTrue
  <1>7. ASSUME NEW c \in Calls, RefusePosting(c) PROVE ChecksStayTrue'
    BY <1>7, RollbackKeepsChecks DEF RefusePosting
  <1>8. ASSUME NEW c \in Calls, StartWrites(c) PROVE ChecksStayTrue'
    <2>1. /\ pc[c] = "checking" /\ idx[c] \notin DOMAIN txn[c]
          /\ pc' = [pc EXCEPT ![c] = "writing"]
          /\ \A e \in Calls \ {c} : idx'[e] = idx[e]
          /\ sums' = sums /\ txn' = txn
      BY <1>8 DEF StartWrites
    <2>2. \A i \in DOMAIN txn[c] : i < idx[c]
      BY <2>1, DomainOfCall
    <2>3. \A e \in Calls : \A i \in PassedChecks(e)' : i \in PassedChecks(e)
      BY <2>1, <2>2 DEF PassedChecks
    <2> QED BY <2>1, <2>3, SameSumsKeepChecks
  <1>9. ASSUME NEW c \in Calls, WritePosting(c) PROVE ChecksStayTrue'
    BY <1>9, SameSumsKeepChecks DEF WritePosting, PassedChecks
  <1>10. ASSUME NEW c \in Calls, Return(c) PROVE ChecksStayTrue'
    BY <1>10, SameSumsKeepChecks DEF Return, PassedChecks
  <1>11. ASSUME NEW c \in Calls, Commit(c) PROVE ChecksStayTrue'
    BY <1>11, CommitKeepsChecks
  <1>12. ASSUME NEW c \in Calls, AbortDeadlocked(c) PROVE ChecksStayTrue'
    BY <1>12, RollbackKeepsChecks DEF AbortDeadlocked
  <1>13. ASSUME NEW c \in Calls, Abort(c) PROVE ChecksStayTrue'
    BY <1>13, RollbackKeepsChecks DEF Abort
  <1>14. CASE UNCHANGED vars
    BY <1>14, SameSumsKeepChecks DEF vars, PassedChecks
  <1> QED
    BY <1>1, <1>2, <1>3, <1>4, <1>5, <1>6, <1>7, <1>8, <1>9, <1>10, <1>11,
       <1>12, <1>13, <1>14 DEF Next, Progress, Finished
-----------------------------------------------------------------------------
(* The invariant of the row locks holds in every reachable state.          *)
LEMMA LockInvInductive == Spec => []LockInv
  <1>1. Init => LockInv
    <2>1. Init => RowsHeld /\ ChecksStayTrue
      BY DEF Init, RowsHeld, AllRowsLocked, Checked, ChecksStayTrue, PassedChecks
    <2>2. Init => WritesHeld
      BY DEF Init, WritesHeld, Nothing
    <2> QED BY <2>1, <2>2, InitTypeOK DEF LockInv
  <1>2. LockInv /\ [Next]_vars => LockInv'
    BY StepTypeOK, StepRowsHeld, StepWritesHeld, StepChecksStayTrue DEF LockInv
  <1> QED BY <1>1, <1>2, PTL DEF Spec

(* saveTransaction and its callers keep the types of the model.            *)
THEOREM TypeCorrect == Spec => []TypeOK
  <1>1. LockInv => TypeOK
    BY DEF LockInv
  <1> QED BY <1>1, LockInvInductive, PTL

(* With the row locks, a balance checked in saveTransaction is enough when *)
(* the transaction commits, whatever the other calls do meanwhile.         *)
THEOREM ChecksNeverStale == Spec => []ChecksStayTrue
  <1>1. LockInv => ChecksStayTrue
    BY DEF LockInv
  <1> QED BY <1>1, LockInvInductive, PTL
-----------------------------------------------------------------------------
(* Inserting one posting: its amount is added where nothing was, when the  *)
(* posting is the one debit of a LIABILITY account.                        *)
LEMMA WriteKeepsOneDebit ==
    ASSUME LockInv, OneDebitWritten, NEW c \in Calls, WritePosting(c)
    PROVE  OneDebitWritten'
  <1>0. TypeOK /\ RowsHeld
    BY DEF LockInv
  <1>1. PICK p : p = txn[c][idx[c]] /\ idx[c] \in DOMAIN txn[c]
    BY DEF WritePosting
  <1>2. /\ written' = [written EXCEPT ![c][p.account][p.direction] = @ + p.amount]
        /\ idx' = [idx EXCEPT ![c] = @ + 1]
        /\ pc' = pc /\ txn' = txn /\ pc[c] = "writing"
    BY <1>1 DEF WritePosting
  <1>3. p.account \in Accounts /\ p.amount \in Nat /\ p.direction \in Directions
    BY <1>0, <1>1, <1>2, PostingOfCall DEF RowsHeld, Checked, AccountsOf
  <1>5. SUFFICES ASSUME NEW e \in Calls, NEW a \in Liability,
                        written'[e][a]["DEBIT"] # 0, DebitsOnce(txn[e], a)
        PROVE  \E i \in DOMAIN txn'[e] :
                  /\ pc'[e] = "writing" => i < idx'[e]
                  /\ IsChecked(txn'[e][i])
                  /\ txn'[e][i].account = a
                  /\ txn'[e][i].amount = written'[e][a]["DEBIT"]
    BY <1>2 DEF OneDebitWritten, IsChecked, DebitsOnce
  <1>6. a \in Accounts
    BY AccountsAssumption
  <1>7. CASE e = c /\ a = p.account /\ p.direction = "DEBIT"
    <2>1. written[c][a]["DEBIT"] = 0
      <3>1. SUFFICES ASSUME written[c][a]["DEBIT"] # 0 PROVE FALSE
        OBVIOUS
      <3>2. PICK i \in DOMAIN txn[c] :
              i < idx[c] /\ IsChecked(txn[c][i]) /\ txn[c][i].account = a
        BY <1>2, <1>5, <1>7, <3>1 DEF OneDebitWritten
      <3>3. i = idx[c]
        BY <1>1, <1>5, <1>7, <3>2 DEF DebitsOnce, IsChecked
      <3> QED BY <1>0, <3>2, <3>3 DEF TypeOK
    <2>2. written'[c][a]["DEBIT"] = p.amount
      BY <1>0, <1>2, <1>3, <1>7, <2>1 DEF Sums, TypeOK
    <2>3. IsChecked(txn[c][idx[c]]) /\ idx[c] < idx'[c]
      BY <1>0, <1>1, <1>2, <1>7 DEF IsChecked, TypeOK
    <2> QED BY <1>1, <1>2, <1>7, <2>2, <2>3
  <1>8. CASE ~(e = c /\ a = p.account /\ p.direction = "DEBIT")
    <2>1. written'[e][a]["DEBIT"] = written[e][a]["DEBIT"]
      BY <1>0, <1>2, <1>3, <1>6, <1>8 DEF Sums, Directions, TypeOK
    <2>2. PICK i \in DOMAIN txn[e] :
            /\ pc[e] = "writing" => i < idx[e]
            /\ IsChecked(txn[e][i])
            /\ txn[e][i].account = a
            /\ txn[e][i].amount = written[e][a]["DEBIT"]
      BY <1>5, <2>1 DEF OneDebitWritten
    <2>3. i \in Nat
      BY <1>0, DomainOfCall
    <2>4. pc[e] = "writing" => i < idx'[e]
      BY <1>0, <1>2, <2>2, <2>3 DEF TypeOK
    <2> QED BY <1>2, <2>1, <2>2, <2>4
  <1> QED BY <1>7, <1>8

(* A commit takes no LIABILITY account below zero that its list debits     *)
(* once: the debit was checked, and the check still holds.                 *)
LEMMA CommitKeepsCover ==
    ASSUME LockInv, OneDebitWritten, NEW c \in Calls, Commit(c),
           NEW a \in Liability, DebitsOnce(txn[c], a)
    PROVE  Balance(a)' >= Balance(a) \/ Balance(a)' >= 0
  <1>. USE DEF LockInv, TypeOK
  <1>2. a \in Accounts
    BY AccountsAssumption
  <1>3. /\ sums'[a]["DEBIT"] = sums[a]["DEBIT"] + written[c][a]["DEBIT"]
        /\ sums'[a]["CREDIT"] = sums[a]["CREDIT"] + written[c][a]["CREDIT"]
    BY <1>2 DEF Commit, Directions
  <1>4. /\ sums[a]["DEBIT"] \in Nat /\ sums[a]["CREDIT"] \in Nat
        /\ written[c][a]["DEBIT"] \in Nat /\ written[c][a]["CREDIT"] \in Nat
    BY <1>2 DEF Sums, Directions
  <1>5. CASE written[c][a]["DEBIT"] = 0
    BY <1>3, <1>4, <1>5 DEF Balance, BalanceOf
  <1>6. CASE written[c][a]["DEBIT"] # 0
    <2>1. PICK i \in DOMAIN txn[c] :
            /\ IsChecked(txn[c][i])
            /\ txn[c][i].account = a
            /\ txn[c][i].amount = written[c][a]["DEBIT"]
      BY <1>6 DEF OneDebitWritten
    <2>2. i \in PassedChecks(c)
      BY DEF Commit, PassedChecks
    <2>3. Balance(a) >= written[c][a]["DEBIT"]
      BY <2>1, <2>2 DEF ChecksStayTrue, Acceptable
    <2> QED BY <1>3, <1>4, <2>3 DEF Balance, BalanceOf
  <1> QED BY <1>5, <1>6

(* A step that writes nothing, ends no call and commits nothing.           *)
LEMMA QuietStepKeepsDebits ==
    ASSUME LockInv, OneDebitWritten, written' = written,
           \A e \in Calls : pc[e] \in {"writing", "written"} =>
               /\ txn'[e] = txn[e]
               /\ pc'[e] = "writing" => pc[e] = "writing" /\ idx'[e] = idx[e]
    PROVE  OneDebitWritten'
  <1>1. \A e \in Calls, a \in Liability :
            written[e][a]["DEBIT"] # 0 => pc[e] \in {"writing", "written"}
    BY AccountsAssumption DEF LockInv, WritesHeld, Directions
  <1> QED BY <1>1 DEF OneDebitWritten, DebitsOnce, IsChecked

(* Ending a call discards what it has written.                             *)
LEMMA EndKeepsOneDebit ==
    ASSUME LockInv, OneDebitWritten, NEW c \in Calls, NEW how \in Ended,
           End(c, how)
    PROVE  OneDebitWritten'
  <1>1. /\ \A e \in Calls \ {c} : /\ pc'[e] = pc[e] /\ idx'[e] = idx[e]
                                  /\ written'[e] = written[e]
        /\ written'[c] = Nothing
        /\ txn' = txn
    BY DEF End, LockInv, TypeOK
  <1>2. \A a \in Liability : written'[c][a]["DEBIT"] = 0
    BY <1>1, AccountsAssumption DEF Nothing, Directions
  <1> QED BY <1>1, <1>2 DEF OneDebitWritten, DebitsOnce, IsChecked

(* A step writes a debit only as it was checked.                           *)
LEMMA StepOneDebit ==
    ASSUME LockInv, OneDebitWritten, [Next]_vars
    PROVE  OneDebitWritten'
  <1>. USE DEF Open, Ended
  <1>0. TypeOK
    BY DEF LockInv
  <1>1. ASSUME NEW c \in Calls, RefuseUnbalanced(c) PROVE OneDebitWritten'
    BY <1>0, <1>1, QuietStepKeepsDebits DEF RefuseUnbalanced, TypeOK
  <1>2. ASSUME NEW c \in Calls, Begin(c) PROVE OneDebitWritten'
    BY <1>0, <1>2, QuietStepKeepsDebits DEF Begin, TypeOK
  <1>3. ASSUME NEW c \in Calls, LockRow(c) PROVE OneDebitWritten'
    BY <1>3, QuietStepKeepsDebits DEF LockRow, Free
  <1>4. ASSUME NEW c \in Calls, RefuseMissing(c) PROVE OneDebitWritten'
    BY <1>4, EndKeepsOneDebit DEF RefuseMissing, Rollback
  <1>5. ASSUME NEW c \in Calls, StartChecks(c) PROVE OneDebitWritten'
    BY <1>0, <1>5, QuietStepKeepsDebits DEF StartChecks, AllRowsLocked, TypeOK
  <1>6. ASSUME NEW c \in Calls, CheckPosting(c) PROVE OneDebitWritten'
    BY <1>0, <1>6, QuietStepKeepsDebits DEF CheckPosting, TypeOK
  <1>7. ASSUME NEW c \in Calls, RefusePosting(c) PROVE OneDebitWritten'
    BY <1>7, EndKeepsOneDebit DEF RefusePosting, Rollback
  <1>8. ASSUME NEW c \in Calls, StartWrites(c) PROVE OneDebitWritten'
    BY <1>0, <1>8, QuietStepKeepsDebits DEF StartWrites, TypeOK
  <1>9. ASSUME NEW c \in Calls, WritePosting(c) PROVE OneDebitWritten'
    BY <1>9, WriteKeepsOneDebit
  <1>10. ASSUME NEW c \in Calls, Return(c) PROVE OneDebitWritten'
    BY <1>0, <1>10, QuietStepKeepsDebits DEF Return, TypeOK
  <1>11. ASSUME NEW c \in Calls, Commit(c) PROVE OneDebitWritten'
    BY <1>11, EndKeepsOneDebit DEF Commit
  <1>12. ASSUME NEW c \in Calls, AbortDeadlocked(c) PROVE OneDebitWritten'
    BY <1>12, EndKeepsOneDebit DEF AbortDeadlocked, Rollback
  <1>13. ASSUME NEW c \in Calls, Abort(c) PROVE OneDebitWritten'
    BY <1>13, EndKeepsOneDebit DEF Abort, Rollback
  <1>14. CASE UNCHANGED vars
    BY <1>14, QuietStepKeepsDebits DEF vars
  <1> QED
    BY <1>1, <1>2, <1>3, <1>4, <1>5, <1>6, <1>7, <1>8, <1>9, <1>10, <1>11,
       <1>12, <1>13, <1>14 DEF Next, Progress, Finished

LEMMA AlwaysOneDebit == Spec => []OneDebitWritten
  <1>1. Init => OneDebitWritten
    BY AccountsAssumption DEF Init, OneDebitWritten, Nothing, Directions
  <1>2. LockInv /\ OneDebitWritten /\ [Next]_vars => OneDebitWritten'
    BY StepOneDebit
  <1> QED BY <1>1, <1>2, LockInvInductive, PTL DEF Spec

(* Only a commit changes sums.                                             *)
LEMMA OthersKeepSums ==
    ASSUME [Next]_vars
    PROVE  sums' = sums \/ \E c \in Calls : Commit(c)
  BY DEF Next, Progress, Finished, vars, RefuseUnbalanced, Begin, LockRow,
         RefuseMissing, StartChecks, CheckPosting, RefusePosting, StartWrites,
         WritePosting, Return, AbortDeadlocked, Abort, Rollback

(* One step lowers a balance below zero only by a list with two debits.    *)
LEMMA StepOverdraws ==
    ASSUME LockInv, OneDebitWritten, [Next]_vars, NEW a \in Liability
    PROVE  \/ Balance(a)' >= Balance(a) \/ Balance(a)' >= 0
           \/ \E c \in Calls : /\ pc[c] = "written" /\ pc'[c] = "posted"
                              /\ ~DebitsOnce(txn[c], a)
  <1>1. CASE sums' = sums
    <2>1. sums[a]["DEBIT"] \in Nat /\ sums[a]["CREDIT"] \in Nat
      BY AccountsAssumption DEF LockInv, TypeOK, Sums, Directions
    <2> QED BY <1>1, <2>1 DEF Balance, BalanceOf
  <1>2. ASSUME NEW c \in Calls, Commit(c), ~DebitsOnce(txn[c], a)
        PROVE  pc[c] = "written" /\ pc'[c] = "posted"
    BY <1>2 DEF Commit, End, LockInv, TypeOK
  <1> QED BY <1>1, <1>2, OthersKeepSums, CommitKeepsCover

(* Ledger: whatever posting lists are sent and however calls interleave,   *)
(* a list that debits an account twice is the one way to overdraw it.      *)
THEOREM OnlyDoubleDebitsOverdraw == Spec => OverdrawnOnlyTwice
  <1>1. LockInv /\ OneDebitWritten /\ [Next]_vars =>
          [\A a \in Liability :
              Balance(a)' < Balance(a) /\ Balance(a)' < 0 =>
                  \E c \in Calls : /\ pc[c] = "written" /\ pc'[c] = "posted"
                                   /\ ~DebitsOnce(txn[c], a)]_vars
    <2> SUFFICES ASSUME LockInv, OneDebitWritten, [Next]_vars, NEW a \in Liability,
                        Balance(a)' < Balance(a), Balance(a)' < 0
                 PROVE  \E c \in Calls : /\ pc[c] = "written" /\ pc'[c] = "posted"
                                         /\ ~DebitsOnce(txn[c], a)
      OBVIOUS
    <2>1. Balance(a) \in Int /\ Balance(a)' \in Int
      <3>1. TypeOK /\ TypeOK'
        BY StepTypeOK DEF LockInv
      <3>2. /\ sums[a]["DEBIT"] \in Nat /\ sums[a]["CREDIT"] \in Nat
            /\ sums'[a]["DEBIT"] \in Nat /\ sums'[a]["CREDIT"] \in Nat
        BY <3>1, AccountsAssumption DEF TypeOK, Sums, Directions
      <3> QED BY <3>2 DEF Balance, BalanceOf
    <2> QED BY <2>1, StepOverdraws
  <1> QED BY <1>1, LockInvInductive, AlwaysOneDebit, PTL DEF Spec, OverdrawnOnlyTwice

(* An account that no list debits twice is never below zero, whatever the  *)
(* lists do to other accounts.                                             *)
LEMMA AlwaysSinglyCovered == Spec => []SinglyCovered
  <1>1. Init => SinglyCovered
    BY OpeningAssumption, AccountsAssumption
       DEF Init, SinglyCovered, Singly, Balance, BalanceOf, Sums, Directions
  <1>2. LockInv /\ OneDebitWritten /\ SinglyCovered /\ [Next]_vars => SinglyCovered'
    <2> SUFFICES ASSUME LockInv, OneDebitWritten, SinglyCovered, [Next]_vars,
                        NEW a \in Singly
                 PROVE  Balance(a)' >= 0
      BY DEF SinglyCovered, Singly, DebitsOnce, IsChecked
    <2>1. a \in Liability /\ Balance(a) >= 0 /\ \A c \in Calls : DebitsOnce(txn[c], a)
      BY DEF SinglyCovered, Singly, DebitsOnce, LockInv, TypeOK
    <2>2. Balance(a) \in Int /\ Balance(a)' \in Int
      <3>1. TypeOK /\ TypeOK'
        BY StepTypeOK DEF LockInv
      <3>2. /\ sums[a]["DEBIT"] \in Nat /\ sums[a]["CREDIT"] \in Nat
            /\ sums'[a]["DEBIT"] \in Nat /\ sums'[a]["CREDIT"] \in Nat
        BY <2>1, <3>1, AccountsAssumption DEF TypeOK, Sums, Directions
      <3> QED BY <2>1, <3>2 DEF Balance, BalanceOf
    <2> QED BY <2>1, <2>2, StepOverdraws
  <1> QED BY <1>1, <1>2, LockInvInductive, AlwaysOneDebit, PTL DEF Spec

LEMMA SingleDebitIsSingly ==
    ASSUME SingleDebit PROVE Singly = Liability
  BY DEF SingleDebit, Singly, DebitsOnce, IsChecked

(* The lists of the application's own callers: Reservation, Settlement and *)
(* Reversal of Withdrawals, Inflow and Movement of Payments.               *)
MovesMoney(t) ==
    \E a, b \in AccountIds, n \in Nat, u \in Currencies :
        t = <<Debit(a, n, u), Credit(b, n, u)>>

LEMMA MovementsDebitOnce ==
    ASSUME \A t \in Transactions : MovesMoney(t)
    PROVE  SingleDebit
  <1>1. ASSUME NEW t \in Transactions, NEW i \in DOMAIN t,
               t[i].direction = "DEBIT"
        PROVE  i = 1
    <2>1. PICK a, b, n, u : t = <<Debit(a, n, u), Credit(b, n, u)>>
      BY DEF MovesMoney
    <2>2. i \in {1, 2} /\ t[2] = Credit(b, n, u)
      BY <2>1
    <2> QED BY <1>1, <2>2 DEF Credit
  <1> QED BY <1>1 DEF SingleDebit

(* When every transaction debits a LIABILITY account in at most one        *)
(* posting, as the application's own do, no interleaving of any number of  *)
(* calls takes a LIABILITY account below zero.                             *)
THEOREM NeverOverdrawn ==
    ASSUME SingleDebit
    PROVE  Spec => []NoOverdraft
  <1>1. SinglyCovered => NoOverdraft
    BY SingleDebitIsSingly DEF SinglyCovered, NoOverdraft
  <1> QED BY <1>1, AlwaysSinglyCovered, PTL
-----------------------------------------------------------------------------
(* The postings of its transaction that a call has inserted.               *)
Done(c) == {i \in DOMAIN txn[c] : \/ pc[c] = "written"
                                  \/ pc[c] = "writing" /\ i < idx[c]}

(* What each posting of t adds to account a in direction d, and what it    *)
(* adds to the debits less the credits of the accounts in currency u.      *)
PartOf(t, a, d) ==
    [i \in DOMAIN t |-> IF t[i].account = a /\ t[i].direction = d
                        THEN t[i].amount ELSE 0]
SignedIn(t, u) ==
    [i \in DOMAIN t |-> IF t[i].currency = u THEN SignedAmount(t[i]) ELSE 0]

(* Debits less credits, by account and over the accounts of currency u.    *)
Net(s)         == [a \in Accounts |-> s[a]["DEBIT"] - s[a]["CREDIT"]]
NetTotal(s, u) == SumFunctionOnSet(Net(s), AccountsIn(u))

Begun == \A c \in Calls : pc[c] \in Open =>
             txn[c] \in Transactions /\ Balanced(txn[c])

(* What a call has inserted is the postings it is done with, no more and   *)
(* no less, by account and by currency.                                    *)
WrittenIsDone ==
    \A c \in Calls :
        /\ \A a \in Accounts, d \in Directions :
              written[c][a][d] = SumFunctionOnSet(PartOf(txn[c], a, d), Done(c))
        /\ \A u \in Currencies :
              NetTotal(written[c], u) = SumFunctionOnSet(SignedIn(txn[c], u), Done(c))

CommittedNets == \A u \in Currencies : NetTotal(sums, u) = 0

PostInv == Begun /\ WrittenIsDone /\ CommittedNets
-----------------------------------------------------------------------------
LEMMA AccountsInFinite ==
    ASSUME NEW u
    PROVE  IsFiniteSet(AccountsIn(u)) /\ AccountsIn(u) \subseteq Accounts
  <1>1. AccountsIn(u) \subseteq Accounts
    BY DEF AccountsIn
  <1> QED BY <1>1, AccountsAssumption, FS_Subset

LEMMA NetIsInt ==
    ASSUME NEW s \in Sums
    PROVE  \A a \in Accounts : /\ Net(s)[a] \in Int
                               /\ Net(s)[a] = s[a]["DEBIT"] - s[a]["CREDIT"]
                               /\ s[a]["DEBIT"] \in Nat /\ s[a]["CREDIT"] \in Nat
  BY DEF Net, Sums, Directions

(* Debits and credits are equal just if the net is zero.                   *)
LEMMA NetIsDifference ==
    ASSUME NEW s \in Sums, NEW u
    PROVE  /\ NetTotal(s, u) \in Int
           /\ TotalOf(s, u, "CREDIT") \in Int
           /\ TotalOf(s, u, "DEBIT") = TotalOf(s, u, "CREDIT") + NetTotal(s, u)
  <1> PICK S, f, g, h : /\ S = AccountsIn(u) /\ g = Net(s)
                        /\ f = [a \in Accounts |-> s[a]["CREDIT"]]
                        /\ h = [a \in Accounts |-> s[a]["DEBIT"]]
    OBVIOUS
  <1>1. IsFiniteSet(S)
    BY AccountsInFinite
  <1>2. \A a \in S : f[a] \in Int /\ g[a] \in Int /\ h[a] = f[a] + g[a]
    BY AccountsInFinite, NetIsInt
  <1>3. SumFunctionOnSet(f, S) \in Int
    BY <1>1, <1>2, SumInt
  <1>4. SumFunctionOnSet(g, S) \in Int
    BY <1>1, <1>2, SumInt
  <1>5. SumFunctionOnSet(h, S) = SumFunctionOnSet(f, S) + SumFunctionOnSet(g, S)
    BY <1>1, <1>2, SumPlus
  <1> QED BY <1>3, <1>4, <1>5 DEF TotalOf, NetTotal

LEMMA NothingNets ==
    ASSUME NEW u PROVE NetTotal(Nothing, u) = 0
  <1> PICK S, g : S = AccountsIn(u) /\ g = Net(Nothing)
    OBVIOUS
  <1>1. \A a \in S : g[a] = 0
    BY AccountsInFinite DEF Net, Nothing, Directions
  <1>2. IsFiniteSet(S)
    BY AccountsInFinite
  <1>3. SumFunctionOnSet(g, S) = 0
    BY <1>1, <1>2, SumZero
  <1> QED BY <1>3 DEF NetTotal

(* A transaction of a call in progress: its postings, and that they cancel.*)
LEMMA PostingsCancel ==
    ASSUME NEW t \in Transactions, Balanced(t), NEW u
    PROVE  SumFunctionOnSet(SignedIn(t, u), DOMAIN t) = 0
  <1>1. t \in Seq(PostingsOver(AccountIds, Nat, Currencies))
    BY TransactionsAssumption
  <1>2. IsFiniteSet(DOMAIN t)
    BY <1>1, FS_Interval
  <1> PICK D, f, g : /\ D = DOMAIN t /\ f = SignedIn(t, u)
                     /\ g = [i \in DOMAIN t |-> SignedAmount(t[i])]
    OBVIOUS
  <1>3. SumFunctionOnSet(g, D) = 0
    BY DEF Balanced, SumFunction
  <1>4. CASE u = t[1].currency
    <2>1. \A i \in D : f[i] = g[i]
      BY <1>4 DEF Balanced, SignedIn
    <2>2. SumFunctionOnSet(f, D) = SumFunctionOnSet(g, D)
      BY <1>2, <2>1, SumSame
    <2> QED BY <1>3, <2>2
  <1>5. CASE u # t[1].currency
    <2>1. \A i \in D : f[i] = 0
      BY <1>5 DEF Balanced, SignedIn
    <2>2. SumFunctionOnSet(f, D) = 0
      BY <1>2, <2>1, SumZero
    <2> QED BY <2>2
  <1> QED BY <1>4, <1>5
-----------------------------------------------------------------------------
(* For the calls whose inserts a step leaves alone.                        *)
SameWrites(e) ==
    /\ written'[e] = written[e]
    /\ \/ txn'[e] = txn[e] /\ Done(e)' = Done(e)
       \/ Done(e) = {} /\ Done(e)' = {}

WrittenBy(c) ==
    /\ \A a \in Accounts, d \in Directions :
          written[c][a][d] = SumFunctionOnSet(PartOf(txn[c], a, d), Done(c))
    /\ \A u \in Currencies :
          NetTotal(written[c], u) = SumFunctionOnSet(SignedIn(txn[c], u), Done(c))

LEMMA SameWritesStay ==
    ASSUME NEW e \in Calls, SameWrites(e), WrittenBy(e)
    PROVE  WrittenBy(e)'
  <1>1. CASE txn'[e] = txn[e] /\ Done(e)' = Done(e)
    <2>1. \A a, d : PartOf(txn[e], a, d)' = PartOf(txn[e], a, d)
      BY <1>1 DEF PartOf
    <2>2. \A u : SignedIn(txn[e], u)' = SignedIn(txn[e], u)
      BY <1>1 DEF SignedIn, SignedAmount
    <2>3. \A u : NetTotal(written[e], u)' = NetTotal(written[e], u)
      BY DEF SameWrites, NetTotal, Net, AccountsIn
    <2> QED BY <1>1, <2>1, <2>2, <2>3 DEF WrittenBy, SameWrites
  <1>2. CASE Done(e) = {} /\ Done(e)' = {}
    <2>1. \A u : NetTotal(written[e], u)' = NetTotal(written[e], u)
      BY DEF SameWrites, NetTotal, Net, AccountsIn
    <2> QED BY <1>2, <2>1, SumEmpty DEF WrittenBy, SameWrites
  <1> QED BY <1>1, <1>2 DEF SameWrites
(* One cell of a table of sums is increased.                               *)
CellAdded(A, D, v, w, x, y, m) ==
    \A a \in A, d \in D :
        w[a][d] = IF a = x /\ d = y THEN v[a][d] + m ELSE v[a][d]

LEMMA AddToCell ==
    ASSUME NEW A, NEW D, NEW v \in [A -> [D -> Nat]], NEW x \in A, NEW y \in D,
           NEW m \in Nat, NEW w, w = [v EXCEPT ![x][y] = @ + m]
    PROVE  CellAdded(A, D, v, w, x, y, m)
  <1>1. \A a \in A : a # x => w[a] = v[a]
    OBVIOUS
  <1>2. PICK f : f = v[x]
    OBVIOUS
  <1>3. f \in [D -> Nat] /\ w[x] = [f EXCEPT ![y] = @ + m]
    BY <1>2
  <1>4. \A d \in D : w[x][d] = IF d = y THEN f[d] + m ELSE f[d]
    BY <1>3
  <1> QED BY <1>1, <1>2, <1>4 DEF CellAdded

(* A step that only moves calls leaves what every call has written.        *)
LEMMA SameWritesKeep ==
    ASSUME WrittenIsDone, NEW c \in Calls, \A e \in Calls \ {c} : SameWrites(e),
           WrittenBy(c)'
    PROVE  WrittenIsDone'
  <1>1. \A e \in Calls \ {c} : WrittenBy(e)'
    <2> SUFFICES ASSUME NEW e \in Calls \ {c} PROVE WrittenBy(e)'
      OBVIOUS
    <2>1. SameWrites(e) /\ WrittenBy(e)
      BY DEF WrittenIsDone, WrittenBy
    <2> QED BY <2>1, SameWritesStay
  <1>2. \A e \in Calls : WrittenBy(e)'
    BY <1>1
  <1> QED BY <1>2 DEF WrittenIsDone, WrittenBy

LEMMA QuietStepKeepsPosts ==
    ASSUME PostInv, sums' = sums, \A e \in Calls : SameWrites(e), Begun'
    PROVE  PostInv'
  <1>1. WrittenIsDone'
    <2>1. \A e \in Calls : WrittenBy(e)'
      <3> SUFFICES ASSUME NEW e \in Calls PROVE WrittenBy(e)'
        OBVIOUS
      <3>1. SameWrites(e) /\ WrittenBy(e)
        BY DEF PostInv, WrittenIsDone, WrittenBy
      <3> QED BY <3>1, SameWritesStay
    <2> QED BY <2>1 DEF WrittenIsDone, WrittenBy
  <1>2. CommittedNets'
    BY DEF PostInv, CommittedNets, NetTotal, Net, AccountsIn
  <1> QED BY <1>1, <1>2 DEF PostInv

(* Ending a call leaves the others alone and takes back what it wrote.     *)
LEMMA EndKeepsPosts ==
    ASSUME TypeOK, PostInv, NEW c \in Calls, NEW how \in Ended, End(c, how)
    PROVE  Begun' /\ WrittenIsDone'
  <1>1. /\ \A e \in Calls \ {c} : /\ pc'[e] = pc[e] /\ idx'[e] = idx[e]
                                  /\ written'[e] = written[e]
        /\ written'[c] = Nothing /\ pc'[c] = how
        /\ txn' = txn
    BY DEF End, TypeOK
  <1>2. Begun'
    BY <1>1 DEF PostInv, Begun, Open, Ended
  <1>3. \A e \in Calls \ {c} : SameWrites(e)
    BY <1>1 DEF SameWrites, Done
  <1>4. WrittenBy(c)'
    <2>1. Done(c)' = {}
      BY <1>1 DEF Done, Ended
    <2>2. \A a \in Accounts, d \in Directions : written'[c][a][d] = 0
      BY <1>1 DEF Nothing
    <2>3. \A u : NetTotal(written[c], u)' = NetTotal(Nothing, u)
      BY <1>1 DEF NetTotal, Net, AccountsIn
    <2> QED BY <2>1, <2>2, <2>3, NothingNets, SumEmpty DEF WrittenBy
  <1>5. WrittenIsDone'
    BY <1>3, <1>4, SameWritesKeep DEF PostInv
  <1> QED BY <1>2, <1>5

LEMMA RollbackKeepsPosts ==
    ASSUME TypeOK, PostInv, NEW c \in Calls, NEW how \in Ended, Rollback(c, how)
    PROVE  PostInv'
  <1>1. Begun' /\ WrittenIsDone'
    BY EndKeepsPosts DEF Rollback
  <1>2. CommittedNets'
    BY DEF Rollback, PostInv, CommittedNets, NetTotal, Net, AccountsIn
  <1> QED BY <1>1, <1>2 DEF PostInv

(* One more posting inserted is one more posting done with.                *)
LEMMA WriteKeepsPosts ==
    ASSUME LockInv, PostInv, NEW c \in Calls, WritePosting(c)
    PROVE  PostInv'
  <1>0. TypeOK /\ RowsHeld /\ ChecksStayTrue
    BY DEF LockInv
  <1> PICK n, k, t, p : /\ n \in Nat /\ DOMAIN txn[c] = 1 .. n
                        /\ k = idx[c] /\ t = txn[c] /\ p = t[k]
    BY <1>0, DomainOfCall
  <1>1. /\ pc[c] = "writing" /\ k \in 1 .. n /\ k \in DOMAIN t
        /\ written' = [written EXCEPT ![c][p.account][p.direction] = @ + p.amount]
        /\ idx' = [idx EXCEPT ![c] = k + 1]
        /\ sums' = sums /\ pc' = pc /\ txn' = txn
    BY DEF WritePosting
  <1>2. /\ p.account \in Accounts /\ p.amount \in Nat /\ p.direction \in Directions
        /\ p.currency = CurrencyOf[p.account]
    <2>1. p.account \in AccountsOf(txn[c])
      BY <1>1 DEF AccountsOf
    <2>2. k \in PassedChecks(c)
      BY <1>1 DEF PassedChecks
    <2> QED BY <1>0, <1>1, <2>1, <2>2, PostingOfCall
            DEF RowsHeld, Checked, ChecksStayTrue, Acceptable
  <1>3. /\ Done(c) \subseteq 1 .. n /\ k \notin Done(c) /\ IsFiniteSet(Done(c))
        /\ Done(c)' = Done(c) \cup {k}
    <2>1. Done(c) = {i \in 1 .. n : i < k}
      BY <1>1 DEF Done
    <2>2. Done(c)' = {i \in 1 .. n : i < k + 1}
      BY <1>0, <1>1 DEF Done, TypeOK
    <2>3. IsFiniteSet(1 .. n)
      BY FS_Interval
    <2> QED BY <1>1, <2>1, <2>2, <2>3, FS_Subset
  <1>4. \A i \in 1 .. n : t[i].amount \in Nat
    BY <1>0, PostingOfCall
  <1>5. /\ written[c] \in Sums
        /\ \A a \in Accounts, d \in Directions : written'[c][a][d] =
              IF a = p.account /\ d = p.direction
              THEN written[c][a][d] + p.amount ELSE written[c][a][d]
    <2>1. written[c] \in [Accounts -> [Directions -> Nat]]
      BY <1>0 DEF TypeOK, Sums
    <2>2. written'[c] = [written[c] EXCEPT ![p.account][p.direction] = @ + p.amount]
      BY <1>0, <1>1 DEF TypeOK
    <2>3. CellAdded(Accounts, Directions, written[c], written'[c],
                    p.account, p.direction, p.amount)
      BY <1>2, <2>1, <2>2, AddToCell
    <2> QED BY <2>1, <2>3 DEF CellAdded, Sums
  <1>6. ASSUME NEW a \in Accounts, NEW d \in Directions
        PROVE  written'[c][a][d] =
                  SumFunctionOnSet(PartOf(t, a, d), Done(c) \cup {k})
    <2> PICK f : f = PartOf(t, a, d)
      OBVIOUS
    <2>1. /\ \A i \in Done(c) : f[i] \in Int
          /\ f[k] = IF p.account = a /\ p.direction = d THEN p.amount ELSE 0
          /\ f[k] \in Int
      <3>1. \A i \in 1 .. n : f[i] = IF t[i].account = a /\ t[i].direction = d
                                       THEN t[i].amount ELSE 0
        BY DEF PartOf
      <3>2. \A i \in 1 .. n : f[i] \in Int
        BY <1>4, <3>1
      <3> QED BY <1>1, <1>3, <3>1, <3>2
    <2>2. SumFunctionOnSet(f, Done(c) \cup {k}) = f[k] + SumFunctionOnSet(f, Done(c))
      BY <1>3, <2>1, SumAdd
    <2>3. SumFunctionOnSet(f, Done(c)) = written[c][a][d]
      BY DEF PostInv, WrittenIsDone
    <2>4. written[c][a][d] \in Nat
      BY <1>5 DEF Sums
    <2> QED BY <1>2, <1>5, <2>1, <2>2, <2>3, <2>4
  <1>7. ASSUME NEW u \in Currencies
        PROVE  NetTotal(written'[c], u) =
                  SumFunctionOnSet(SignedIn(t, u), Done(c) \cup {k})
    <2> PICK f : f = SignedIn(t, u)
      OBVIOUS
    <2>1. /\ \A i \in Done(c) : f[i] \in Int
          /\ f[k] = IF p.currency = u THEN SignedAmount(p) ELSE 0
          /\ f[k] \in Int /\ SignedAmount(p) \in Int
      <3>1. \A i \in 1 .. n : f[i] = IF t[i].currency = u
                                       THEN SignedAmount(t[i]) ELSE 0
        BY DEF SignedIn
      <3>2. \A i \in 1 .. n : SignedAmount(t[i]) \in Int
        BY <1>4 DEF SignedAmount
      <3>3. \A i \in 1 .. n : f[i] \in Int
        BY <3>1, <3>2
      <3> QED BY <1>1, <1>3, <3>1, <3>2, <3>3
    <2>2. SumFunctionOnSet(f, Done(c) \cup {k}) = f[k] + SumFunctionOnSet(f, Done(c))
      BY <1>3, <2>1, SumAdd
    <2>3. SumFunctionOnSet(f, Done(c)) = NetTotal(written[c], u)
      BY DEF PostInv, WrittenIsDone
    <2> PICK S, g, h, x : /\ S = AccountsIn(u) /\ g = Net(written[c])
                          /\ h = Net(written'[c]) /\ x = p.account
      OBVIOUS
    <2>4. IsFiniteSet(S) /\ S \subseteq Accounts
      BY AccountsInFinite
    <2>5. \A a \in Accounts : /\ g[a] \in Int
                              /\ h[a] = g[a] + (IF a = x THEN SignedAmount(p) ELSE 0)
      <3> PICK v, w : v = written[c] /\ w = written'[c]
        OBVIOUS
      <3>1. \A a \in Accounts : /\ g[a] = v[a]["DEBIT"] - v[a]["CREDIT"]
                                 /\ h[a] = w[a]["DEBIT"] - w[a]["CREDIT"]
        BY DEF Net
      <3>2. \A a \in Accounts : v[a]["DEBIT"] \in Nat /\ v[a]["CREDIT"] \in Nat
        BY <1>5 DEF Sums, Directions
      <3>3. \A a \in Accounts :
              /\ w[a]["DEBIT"] = IF a = x /\ "DEBIT" = p.direction
                                 THEN v[a]["DEBIT"] + p.amount ELSE v[a]["DEBIT"]
              /\ w[a]["CREDIT"] = IF a = x /\ "CREDIT" = p.direction
                                  THEN v[a]["CREDIT"] + p.amount ELSE v[a]["CREDIT"]
        BY <1>5 DEF Directions
      <3>4. \/ p.direction = "DEBIT" /\ SignedAmount(p) = p.amount
            \/ p.direction = "CREDIT" /\ SignedAmount(p) = -p.amount
        BY <1>2 DEF SignedAmount, Directions
      <3> SUFFICES ASSUME NEW a \in Accounts
                   PROVE  /\ g[a] \in Int
                          /\ h[a] = g[a] + (IF a = x THEN SignedAmount(p) ELSE 0)
        OBVIOUS
      <3>5. g[a] \in Int
        BY <3>1, <3>2
      <3>6. CASE a # x
        BY <3>1, <3>2, <3>3, <3>5, <3>6
      <3>7. CASE a = x /\ p.direction = "DEBIT"
        <4>1. /\ w[a]["DEBIT"] = v[a]["DEBIT"] + p.amount
              /\ w[a]["CREDIT"] = v[a]["CREDIT"]
          BY <3>3, <3>7
        <4>2. SignedAmount(p) = p.amount
          BY <3>4, <3>7
        <4>3. /\ g[a] = v[a]["DEBIT"] - v[a]["CREDIT"]
              /\ h[a] = w[a]["DEBIT"] - w[a]["CREDIT"]
              /\ v[a]["DEBIT"] \in Int /\ v[a]["CREDIT"] \in Int
          BY <3>1, <3>2
        <4>4. h[a] = g[a] + p.amount
          BY <1>2, <4>1, <4>3
        <4> QED BY <3>5, <3>7, <4>2, <4>4
      <3>8. CASE a = x /\ p.direction = "CREDIT"
        <4>1. /\ w[a]["CREDIT"] = v[a]["CREDIT"] + p.amount
              /\ w[a]["DEBIT"] = v[a]["DEBIT"]
          BY <3>3, <3>8
        <4>2. SignedAmount(p) = -p.amount
          BY <3>4, <3>8
        <4>3. /\ g[a] = v[a]["DEBIT"] - v[a]["CREDIT"]
              /\ h[a] = w[a]["DEBIT"] - w[a]["CREDIT"]
              /\ v[a]["DEBIT"] \in Int /\ v[a]["CREDIT"] \in Int
          BY <3>1, <3>2
        <4>4. h[a] = g[a] - p.amount
          BY <1>2, <4>1, <4>3
        <4>5. h[a] = g[a] + SignedAmount(p)
          BY <1>2, <3>5, <4>2, <4>4
        <4> QED BY <3>5, <3>8, <4>5
      <3> QED BY <3>4, <3>5, <3>6, <3>7, <3>8
    <2>6. CASE x \in S
      <3>1. p.currency = u
        BY <1>2, <2>6 DEF AccountsIn
      <3>2. /\ \A a \in S : g[a] \in Int
            /\ h[x] \in Int /\ h[x] = g[x] + f[k]
            /\ \A a \in S \ {x} : h[a] = g[a]
        BY <2>1, <2>4, <2>5, <2>6, <3>1
      <3>3. SumFunctionOnSet(h, S) = SumFunctionOnSet(g, S) - g[x] + h[x]
        BY <2>4, <2>6, <3>2, SumChange
      <3>4. SumFunctionOnSet(g, S) \in Int
        BY <2>4, <3>2, SumInt
      <3>5. g[x] \in Int
        BY <2>6, <3>2
      <3> QED BY <2>1, <2>2, <2>3, <3>2, <3>3, <3>4, <3>5 DEF NetTotal
    <2>7. CASE x \notin S
      <3>1. p.currency # u
        BY <1>2, <2>7 DEF AccountsIn
      <3>2. \A a \in S : g[a] \in Int /\ h[a] = g[a]
        BY <2>4, <2>5, <2>7
      <3>3. SumFunctionOnSet(h, S) = SumFunctionOnSet(g, S)
        BY <2>4, <3>2, SumSame
      <3>4. SumFunctionOnSet(g, S) \in Int
        BY <2>4, <3>2, SumInt
      <3> QED BY <2>1, <2>2, <2>3, <3>1, <3>3, <3>4 DEF NetTotal
    <2> QED BY <2>6, <2>7
  <1>8. WrittenBy(c)'
    <2>1. \A u : NetTotal(written[c], u)' = NetTotal(written'[c], u)
      BY DEF NetTotal, Net, AccountsIn
    <2>2. \A a, d : PartOf(txn[c], a, d)' = PartOf(t, a, d)
      BY <1>1 DEF PartOf
    <2>3. \A u : SignedIn(txn[c], u)' = SignedIn(t, u)
      BY <1>1 DEF SignedIn, SignedAmount
    <2> QED BY <1>3, <1>6, <1>7, <2>1, <2>2, <2>3 DEF WrittenBy
  <1>9. \A e \in Calls \ {c} : SameWrites(e)
    BY <1>0, <1>1 DEF SameWrites, Done, TypeOK
  <1>10. WrittenIsDone'
    BY <1>8, <1>9, SameWritesKeep DEF PostInv
  <1>11. Begun' /\ CommittedNets'
    BY <1>1 DEF PostInv, Begun, CommittedNets, NetTotal, Net, AccountsIn
  <1> QED BY <1>10, <1>11 DEF PostInv
-----------------------------------------------------------------------------
(* A call that has returned has inserted its whole transaction, and each   *)
(* account of it in its own currency.                                      *)
LEMMA AllWritten ==
    ASSUME LockInv, PostInv, NEW c \in Calls, pc[c] = "written"
    PROVE  /\ txn[c] \in Transactions /\ Balanced(txn[c])
           /\ \A i \in DOMAIN txn[c] :
                 /\ txn[c][i].account \in Accounts
                 /\ txn[c][i].currency = CurrencyOf[txn[c][i].account]
           /\ \A a \in Accounts, d \in Directions :
                 written[c][a][d] = Posted(txn[c], a, d)
           /\ \A u \in Currencies : NetTotal(written[c], u) = 0
  <1>1. txn[c] \in Transactions /\ Balanced(txn[c])
    BY DEF PostInv, Begun, Open
  <1>2. Done(c) = DOMAIN txn[c]
    BY DEF Done
  <1>3. ASSUME NEW i \in DOMAIN txn[c]
        PROVE  /\ txn[c][i].account \in Accounts
               /\ txn[c][i].currency = CurrencyOf[txn[c][i].account]
    <2>1. i \in PassedChecks(c) /\ txn[c][i].account \in AccountsOf(txn[c])
      BY DEF PassedChecks, AccountsOf
    <2> QED BY <2>1 DEF LockInv, RowsHeld, Checked, ChecksStayTrue, Acceptable
  <1>4. ASSUME NEW a \in Accounts, NEW d \in Directions
        PROVE  written[c][a][d] = Posted(txn[c], a, d)
    <2>1. written[c][a][d] = SumFunctionOnSet(PartOf(txn[c], a, d), DOMAIN txn[c])
      BY <1>2 DEF PostInv, WrittenIsDone
    <2> QED BY <2>1 DEF Posted, SumFunction, PartOf
  <1>5. ASSUME NEW u \in Currencies PROVE NetTotal(written[c], u) = 0
    <2>1. NetTotal(written[c], u) = SumFunctionOnSet(SignedIn(txn[c], u), DOMAIN txn[c])
      BY <1>2 DEF PostInv, WrittenIsDone
    <2> QED BY <1>1, <2>1, PostingsCancel
  <1> QED BY <1>1, <1>3, <1>4, <1>5

(* A commit adds to each currency as many debits as credits.               *)
LEMMA CommitKeepsPosts ==
    ASSUME LockInv, PostInv, NEW c \in Calls, Commit(c)
    PROVE  PostInv'
  <1>0. TypeOK /\ sums \in Sums /\ written[c] \in Sums
    BY DEF LockInv, TypeOK
  <1>1. Begun' /\ WrittenIsDone'
    BY <1>0, EndKeepsPosts DEF Commit, Ended
  <1>2. ASSUME NEW u \in Currencies PROVE NetTotal(sums', u) = 0
    <2> PICK S, f, g, h : /\ S = AccountsIn(u) /\ f = Net(sums)
                          /\ g = Net(written[c]) /\ h = Net(sums')
      OBVIOUS
    <2>1. IsFiniteSet(S) /\ S \subseteq Accounts
      BY AccountsInFinite
    <2>2. \A a \in Accounts :
            /\ sums'[a]["DEBIT"] = sums[a]["DEBIT"] + written[c][a]["DEBIT"]
            /\ sums'[a]["CREDIT"] = sums[a]["CREDIT"] + written[c][a]["CREDIT"]
      BY DEF Commit, Directions
    <2>3. \A a \in Accounts :
            h[a] = sums'[a]["DEBIT"] - sums'[a]["CREDIT"]
      BY DEF Net
    <2>4. \A a \in Accounts :
            /\ f[a] \in Int /\ g[a] \in Int
            /\ f[a] = sums[a]["DEBIT"] - sums[a]["CREDIT"]
            /\ g[a] = written[c][a]["DEBIT"] - written[c][a]["CREDIT"]
            /\ sums[a]["DEBIT"] \in Nat /\ sums[a]["CREDIT"] \in Nat
            /\ written[c][a]["DEBIT"] \in Nat /\ written[c][a]["CREDIT"] \in Nat
      BY <1>0, NetIsInt
    <2>5. \A a \in S : f[a] \in Int /\ g[a] \in Int /\ h[a] = f[a] + g[a]
      <3> SUFFICES ASSUME NEW a \in S
                   PROVE  f[a] \in Int /\ g[a] \in Int /\ h[a] = f[a] + g[a]
        OBVIOUS
      <3> PICK d, k, x, y : /\ d = sums[a]["DEBIT"] /\ k = sums[a]["CREDIT"]
                            /\ x = written[c][a]["DEBIT"]
                            /\ y = written[c][a]["CREDIT"]
        OBVIOUS
      <3>1. /\ d \in Nat /\ k \in Nat /\ x \in Nat /\ y \in Nat
            /\ f[a] = d - k /\ g[a] = x - y /\ h[a] = (d + x) - (k + y)
        BY <2>1, <2>2, <2>3, <2>4
      <3> QED BY <3>1
    <2>6. SumFunctionOnSet(h, S) = SumFunctionOnSet(f, S) + SumFunctionOnSet(g, S)
      BY <2>1, <2>5, SumPlus
    <2>7. NetTotal(sums, u) = 0 /\ NetTotal(written[c], u) = 0
      BY AllWritten DEF PostInv, CommittedNets, Commit
    <2> QED BY <2>6, <2>7 DEF NetTotal
  <1>3. CommittedNets'
    BY <1>2 DEF CommittedNets, NetTotal, Net, AccountsIn
  <1> QED BY <1>1, <1>3 DEF PostInv

(* A step keeps what is inserted in line with what is done.                *)
LEMMA StepPostInv ==
    ASSUME LockInv, PostInv, [Next]_vars
    PROVE  PostInv'
  <1>. USE DEF Open, Ended
  <1>0. TypeOK
    BY DEF LockInv
  <1>1. ASSUME NEW c \in Calls, RefuseUnbalanced(c) PROVE PostInv'
    <2>1. Begun'
      BY <1>0, <1>1 DEF RefuseUnbalanced, PostInv, Begun, TypeOK
    <2>2. \A e \in Calls : SameWrites(e)
      BY <1>0, <1>1 DEF RefuseUnbalanced, SameWrites, Done, TypeOK
    <2> QED BY <1>1, <2>1, <2>2, QuietStepKeepsPosts DEF RefuseUnbalanced
  <1>2. ASSUME NEW c \in Calls, Begin(c) PROVE PostInv'
    <2>1. Begun'
      BY <1>0, <1>2 DEF Begin, PostInv, Begun, TypeOK
    <2>2. \A e \in Calls : SameWrites(e)
      BY <1>0, <1>2 DEF Begin, SameWrites, Done, TypeOK
    <2> QED BY <1>2, <2>1, <2>2, QuietStepKeepsPosts DEF Begin
  <1>3. ASSUME NEW c \in Calls, LockRow(c) PROVE PostInv'
    <2>1. pc' = pc /\ txn' = txn /\ idx' = idx /\ written' = written /\ sums' = sums
      BY <1>3 DEF LockRow
    <2>2. Begun' /\ \A e \in Calls : SameWrites(e)
      BY <2>1 DEF PostInv, Begun, SameWrites, Done
    <2> QED BY <2>1, <2>2, QuietStepKeepsPosts
  <1>4. ASSUME NEW c \in Calls, RefuseMissing(c) PROVE PostInv'
    BY <1>0, <1>4, RollbackKeepsPosts DEF RefuseMissing
  <1>5. ASSUME NEW c \in Calls, StartChecks(c) PROVE PostInv'
    <2>1. Begun'
      BY <1>0, <1>5 DEF StartChecks, AllRowsLocked, PostInv, Begun, TypeOK
    <2>2. \A e \in Calls : SameWrites(e)
      BY <1>0, <1>5 DEF StartChecks, AllRowsLocked, SameWrites, Done, TypeOK
    <2> QED BY <1>5, <2>1, <2>2, QuietStepKeepsPosts DEF StartChecks
  <1>6. ASSUME NEW c \in Calls, CheckPosting(c) PROVE PostInv'
    <2>1. Begun'
      BY <1>6 DEF CheckPosting, PostInv, Begun
    <2>2. \A e \in Calls : SameWrites(e)
      BY <1>0, <1>6 DEF CheckPosting, SameWrites, Done, TypeOK
    <2> QED BY <1>6, <2>1, <2>2, QuietStepKeepsPosts DEF CheckPosting
  <1>7. ASSUME NEW c \in Calls, RefusePosting(c) PROVE PostInv'
    BY <1>0, <1>7, RollbackKeepsPosts DEF RefusePosting
  <1>8. ASSUME NEW c \in Calls, StartWrites(c) PROVE PostInv'
    <2>1. Begun'
      BY <1>0, <1>8 DEF StartWrites, PostInv, Begun, TypeOK
    <2>2. Done(c) = {} /\ Done(c)' = {}
      <3>1. PICK n \in Nat : DOMAIN txn[c] = 1 .. n
        BY <1>0, DomainOfCall
      <3>2. pc[c] = "checking" /\ idx'[c] = 1 /\ pc'[c] = "writing" /\ txn' = txn
        BY <1>0, <1>8 DEF StartWrites, TypeOK
      <3> QED BY <3>1, <3>2 DEF Done
    <2>3. \A e \in Calls \ {c} : SameWrites(e)
      BY <1>0, <1>8 DEF StartWrites, SameWrites, Done, TypeOK
    <2>4. SameWrites(c)
      BY <1>8, <2>2 DEF StartWrites, SameWrites
    <2> QED BY <1>8, <2>1, <2>3, <2>4, QuietStepKeepsPosts DEF StartWrites
  <1>9. ASSUME NEW c \in Calls, WritePosting(c) PROVE PostInv'
    BY <1>9, WriteKeepsPosts
  <1>10. ASSUME NEW c \in Calls, Return(c) PROVE PostInv'
    <2>1. Begun'
      BY <1>0, <1>10 DEF Return, PostInv, Begun, TypeOK
    <2>2. Done(c)' = Done(c)
      <3>1. PICK n \in Nat : DOMAIN txn[c] = 1 .. n
        BY <1>0, DomainOfCall
      <3>2. /\ pc[c] = "writing" /\ pc'[c] = "written" /\ txn' = txn
            /\ idx[c] \in Nat \ {0} /\ idx[c] \notin 1 .. n
        BY <1>0, <1>10, <3>1 DEF Return, TypeOK
      <3>3. Done(c) = 1 .. n
        BY <3>1, <3>2 DEF Done
      <3>4. Done(c)' = 1 .. n
        BY <3>1, <3>2 DEF Done
      <3> QED BY <3>3, <3>4
    <2>3. \A e \in Calls \ {c} : SameWrites(e)
      BY <1>0, <1>10 DEF Return, SameWrites, Done, TypeOK
    <2>4. SameWrites(c)
      BY <1>10, <2>2 DEF Return, SameWrites
    <2> QED BY <1>10, <2>1, <2>3, <2>4, QuietStepKeepsPosts DEF Return
  <1>11. ASSUME NEW c \in Calls, Commit(c) PROVE PostInv'
    BY <1>11, CommitKeepsPosts
  <1>12. ASSUME NEW c \in Calls, AbortDeadlocked(c) PROVE PostInv'
    BY <1>0, <1>12, RollbackKeepsPosts DEF AbortDeadlocked
  <1>13. ASSUME NEW c \in Calls, Abort(c) PROVE PostInv'
    BY <1>0, <1>13, RollbackKeepsPosts DEF Abort
  <1>14. CASE UNCHANGED vars
    <2>1. Begun' /\ \A e \in Calls : SameWrites(e)
      BY <1>14 DEF vars, PostInv, Begun, SameWrites, Done
    <2> QED BY <1>14, <2>1, QuietStepKeepsPosts DEF vars
  <1> QED
    BY <1>1, <1>2, <1>3, <1>4, <1>5, <1>6, <1>7, <1>8, <1>9, <1>10, <1>11,
       <1>12, <1>13, <1>14 DEF Next, Progress, Finished

LEMMA PostInvInductive == Spec => []PostInv
  <1>1. Init => PostInv
    <2> SUFFICES ASSUME Init PROVE PostInv
      OBVIOUS
    <2>1. Begun
      BY DEF Init, Begun, Open
    <2>2. WrittenIsDone
      <3> SUFFICES ASSUME NEW c \in Calls PROVE WrittenBy(c)
        BY DEF WrittenIsDone, WrittenBy
      <3>1. Done(c) = {} /\ written[c] = Nothing
        BY DEF Init, Done
      <3> QED BY <3>1, NothingNets, SumEmpty DEF WrittenBy, Nothing
    <2>3. CommittedNets
      BY OpeningAssumption, NetIsDifference DEF Init, CommittedNets
    <2> QED BY <2>1, <2>2, <2>3 DEF PostInv
  <1>2. LockInv /\ PostInv /\ [Next]_vars => PostInv'
    BY StepPostInv
  <1> QED BY <1>1, <1>2, LockInvInductive, PTL DEF Spec

(* Over the accounts of any one currency the committed debits and credits  *)
(* are equal, for any accounts, calls and transactions.                    *)
THEOREM BooksBalance == Spec => []TrialBalance
  <1>1. LockInv /\ PostInv => TrialBalance
    <2> SUFFICES ASSUME LockInv, PostInv, NEW u \in Currencies
                 PROVE  Total(u, "DEBIT") = Total(u, "CREDIT")
      BY DEF TrialBalance
    <2>1. sums \in Sums /\ NetTotal(sums, u) = 0
      BY DEF LockInv, TypeOK, PostInv, CommittedNets
    <2> QED BY <2>1, NetIsDifference DEF Total
  <1> QED BY <1>1, LockInvInductive, PostInvInductive, PTL
-----------------------------------------------------------------------------
(* What each step does, seen from the callers.                             *)
LEMMA AnswerOf ==
    ASSUME NEW c \in Calls
    PROVE  /\ pc[c] = "posted" => Answer[c] = "posted"
           /\ pc[c] \in {"refused", "aborted"} => Answer[c] = "failed"
           /\ pc[c] \notin Ended => Answer[c] = "pending"
  BY DEF Answer, Ended

LEMMA EndAnswers ==
    ASSUME TypeOK, NEW c \in Calls, NEW how \in Ended, pc' = [pc EXCEPT ![c] = how]
    PROVE  Answer' = [Answer EXCEPT ![c] = IF how = "posted" THEN "posted"
                                                             ELSE "failed"]
  <1>1. \A e \in Calls : pc'[e] = IF e = c THEN how ELSE pc[e]
    BY DEF TypeOK
  <1> QED BY <1>1 DEF Answer, Ended

(* The steps of the promise in terms of this module, but for accounts that *)
(* a list may debit twice, which it does not cover.                        *)
Posts(c) ==
    /\ Answer[c] = "pending" /\ Answer' = [Answer EXCEPT ![c] = "posted"]
    /\ \E t \in Transactions :
          /\ Balanced(t)
          /\ \A i \in DOMAIN t : /\ t[i].account \in Accounts
                                 /\ t[i].currency = CurrencyOf[t[i].account]
          /\ sums' = Added(sums, t)
          /\ \A a \in AccountsOf(t) \cap Singly :
                sums'[a]["DEBIT"] <= sums'[a]["CREDIT"]
Fails(c) ==
    /\ Answer[c] = "pending" /\ Answer' = [Answer EXCEPT ![c] = "failed"]
    /\ UNCHANGED sums
Answers == \E c \in Calls : Posts(c) \/ Fails(c)

LEMMA RollbackFails ==
    ASSUME TypeOK, NEW c \in Calls, NEW how \in {"refused", "aborted"},
           pc[c] \notin Ended, pc' = [pc EXCEPT ![c] = how], sums' = sums
    PROVE  Fails(c)
  <1>1. Answer[c] = "pending"
    BY AnswerOf
  <1>2. Answer' = [Answer EXCEPT ![c] = "failed"]
    BY EndAnswers DEF Ended
  <1> QED BY <1>1, <1>2 DEF Fails

LEMMA MoveAnswersNothing ==
    ASSUME TypeOK, NEW c \in Calls, NEW how \in Open, pc[c] \notin Ended,
           pc' = [pc EXCEPT ![c] = how]
    PROVE  Answer' = Answer
  <1>1. \A e \in Calls : pc'[e] = IF e = c THEN how ELSE pc[e]
    BY DEF TypeOK
  <1> QED BY <1>1 DEF Answer, Ended, Open

(* A commit posts the call's transaction as a whole.                       *)
LEMMA CommitPosts ==
    ASSUME LockInv, SinglyCovered', PostInv, NEW c \in Calls, Commit(c)
    PROVE  Posts(c)
  <1>0. TypeOK /\ pc[c] = "written"
    BY DEF LockInv, Commit
  <1>1. Answer[c] = "pending" /\ Answer' = [Answer EXCEPT ![c] = "posted"]
    <2>1. pc' = [pc EXCEPT ![c] = "posted"]
      BY DEF Commit, End
    <2> QED BY <1>0, <2>1, AnswerOf, EndAnswers DEF Ended
  <1>2. sums' = Added(sums, txn[c])
    <2>1. DOMAIN sums = Accounts
      BY <1>0 DEF TypeOK, Sums
    <2>2. \A a \in Accounts, d \in Directions :
              sums[a][d] + written[c][a][d] = sums[a][d] + Posted(txn[c], a, d)
      BY <1>0, AllWritten
    <2> QED BY <2>1, <2>2 DEF Commit, Added
  <1>3. \A a \in Singly : sums'[a]["DEBIT"] <= sums'[a]["CREDIT"]
    <2>1. sums' \in Sums
      BY <1>0 DEF Commit, TypeOK, Sums
    <2> SUFFICES ASSUME NEW a \in Singly
                 PROVE  sums'[a]["DEBIT"] <= sums'[a]["CREDIT"]
      OBVIOUS
    <2>2. a \in Liability /\ a \in Accounts /\ Balance(a)' >= 0
      BY AccountsAssumption DEF SinglyCovered, Singly, DebitsOnce, IsChecked
    <2>3. sums'[a]["DEBIT"] \in Nat /\ sums'[a]["CREDIT"] \in Nat
      BY <2>1, <2>2 DEF Sums, Directions
    <2> QED BY <2>2, <2>3 DEF Balance, BalanceOf
  <1>4. /\ txn[c] \in Transactions /\ Balanced(txn[c])
        /\ \A i \in DOMAIN txn[c] :
              /\ txn[c][i].account \in Accounts
              /\ txn[c][i].currency = CurrencyOf[txn[c][i].account]
    BY <1>0, AllWritten
  <1> QED BY <1>1, <1>2, <1>3, <1>4 DEF Posts

(* Every step answers one call, or is none the callers can see.            *)
LEMMA StepAnswers ==
    ASSUME LockInv, SinglyCovered', PostInv, [Next]_vars
    PROVE  Answers \/ UNCHANGED <<sums, Answer>>
  <1>. USE DEF Open, Ended
  <1>0. TypeOK
    BY DEF LockInv
  <1>1. ASSUME NEW c \in Calls, NEW how \in {"refused", "aborted"},
               pc[c] \notin Ended, Rollback(c, how)
        PROVE  Answers
    BY <1>0, <1>1, RollbackFails DEF Rollback, End, Answers
  <1>2. ASSUME NEW c \in Calls, RefuseUnbalanced(c) PROVE Answers
    BY <1>0, <1>2, RollbackFails DEF RefuseUnbalanced, Answers
  <1>3. ASSUME NEW c \in Calls, RefuseMissing(c) \/ RefusePosting(c) \/ Abort(c)
        PROVE  Answers
    BY <1>1, <1>3 DEF RefuseMissing, RefusePosting, Abort, AllRowsLocked
  <1>4. ASSUME NEW c \in Calls, AbortDeadlocked(c) PROVE Answers
    <2>1. pc[c] = "locking"
      BY <1>4 DEF AbortDeadlocked, InCycle, WaitsFor
    <2> QED BY <1>1, <1>4, <2>1 DEF AbortDeadlocked
  <1>5. ASSUME NEW c \in Calls, Commit(c) PROVE Answers
    BY <1>5, CommitPosts DEF Answers
  <1>6. ASSUME NEW c \in Calls,
               Begin(c) \/ StartChecks(c) \/ StartWrites(c) \/ Return(c)
        PROVE  UNCHANGED <<sums, Answer>>
    <2>1. sums' = sums
      BY <1>6 DEF Begin, StartChecks, StartWrites, Return
    <2>2. \E how \in Open : pc' = [pc EXCEPT ![c] = how]
      BY <1>6 DEF Begin, StartChecks, StartWrites, Return
    <2>3. pc[c] \notin Ended
      BY <1>6 DEF Begin, StartChecks, StartWrites, Return, AllRowsLocked
    <2> QED BY <1>0, <2>1, <2>2, <2>3, MoveAnswersNothing
  <1>7. ASSUME NEW c \in Calls, LockRow(c) \/ CheckPosting(c) \/ WritePosting(c)
        PROVE  UNCHANGED <<sums, Answer>>
    BY <1>7 DEF LockRow, CheckPosting, WritePosting, Answer
  <1>8. CASE UNCHANGED vars
    BY <1>8 DEF vars, Answer
  <1> QED
    BY <1>2, <1>3, <1>4, <1>5, <1>6, <1>7, <1>8 DEF Next, Progress, Finished

(* The promise for any posting lists: it covers the accounts that no list  *)
(* debits twice.                                                           *)
AnyList == INSTANCE AbstractLedger WITH Liability <- Singly, answer <- Answer

(* The promise is about the same value objects.                            *)
LEMMA SamePostings ==
    ASSUME NEW t, NEW s
    PROVE  /\ Promise!Balanced(t) = Balanced(t)
           /\ Promise!AccountsOf(t) = AccountsOf(t)
           /\ Promise!Added(s, t) = Added(s, t)
  <1>1. \A f : Promise!SumFunction(f) = SumFunction(f)
    BY DEF Promise!SumFunction, SumFunction,
           Promise!SumFunctionOnSet, SumFunctionOnSet,
           Promise!FoldFunctionOnSet, FoldFunctionOnSet,
           Promise!MapThenFoldSet, MapThenFoldSet
  <1>2. Promise!Balanced(t) = Balanced(t)
    BY <1>1 DEF Promise!Balanced, Balanced, Promise!SignedAmount, SignedAmount
  <1>3. Promise!AccountsOf(t) = AccountsOf(t)
    BY DEF Promise!AccountsOf, AccountsOf
  <1>4. \A a, d : Promise!Posted(t, a, d) = Posted(t, a, d)
    BY <1>1 DEF Promise!Posted, Posted
  <1>5. Promise!Added(s, t) = Added(s, t)
    BY <1>4 DEF Promise!Added, Added, Promise!Directions, Directions
  <1> QED BY <1>2, <1>3, <1>5

LEMMA SamePostingsAnyList ==
    ASSUME NEW t, NEW s
    PROVE  /\ AnyList!Balanced(t) = Balanced(t)
           /\ AnyList!AccountsOf(t) = AccountsOf(t)
           /\ AnyList!Added(s, t) = Added(s, t)
  <1>1. \A f : AnyList!SumFunction(f) = SumFunction(f)
    BY DEF AnyList!SumFunction, SumFunction,
           AnyList!SumFunctionOnSet, SumFunctionOnSet,
           AnyList!FoldFunctionOnSet, FoldFunctionOnSet,
           AnyList!MapThenFoldSet, MapThenFoldSet
  <1>2. AnyList!Balanced(t) = Balanced(t)
    BY <1>1 DEF AnyList!Balanced, Balanced, AnyList!SignedAmount, SignedAmount
  <1>3. AnyList!AccountsOf(t) = AccountsOf(t)
    BY DEF AnyList!AccountsOf, AccountsOf
  <1>4. \A a, d : AnyList!Posted(t, a, d) = Posted(t, a, d)
    BY <1>1 DEF AnyList!Posted, Posted
  <1>5. AnyList!Added(s, t) = Added(s, t)
    BY <1>4 DEF AnyList!Added, Added, AnyList!Directions, Directions
  <1> QED BY <1>2, <1>3, <1>5

(* saveTransaction implements AbstractLedger, whatever posting lists are   *)
(* sent: a call posts its whole balanced list at one instant or nothing,   *)
(* and the accounts that no list debits twice are covered.                 *)
THEOREM LedgerPostsWhole == Spec => AnyList!Spec
  <1>1. Init => AnyList!Init
    BY DEF Init, AnyList!Init, Answer, Ended
  <1>2. Answers => AnyList!Next
    BY SamePostingsAnyList
       DEF Answers, Posts, Fails, AnyList!Next, AnyList!Post, AnyList!Fail,
           AnyList!Covers
  <1>3. LockInv /\ SinglyCovered' /\ PostInv /\ [Next]_vars
            => [AnyList!Next]_(<<sums, Answer>>)
    BY <1>2, StepAnswers
  <1> QED BY <1>1, <1>3, LockInvInductive, AlwaysSinglyCovered, PostInvInductive, PTL
          DEF Spec, AnyList!Spec

(* And with lists like the application's own, it implements all of it.     *)
THEOREM LedgerKeepsPromise ==
    ASSUME SingleDebit
    PROVE  Spec => KeepsPromise
  <1>1. Init => Promise!Init
    BY DEF Init, Promise!Init, Answer, Ended
  <1>2. Answers => Promise!Next
    BY SamePostings, SingleDebitIsSingly
       DEF Answers, Posts, Fails, Promise!Next, Promise!Post, Promise!Fail,
           Promise!Covers
  <1>3. LockInv /\ SinglyCovered' /\ PostInv /\ [Next]_vars
            => [Promise!Next]_(<<sums, Answer>>)
    BY <1>2, StepAnswers
  <1> QED BY <1>1, <1>3, LockInvInductive, AlwaysSinglyCovered, PostInvInductive, PTL
          DEF Spec, KeepsPromise, Promise!Spec
=============================================================================
