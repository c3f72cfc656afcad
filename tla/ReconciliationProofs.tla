------------------------ MODULE ReconciliationProofs ------------------------
(***************************************************************************)
(* Proofs about Withdrawals and Reconciliation, for any customers,         *)
(* requests and runs.                                                      *)
(*                                                                         *)
(* SagaInv relates where a request or a run is to the row, the partner's   *)
(* verdict and the number of calls: with it the partner is asked once,     *)
(* statuses are true and only move forward, whatever overlaps.  AloneInv   *)
(* says that a withdrawal is resolved by one request or run at a time,     *)
(* which holds if a run looks only at what nobody works on; then each of   *)
(* the steps in Effect happens once to a withdrawal (PostedOnce), and the  *)
(* sums and both refinements follow.                                       *)
(***************************************************************************)
EXTENDS Reconciliation, PostingLemmas, TLAPS

Past == {"mark", "send", "settle", "release"}

(* The requests past their reservation are about different withdrawals,    *)
(* each as far as its request.                                             *)
HandlersSound ==
    \A h \in Handlers :
        /\ pc[h] \in Underway => request[h] \in Requests
        /\ pc[h] = "mark" => HasStatus(KeyOf(h), {"PENDING"})
        /\ pc[h] = "send" => /\ HasStatus(KeyOf(h), {"PROCESSING"})
                             /\ calls[KeyOf(h)] = 0
        /\ pc[h] = "settle" => /\ HasStatus(KeyOf(h), {"PROCESSING", "SUCCESSFUL"})
                               /\ rail[KeyOf(h)] = "sent"
        /\ pc[h] = "release" => /\ HasStatus(KeyOf(h), {"PROCESSING", "FAILED"})
                                /\ rail[KeyOf(h)] = "rejected"
        /\ \A g \in Handlers :
              pc[g] \in Past /\ pc[h] \in Past /\ KeyOf(g) = KeyOf(h) => g = h

RunnersSound ==
    \A r \in Runners :
        /\ \A k \in todo[r] : HasStatus(k, Statuses \ {"PENDING"})
        /\ rpc[r] \in {"settle", "release", "record"} => current[r] \in Keys
        /\ rpc[r] = "settle" =>
              /\ HasStatus(current[r], {"PROCESSING", "SUCCESSFUL"})
              /\ rail[current[r]] = "sent"
        /\ rpc[r] = "release" =>
              /\ HasStatus(current[r], {"PROCESSING", "FAILED"})
              /\ rail[current[r]] = "rejected"

NotAsked == \A k \in Keys : calls[k] = 0 => rail[k] = "unseen"

SagaInv ==
    /\ RunsTypeOK
    /\ HandlersSound
    /\ RunnersSound
    /\ NotAsked
    /\ AskedOnceReserved
    /\ StatusIsTrue
-----------------------------------------------------------------------------
LEMMA RequestFields ==
    \A q \in Requests : q.user \in Users /\ q.key \in Keys /\ q.amount \in Nat
  BY RequestAssumption

LEMMA RowFields ==
    /\ \A x \in Rows : /\ x.wallet \in Wallets /\ x.amount \in Nat
                       /\ x.status \in Statuses
    /\ \A w \in Wallets, n \in Nat, s \in Statuses :
          [wallet |-> w, amount |-> n, status |-> s] \in Rows
  BY DEF Rows

LEMMA DepositFields ==
    /\ \A d \in Deposits : /\ DepositOf[d].wallet \in Wallets
                           /\ DepositOf[d].amount \in Nat
    /\ \A S \in SUBSET Deposits : IsFiniteSet(S)
  BY DepositAssumption, FS_Subset

(* What a status update does to the table.                                 *)
LEMMA StatusSet ==
    ASSUME rows \in [Keys -> Rows \cup {NoRow}],
           NEW k \in Keys, rows[k] # NoRow, NEW s \in Statuses, SetStatus(k, s)
    PROVE  /\ rows' \in [Keys -> Rows \cup {NoRow}]
           /\ rows'[k] \in Rows /\ rows'[k].status = s
           /\ rows'[k].wallet = rows[k].wallet
           /\ rows'[k].amount = rows[k].amount
           /\ rows'[k] = [rows[k] EXCEPT !.status = s]
           /\ \A j \in Keys : j # k => rows'[j] = rows[j]
<1>1. rows[k] \in Rows
  OBVIOUS
<1>2. /\ rows' = [rows EXCEPT ![k] = [rows[k] EXCEPT !.status = s]]
      /\ [rows[k] EXCEPT !.status = s] \in Rows
      /\ [rows[k] EXCEPT !.status = s].status = s
      /\ [rows[k] EXCEPT !.status = s].wallet = rows[k].wallet
      /\ [rows[k] EXCEPT !.status = s].amount = rows[k].amount
  BY <1>1 DEF SetStatus, Rows
<1> QED
  BY <1>1, <1>2

(* What moving an amount does to the balances.                             *)
LEMMA Movement ==
    ASSUME sums \in [Accounts -> [Directions -> Nat]],
           NEW a \in Accounts, NEW b \in Accounts, a # b, NEW n \in Nat,
           SaveTransaction(<<Debit(a, n, Currency), Credit(b, n, Currency)>>)
    PROVE  /\ sums' \in [Accounts -> [Directions -> Nat]]
           /\ a \in Liability => Balance(a) >= n
           /\ \A x \in Accounts :
                 /\ Balance(x) \in Int
                 /\ x \notin {a, b} => Balance(x)' = Balance(x)
                 /\ x = a => Balance(x)' = IF x \in Liability THEN Balance(x) - n
                                           ELSE Balance(x) + n
                 /\ x = b => Balance(x)' = IF x \in Liability THEN Balance(x) + n
                                           ELSE Balance(x) - n
<1> DEFINE txn == <<Debit(a, n, Currency), Credit(b, n, Currency)>>
<1>1. sums' = Added(sums, txn)
  BY DEF SaveTransaction
<1>2. /\ sums' \in [Accounts -> [Directions -> Nat]]
      /\ \A x \in Accounts :
            /\ sums'[x]["DEBIT"] = sums[x]["DEBIT"] + (IF x = a THEN n ELSE 0)
            /\ sums'[x]["CREDIT"] = sums[x]["CREDIT"] + (IF x = b THEN n ELSE 0)
  <2>1. txn = <<Debit(a, n, Currency), Credit(b, n, Currency)>>
    OBVIOUS
  <2> HIDE DEF txn
  <2> QED
    BY <1>1, <2>1, AddedMovement
<1>3. a \in Liability => Balance(a) >= n
  <2>1. /\ 1 \in DOMAIN txn /\ txn[1].account = a
        /\ txn[1].direction = "DEBIT" /\ txn[1].amount = n
    BY DEF Debit
  <2> QED
    BY <2>1 DEF SaveTransaction, Fundable
<1>4. \A x \in Accounts : sums[x]["DEBIT"] \in Nat /\ sums[x]["CREDIT"] \in Nat
  BY DEF Directions
<1> HIDE DEF txn
<1>5. ASSUME NEW x \in Accounts
      PROVE  /\ Balance(x) = IF x \in Liability
                             THEN sums[x]["CREDIT"] - sums[x]["DEBIT"]
                             ELSE sums[x]["DEBIT"] - sums[x]["CREDIT"]
             /\ Balance(x)' = IF x \in Liability
                              THEN sums'[x]["CREDIT"] - sums'[x]["DEBIT"]
                              ELSE sums'[x]["DEBIT"] - sums'[x]["CREDIT"]
  BY DEF Balance, BalanceOf
<1> QED
  BY <1>2, <1>3, <1>4, <1>5

(* The refund goes to the wallet that has paid, if to any.                 *)
LEMMA RefundWallet ==
    ASSUME NEW k \in Keys, rows[k] \in Rows, NEW w \in WalletToRefund(k)
    PROVE  w = rows[k].wallet
  BY IdAssumption, RowFields DEF WalletToRefund, FindByUserId
-----------------------------------------------------------------------------
(* Requests that arrive or end change nothing else.                        *)
LEMMA ArriveSaga ==
    ASSUME SagaInv, NEW h \in Handlers, NEW q \in Requests,
           NEW where \in {"reserve", "done", "failed"},
           Arrive(h, q, where), UNCHANGED runVars
    PROVE  SagaInv'
<1> USE RequestFields DEF SagaInv, Arrive, Goto, runVars
<1>1. RunsTypeOK'
  BY DEF RunsTypeOK, SagaTypeOK, Underway
<1>2. HandlersSound'
  BY DEF HandlersSound, KeyOf, HasStatus, Past, Underway, RunsTypeOK, SagaTypeOK
<1>3. RunnersSound' /\ NotAsked' /\ AskedOnceReserved' /\ StatusIsTrue'
  BY DEF RunnersSound, NotAsked, AskedOnceReserved, StatusIsTrue, HasStatus
<1> QED
  BY <1>1, <1>2, <1>3

LEMMA EndSaga ==
    ASSUME SagaInv, NEW h \in Handlers, NEW where \in {"done", "failed", "dead"},
           Goto(h, where), UNCHANGED <<sums, rows, rail, calls, request>>,
           UNCHANGED runVars
    PROVE  SagaInv'
<1> USE DEF SagaInv, Goto, runVars
<1>1. RunsTypeOK'
  BY DEF RunsTypeOK, SagaTypeOK, Underway
<1>2. HandlersSound'
  BY DEF HandlersSound, KeyOf, HasStatus, Past, Underway, RunsTypeOK, SagaTypeOK
<1>3. RunnersSound' /\ NotAsked' /\ AskedOnceReserved' /\ StatusIsTrue'
  BY DEF RunnersSound, NotAsked, AskedOnceReserved, StatusIsTrue, HasStatus
<1> QED
  BY <1>1, <1>2, <1>3

LEMMA ReserveSaga ==
    ASSUME SagaInv, NEW h \in Handlers, Reserve(h), UNCHANGED runVars
    PROVE  SagaInv'
<1> DEFINE k == KeyOf(h)
           n == request[h].amount
<1>1. PICK w \in FindByUserId(request[h].user) :
          /\ SaveTransaction(Reservation(w, n))
          /\ CreateRow(k, w, n)
  BY DEF Reserve
<1>2. /\ request[h] \in Requests /\ k \in Keys /\ n \in Nat /\ w \in Wallets
      /\ pc[h] = "reserve" /\ pc' = [pc EXCEPT ![h] = "mark"]
      /\ UNCHANGED <<rail, calls, request, runVars>>
  BY <1>1, RequestFields
     DEF Reserve, Goto, SagaInv, HandlersSound, Underway, KeyOf, FindByUserId
<1>3. sums' \in [Accounts -> [Directions -> Nat]]
  <2>1. Pending # w /\ w \in Accounts /\ Pending \in Accounts
    BY <1>2, WalletAssumption DEF Accounts
  <2> QED
    BY <1>1, <1>2, <2>1, Movement DEF Reservation, SagaInv, RunsTypeOK, SagaTypeOK
<1>4. /\ rows[k] = NoRow
      /\ rows' \in [Keys -> Rows \cup {NoRow}]
      /\ rows'[k] # NoRow /\ rows'[k].status = "PENDING"
      /\ \A j \in Keys : j # k => rows'[j] = rows[j]
  <2>1. [wallet |-> w, amount |-> n, status |-> "PENDING"] \in Rows
    BY <1>2, RowFields DEF Statuses
  <2> QED
    BY <1>1, <1>2, <2>1, RowAssumption
       DEF CreateRow, SagaInv, RunsTypeOK, SagaTypeOK
<1>5. calls[k] = 0 /\ rail[k] = "unseen"
  BY <1>2, <1>4 DEF SagaInv, AskedOnceReserved, HasStatus, NotAsked,
                    RunsTypeOK, SagaTypeOK
<1> USE DEF SagaInv
<1>6. RunsTypeOK'
  BY <1>2, <1>3, <1>4 DEF RunsTypeOK, SagaTypeOK, Underway, runVars
<1>7. \A j \in Keys : \A s : HasStatus(j, s) => HasStatus(j, s)' /\ j # k
  BY <1>4 DEF HasStatus
<1>8. HandlersSound'
  <2> USE <1>2, <1>4, <1>7 DEF RunsTypeOK, SagaTypeOK
  <2>1. ASSUME NEW g \in Handlers, pc[g] \in Past PROVE KeyOf(g) # k /\ g # h
    BY <2>1 DEF HandlersSound, Past, HasStatus
  <2>2. HasStatus(KeyOf(h), {"PENDING"})'
    BY DEF HasStatus, KeyOf
  <2>3. ASSUME NEW g \in Handlers, g # h PROVE pc'[g] = pc[g] /\ KeyOf(g)' = KeyOf(g)
    BY <2>3 DEF KeyOf
  <2>4. pc'[h] = "mark" /\ KeyOf(h)' = k
    BY DEF KeyOf
  <2>5. ASSUME NEW g \in Handlers, pc[g] \in {"mark", "send", "settle", "release"}
        PROVE  KeyOf(g) \in Keys
    BY <2>5, RequestFields DEF HandlersSound, Underway, KeyOf
  <2> QED
    BY <2>1, <2>2, <2>3, <2>4, <2>5 DEF HandlersSound, Past, Underway
<1>9. RunnersSound' /\ NotAsked' /\ AskedOnceReserved' /\ StatusIsTrue'
  BY <1>2, <1>4, <1>5, <1>7
     DEF RunnersSound, NotAsked, AskedOnceReserved, StatusIsTrue, runVars,
         RunsTypeOK, HasStatus
<1> QED
  BY <1>6, <1>8, <1>9

LEMMA MarkSaga ==
    ASSUME SagaInv, NEW h \in Handlers, MarkProcessing(h), UNCHANGED runVars
    PROVE  SagaInv'
<1> PICK k : k = KeyOf(h)
  OBVIOUS
<1>1. /\ request[h] \in Requests /\ k \in Keys
      /\ pc[h] = "mark" /\ pc' = [pc EXCEPT ![h] = "send"]
      /\ HasStatus(k, {"PENDING"}) /\ SetStatus(k, "PROCESSING")
      /\ UNCHANGED <<sums, rail, calls, request, runVars>>
  BY RequestFields
     DEF MarkProcessing, Goto, SagaInv, HandlersSound, Underway, KeyOf
<1>2. /\ rows' \in [Keys -> Rows \cup {NoRow}]
      /\ rows'[k] \in Rows /\ rows'[k].status = "PROCESSING"
      /\ \A j \in Keys : j # k => rows'[j] = rows[j]
  BY <1>1, StatusSet DEF SagaInv, RunsTypeOK, SagaTypeOK, HasStatus, Statuses
<1>3. calls[k] = 0 /\ rail[k] = "unseen"
  BY <1>1 DEF SagaInv, AskedOnceReserved, HasStatus, NotAsked, RunsTypeOK, SagaTypeOK
<1> USE DEF SagaInv
<1>4. RunsTypeOK'
  BY <1>1, <1>2 DEF RunsTypeOK, SagaTypeOK, Underway, runVars
<1>5. \A j \in Keys : \A s : j # k => (HasStatus(j, s)' <=> HasStatus(j, s))
  BY <1>2 DEF HasStatus
<1>6. HasStatus(k, {"PROCESSING"})'
  BY <1>2, RowAssumption DEF HasStatus
<1>7. HandlersSound'
  <2> USE <1>1 DEF RunsTypeOK, SagaTypeOK
  <2>1. ASSUME NEW g \in Handlers, g # h, pc[g] \in Past
        PROVE  KeyOf(g) # k /\ KeyOf(g) \in Keys
    BY <2>1, RequestFields DEF HandlersSound, Past, Underway, KeyOf
  <2>2. ASSUME NEW g \in Handlers, g # h PROVE pc'[g] = pc[g] /\ KeyOf(g)' = KeyOf(g)
    BY <2>2 DEF KeyOf
  <2>3. pc'[h] = "send" /\ KeyOf(h)' = k
    BY DEF KeyOf
  <2> QED
    BY <1>3, <1>5, <1>6, <2>1, <2>2, <2>3 DEF HandlersSound, Past, Underway
<1>8. RunnersSound'
  BY <1>1, <1>5, <1>6, <1>2 DEF RunnersSound, runVars, RunsTypeOK, HasStatus, Statuses
<1>9. NotAsked' /\ AskedOnceReserved' /\ StatusIsTrue'
  BY <1>1, <1>2, <1>3, <1>5 DEF NotAsked, AskedOnceReserved, StatusIsTrue, HasStatus
<1> QED
  BY <1>4, <1>7, <1>8, <1>9

LEMMA AskSaga ==
    ASSUME SagaInv, NEW h \in Handlers, AskPartner(h), UNCHANGED runVars
    PROVE  SagaInv'
<1> PICK k : k = KeyOf(h)
  OBVIOUS
<1>1. PICK fate \in Fates(k) :
          /\ rail' = [rail EXCEPT ![k] = fate]
          /\ pc' = [pc EXCEPT ![h] = AfterVerdict(VerdictOf(fate), "done")]
  BY DEF AskPartner, Goto
<1>2. /\ request[h] \in Requests /\ k \in Keys /\ pc[h] = "send"
      /\ HasStatus(k, {"PROCESSING"}) /\ calls[k] = 0 /\ rail[k] = "unseen"
      /\ calls' = [calls EXCEPT ![k] = calls[k] + 1]
      /\ UNCHANGED <<sums, rows, request, runVars>>
  BY RequestFields
     DEF AskPartner, SagaInv, HandlersSound, NotAsked, Underway, KeyOf
<1>3. fate \in {"sent", "rejected", "undecided"}
  BY <1>2 DEF Fates
<1>4. /\ fate = "sent" => AfterVerdict(VerdictOf(fate), "done") = "settle"
      /\ fate = "rejected" => AfterVerdict(VerdictOf(fate), "done") = "release"
      /\ fate = "undecided" => AfterVerdict(VerdictOf(fate), "done") = "done"
  BY DEF AfterVerdict, VerdictOf
<1> USE DEF SagaInv
<1>5. calls'[k] = 1 /\ rail'[k] = fate
      /\ \A j \in Keys : j # k => calls'[j] = calls[j] /\ rail'[j] = rail[j]
  BY <1>1, <1>2 DEF RunsTypeOK, SagaTypeOK
<1>6. RunsTypeOK'
  BY <1>1, <1>2, <1>3, <1>4 DEF RunsTypeOK, SagaTypeOK, Underway, runVars
<1>7. \A j, s : HasStatus(j, s)' <=> HasStatus(j, s)
  BY <1>2 DEF HasStatus
<1>8. HandlersSound'
  <2> USE <1>1, <1>2, <1>3, <1>4 DEF RunsTypeOK, SagaTypeOK
  <2>1. ASSUME NEW g \in Handlers, g # h, pc[g] \in Past
        PROVE  KeyOf(g) # k /\ KeyOf(g) \in Keys
    BY <2>1, RequestFields DEF HandlersSound, Past, Underway, KeyOf
  <2>2. ASSUME NEW g \in Handlers, g # h PROVE pc'[g] = pc[g] /\ KeyOf(g)' = KeyOf(g)
    BY <2>2 DEF KeyOf
  <2>3. /\ KeyOf(h)' = k
        /\ \/ fate = "sent" /\ pc'[h] = "settle"
           \/ fate = "rejected" /\ pc'[h] = "release"
           \/ fate = "undecided" /\ pc'[h] = "done"
    BY DEF KeyOf
  <2>4. HasStatus(k, {"PROCESSING", "SUCCESSFUL"}) /\ HasStatus(k, {"PROCESSING", "FAILED"})
    BY DEF HasStatus
  <2> QED
    BY <1>5, <1>7, <2>1, <2>2, <2>3, <2>4 DEF HandlersSound, Past, Underway
<1>9. RunnersSound'
  <2>1. ASSUME NEW r \in Runners, rpc[r] \in {"settle", "release"}
        PROVE  rail'[current[r]] = rail[current[r]]
    BY <1>2, <1>5, <2>1 DEF RunnersSound
  <2> QED
    BY <1>2, <1>7, <2>1 DEF RunnersSound, runVars
<1>10. NotAsked' /\ AskedOnceReserved' /\ StatusIsTrue'
  BY <1>2, <1>5, <1>7 DEF NotAsked, AskedOnceReserved, StatusIsTrue, HasStatus, Statuses
<1> QED
  BY <1>6, <1>8, <1>9, <1>10

LEMMA DecideSaga ==
    ASSUME SagaInv, NEW k \in Keys, Decide(k), UNCHANGED runVars
    PROVE  SagaInv'
<1> USE DEF SagaInv
<1>1. PICK fate \in {"sent", "rejected"} : rail' = [rail EXCEPT ![k] = fate]
  BY DEF Decide
<1>2. rail[k] = "undecided" /\ UNCHANGED <<sums, rows, calls, pc, request, runVars>>
  BY DEF Decide
<1>3. rail'[k] = fate /\ \A j \in Keys : j # k => rail'[j] = rail[j]
  BY <1>1 DEF RunsTypeOK, SagaTypeOK
<1>4. RunsTypeOK'
  BY <1>1, <1>2 DEF RunsTypeOK, SagaTypeOK, runVars
<1>5. \A j, s : HasStatus(j, s)' <=> HasStatus(j, s)
  BY <1>2 DEF HasStatus
<1>6. HandlersSound'
  <2>1. \A g \in Handlers : /\ pc'[g] = pc[g] /\ KeyOf(g)' = KeyOf(g)
                            /\ pc[g] \in Underway => KeyOf(g) \in Keys
    BY <1>2, RequestFields DEF KeyOf, HandlersSound
  <2> QED
    BY <1>2, <1>3, <1>5, <2>1 DEF HandlersSound, Underway
<1>7. RunnersSound' /\ NotAsked' /\ AskedOnceReserved' /\ StatusIsTrue'
  BY <1>2, <1>3, <1>5 DEF RunnersSound, NotAsked, AskedOnceReserved,
                          StatusIsTrue, runVars, RunsTypeOK, HasStatus
<1> QED
  BY <1>4, <1>6, <1>7

(* Either use case moves the amount out of the pending account.            *)
LEMMA SettleMoves ==
    ASSUME SagaInv, NEW k \in Keys, rows[k] # NoRow, SettleTx(k)
    PROVE  /\ sums' \in [Accounts -> [Directions -> Nat]]
           /\ \A x \in Accounts : Balance(x) \in Int
           /\ \A w \in Wallets : Balance(w)' = Balance(w)
           /\ Balance(Pending)' = Balance(Pending) - rows[k].amount
           /\ Balance(Pool)' = Balance(Pool) - rows[k].amount
<1>1. /\ Pending \in Accounts /\ Pool \in Accounts /\ Pending # Pool
      /\ Pending \in Liability /\ Pool \notin Liability
      /\ Wallets \subseteq Accounts \ {Pending, Pool}
  BY WalletAssumption DEF Accounts, Liability
<1>2. rows[k].amount \in Nat
  BY RowFields DEF SagaInv, RunsTypeOK, SagaTypeOK
<1> QED
  BY <1>1, <1>2, Movement DEF SettleTx, Settlement, SagaInv, RunsTypeOK, SagaTypeOK

LEMMA ReleaseMoves ==
    ASSUME SagaInv, NEW k \in Keys, rows[k] # NoRow, ReleaseTx(k)
    PROVE  /\ sums' \in [Accounts -> [Directions -> Nat]]
           /\ \A x \in Accounts : Balance(x) \in Int
           /\ \A w \in Wallets : Balance(w)' =
                  IF w = rows[k].wallet THEN Balance(w) + rows[k].amount
                                        ELSE Balance(w)
           /\ Balance(Pending)' = Balance(Pending) - rows[k].amount
           /\ Balance(Pool)' = Balance(Pool)
<1>1. rows[k] \in Rows /\ rows[k].amount \in Nat /\ rows[k].wallet \in Wallets
  BY RowFields DEF SagaInv, RunsTypeOK, SagaTypeOK
<1>2. SaveTransaction(Reversal(rows[k].wallet, rows[k].amount))
  BY <1>1, RefundWallet DEF ReleaseTx
<1>3. /\ Pending \in Accounts /\ Pool \in Accounts /\ Pending # Pool
      /\ Pending \in Liability /\ Pool \notin Liability
      /\ Wallets \subseteq Accounts \ {Pending, Pool}
      /\ Wallets \subseteq Liability
  BY WalletAssumption DEF Accounts, Liability
<1>4. rows[k].wallet \in Accounts \ {Pending, Pool} /\ rows[k].wallet \in Liability
  BY <1>1, <1>3
<1> QED
  BY <1>1, <1>2, <1>3, <1>4, Movement DEF Reversal, SagaInv, RunsTypeOK, SagaTypeOK

(* A request or a run acts upon the verdict of the partner.                *)
LEMMA ResolveSaga ==
    ASSUME SagaInv, NEW k \in Keys,
           \/ /\ SettleTx(k) /\ rail[k] = "sent"
              /\ HasStatus(k, {"PROCESSING", "SUCCESSFUL"})
           \/ /\ ReleaseTx(k) /\ rail[k] = "rejected"
              /\ HasStatus(k, {"PROCESSING", "FAILED"}),
           UNCHANGED <<rail, calls, request, todo, current, internal, run,
                       discrepancies, deaths>>,
           byRuns' \subseteq byRuns \cup {k},
           pc' \in [Handlers -> Underway \cup {"idle", "done", "failed", "dead"}],
           \A h \in Handlers : pc'[h] \in {pc[h], "done"},
           rpc' \in [Runners -> Resting \cup Running],
           \A r \in Runners : \/ rpc'[r] = rpc[r]
                              \/ /\ rpc'[r] = "record"
                                 /\ rpc[r] \in {"settle", "release"}
    PROVE  SagaInv'
<1> USE DEF SagaInv
<1>1. rows[k] # NoRow
  BY DEF HasStatus
<1>2. sums' \in [Accounts -> [Directions -> Nat]]
  BY <1>1, SettleMoves, ReleaseMoves
<1>3. PICK s : /\ s \in Statuses /\ SetStatus(k, s)
               /\ \/ s = "SUCCESSFUL" /\ rail[k] = "sent"
                  \/ s = "FAILED" /\ rail[k] = "rejected"
               /\ HasStatus(k, {"PROCESSING", s})
  BY DEF SettleTx, ReleaseTx, Statuses
<1>4. /\ rows' \in [Keys -> Rows \cup {NoRow}]
      /\ rows'[k] # NoRow /\ rows'[k].status = s
      /\ \A j \in Keys : j # k => rows'[j] = rows[j]
  <2>1. rows \in [Keys -> Rows \cup {NoRow}]
    BY DEF RunsTypeOK, SagaTypeOK
  <2>2. s \in Statuses /\ SetStatus(k, s)
    BY <1>3
  <2>3. /\ rows' \in [Keys -> Rows \cup {NoRow}]
        /\ rows'[k] \in Rows /\ rows'[k].status = s
        /\ \A j \in Keys : j # k => rows'[j] = rows[j]
    BY <1>1, <2>1, <2>2, StatusSet
  <2> QED
    BY <2>3, RowAssumption
<1>5. RunsTypeOK'
  BY <1>2, <1>4 DEF RunsTypeOK, SagaTypeOK
<1>6. /\ \A j \in Keys : \A t : j # k => (HasStatus(j, t)' <=> HasStatus(j, t))
      /\ HasStatus(k, {"PROCESSING", s})'
      /\ HasStatus(k, Statuses \ {"PENDING"})'
  BY <1>3, <1>4 DEF HasStatus
<1>7. HandlersSound'
  <2>1. \A h \in Handlers : /\ KeyOf(h)' = KeyOf(h)
                            /\ pc[h] \in Underway => KeyOf(h) \in Keys
    BY RequestFields DEF KeyOf, HandlersSound
  <2>2. ASSUME NEW h \in Handlers, pc[h] \in {"mark", "send"}
        PROVE  KeyOf(h) # k
    BY <1>3, <2>2 DEF HandlersSound, NotAsked, HasStatus
  <2>3. ASSUME NEW h \in Handlers, KeyOf(h) = k
        PROVE  /\ pc[h] = "settle" => s = "SUCCESSFUL"
               /\ pc[h] = "release" => s = "FAILED"
    BY <1>3, <2>3 DEF HandlersSound
  <2>4. ASSUME NEW h \in Handlers, pc'[h] # "done"
        PROVE  pc[h] = pc'[h]
    BY <2>4
  <2>5. ASSUME NEW h \in Handlers
        PROVE  /\ pc'[h] \in Underway => request'[h] \in Requests
               /\ pc'[h] = "mark" => HasStatus(KeyOf(h), {"PENDING"})'
               /\ pc'[h] = "send" => /\ HasStatus(KeyOf(h), {"PROCESSING"})'
                                     /\ calls'[KeyOf(h)'] = 0
    BY <1>6, <2>1, <2>2, <2>4 DEF HandlersSound, Underway
  <2>6. ASSUME NEW h \in Handlers, pc'[h] = "settle"
        PROVE  /\ HasStatus(KeyOf(h), {"PROCESSING", "SUCCESSFUL"})'
               /\ rail'[KeyOf(h)'] = "sent"
    <3>1. /\ HasStatus(KeyOf(h), {"PROCESSING", "SUCCESSFUL"})
          /\ rail[KeyOf(h)] = "sent" /\ KeyOf(h) \in Keys
      BY <2>1, <2>4, <2>6 DEF HandlersSound, Underway
    <3>2. KeyOf(h) = k => s = "SUCCESSFUL"
      BY <2>3, <2>4, <2>6
    <3> QED
      BY <1>6, <2>1, <3>1, <3>2
  <2>7. ASSUME NEW h \in Handlers, pc'[h] = "release"
        PROVE  /\ HasStatus(KeyOf(h), {"PROCESSING", "FAILED"})'
               /\ rail'[KeyOf(h)'] = "rejected"
    <3>1. /\ HasStatus(KeyOf(h), {"PROCESSING", "FAILED"})
          /\ rail[KeyOf(h)] = "rejected" /\ KeyOf(h) \in Keys
      BY <2>1, <2>4, <2>7 DEF HandlersSound, Underway
    <3>2. KeyOf(h) = k => s = "FAILED"
      BY <2>3, <2>4, <2>7
    <3> QED
      BY <1>6, <2>1, <3>1, <3>2
  <2>8. ASSUME NEW h \in Handlers, NEW g \in Handlers,
               pc'[g] \in Past, pc'[h] \in Past, KeyOf(g)' = KeyOf(h)'
        PROVE  g = h
    BY <2>1, <2>4, <2>8 DEF HandlersSound, Past
  <2> QED
    BY <2>5, <2>6, <2>7, <2>8 DEF HandlersSound
<1>8. RunnersSound'
  <2>1. ASSUME NEW r \in Runners, current[r] = k
        PROVE  /\ rpc[r] = "settle" => s = "SUCCESSFUL"
               /\ rpc[r] = "release" => s = "FAILED"
    BY <1>3, <2>1 DEF RunnersSound
  <2>2. \A r \in Runners : todo[r] \subseteq Keys
    BY DEF RunsTypeOK
  <2>3. ASSUME NEW r \in Runners
        PROVE  \A j \in todo[r] : HasStatus(j, Statuses \ {"PENDING"})'
    BY <1>6, <2>2 DEF RunnersSound
  <2>4. ASSUME NEW r \in Runners
        PROVE  /\ rpc'[r] \in {"settle", "release", "record"} =>
                      current[r] \in Keys
               /\ rpc'[r] \in {"settle", "release"} => rpc'[r] = rpc[r]
    BY DEF RunnersSound
  <2>5. ASSUME NEW r \in Runners, rpc[r] = "settle"
        PROVE  HasStatus(current[r], {"PROCESSING", "SUCCESSFUL"})'
    BY <1>6, <2>1, <2>5 DEF RunnersSound, HasStatus
  <2>6. ASSUME NEW r \in Runners, rpc[r] = "release"
        PROVE  HasStatus(current[r], {"PROCESSING", "FAILED"})'
    BY <1>6, <2>1, <2>6 DEF RunnersSound, HasStatus
  <2>7. ASSUME NEW r \in Runners, rpc[r] \in {"settle", "release"}
        PROVE  rail'[current'[r]] = IF rpc[r] = "settle" THEN "sent"
                                                        ELSE "rejected"
    BY <2>7 DEF RunnersSound
  <2>8. current' = current /\ todo' = todo
    OBVIOUS
  <2>9. ASSUME NEW r \in Runners, rpc'[r] = "settle"
        PROVE  /\ HasStatus(current[r], {"PROCESSING", "SUCCESSFUL"})'
               /\ rail'[current'[r]] = "sent"
    BY <2>4, <2>5, <2>7, <2>9
  <2>10. ASSUME NEW r \in Runners, rpc'[r] = "release"
         PROVE  /\ HasStatus(current[r], {"PROCESSING", "FAILED"})'
                /\ rail'[current'[r]] = "rejected"
    BY <2>4, <2>6, <2>7, <2>10
  <2> QED
    BY <2>3, <2>4, <2>8, <2>9, <2>10 DEF RunnersSound
<1>9. NotAsked' /\ AskedOnceReserved' /\ StatusIsTrue'
  BY <1>3, <1>4, <1>6 DEF NotAsked, AskedOnceReserved, StatusIsTrue, HasStatus
<1> QED
  BY <1>5, <1>7, <1>8, <1>9

(* Steps of a run that leave the withdrawals alone.                        *)
LEMMA RunSaga ==
    ASSUME SagaInv, UNCHANGED sagaVars,
           NEW r \in Runners,
           \/ StartRun(r) \/ Snapshot(r) \/ Requery(r) \/ RunThrows(r)
           \/ Record(r) \/ ReadInternal(r) \/ CompareExternal(r)
           \/ CompleteRun(r) \/ AuditRun(r) \/ KillRun(r)
    PROVE  SagaInv'
<1> USE DEF SagaInv
<1>1. /\ \A k, s : HasStatus(k, s)' <=> HasStatus(k, s)
      /\ SagaTypeOK' /\ HandlersSound' /\ NotAsked'
      /\ AskedOnceReserved' /\ StatusIsTrue' /\ rail' = rail
  BY DEF sagaVars, SagaTypeOK, HasStatus, HandlersSound, KeyOf, NotAsked,
         AskedOnceReserved, StatusIsTrue, RunsTypeOK
<1>2. /\ todo \in [Runners -> SUBSET Keys] /\ Balance(Pool) \in Int
      /\ current \in [Runners -> Keys \cup {NoKey}]
      /\ rpc \in [Runners -> Resting \cup Running]
  <2>1. Pool \in Accounts /\ Directions = {"DEBIT", "CREDIT"}
    BY DEF Accounts, Directions
  <2> QED
    BY <2>1 DEF RunsTypeOK, SagaTypeOK, Balance, BalanceOf
<1>3. RunsTypeOK' /\ RunnersSound'
  <2>1. CASE StartRun(r)
    BY <1>1, <1>2, <2>1
       DEF StartRun, Proceed, RunsTypeOK, RunnersSound, Resting, Running
  <2>2. CASE Snapshot(r)
    <3>1. KeysWith({"PROCESSING"}) \in SUBSET Keys
      BY DEF KeysWith
    <3>2. \A k \in KeysWith({"PROCESSING"}) : HasStatus(k, Statuses \ {"PENDING"})
      BY DEF KeysWith, HasStatus, Statuses
    <3> QED
      BY <1>1, <1>2, <2>2, <3>1, <3>2
         DEF Snapshot, Proceed, RunsTypeOK, RunnersSound, Resting, Running
  <2>3. CASE Requery(r)
    <3>1. PICK k \in todo[r] :
              /\ todo' = [todo EXCEPT ![r] = @ \ {k}]
              /\ current' = [current EXCEPT ![r] = k]
              /\ rpc' = [rpc EXCEPT ![r] =
                            AfterVerdict(VerdictOf(rail[k]), "requery")]
      BY <2>3 DEF Requery, Proceed
    <3>2. k \in Keys /\ HasStatus(k, Statuses \ {"PENDING"})
      BY <1>2 DEF RunnersSound
    <3>3. \/ AfterVerdict(VerdictOf(rail[k]), "requery") = "settle" /\ rail[k] = "sent"
          \/ AfterVerdict(VerdictOf(rail[k]), "requery") = "release"
             /\ rail[k] = "rejected"
          \/ AfterVerdict(VerdictOf(rail[k]), "requery") = "requery"
      BY DEF AfterVerdict, VerdictOf
    <3>4. UNCHANGED <<internal, run, discrepancies, byRuns, deaths>>
      BY <2>3 DEF Requery
    <3>5. /\ rail[k] = "sent" => HasStatus(k, {"PROCESSING", "SUCCESSFUL"})
          /\ rail[k] = "rejected" => HasStatus(k, {"PROCESSING", "FAILED"})
      BY <3>2 DEF StatusIsTrue, HasStatus, Statuses
    <3>6. RunsTypeOK'
      BY <1>1, <1>2, <3>1, <3>2, <3>3, <3>4 DEF RunsTypeOK, Running
    <3>7. RunnersSound'
      <4>1. ASSUME NEW p \in Runners, p # r
            PROVE  todo'[p] = todo[p] /\ current'[p] = current[p] /\ rpc'[p] = rpc[p]
        BY <1>2, <3>1, <4>1
      <4>2. todo'[r] \subseteq todo[r] /\ current'[r] = k
            /\ rpc'[r] = AfterVerdict(VerdictOf(rail[k]), "requery")
        BY <1>2, <3>1
      <4> QED
        BY <1>1, <3>2, <3>3, <3>5, <4>1, <4>2 DEF RunnersSound
    <3> QED
      BY <3>6, <3>7
  <2>4. ASSUME NEW where \in Resting, EndRun(r, where),
               run' \in [Runners -> {"none", "started", "completed", "audited"}],
               deaths' \in 0 .. MaxDeaths, UNCHANGED <<discrepancies, byRuns>>
        PROVE  RunsTypeOK' /\ RunnersSound'
    <3>1. RunsTypeOK'
      BY <1>1, <1>2, <2>4 DEF EndRun, Proceed, RunsTypeOK
    <3>2. RunnersSound'
      BY <1>1, <1>2, <2>4 DEF EndRun, Proceed, RunnersSound, Resting
    <3> QED
      BY <3>1, <3>2
  <2>5. CASE Record(r)
    BY <1>1, <1>2, <2>5
       DEF Record, Proceed, RunsTypeOK, RunnersSound, Running
  <2>6. CASE ReadInternal(r)
    BY <1>1, <1>2, <2>6
       DEF ReadInternal, Proceed, RunsTypeOK, RunnersSound, Running
  <2>7. CASE CompareExternal(r)
    <3>1. discrepancies' \subseteq Keys \cup {Mismatch}
      BY <2>7 DEF CompareExternal, RunsTypeOK
    <3> QED
      BY <1>1, <1>2, <2>7, <3>1
         DEF CompareExternal, Proceed, RunsTypeOK, RunnersSound, Running
  <2>8. CASE CompleteRun(r)
    BY <1>1, <1>2, <2>8
       DEF CompleteRun, Proceed, RunsTypeOK, RunnersSound, Running
  <2>9. CASE AuditRun(r)
    BY <2>4, <2>9 DEF AuditRun, RunsTypeOK, Resting
  <2>10. CASE KillRun(r)
    <3>1. deaths' \in 0 .. MaxDeaths
      BY <2>10, RunnerAssumption DEF KillRun, RunsTypeOK
    <3> QED
      BY <2>4, <2>10, <3>1 DEF KillRun, RunsTypeOK, Resting
  <2>11. CASE RunThrows(r)
    BY <2>4, <2>11 DEF RunThrows, RunsTypeOK, Resting
  <2> QED
    BY <2>1, <2>2, <2>3, <2>5, <2>6, <2>7, <2>8, <2>9, <2>10, <2>11
<1> QED
  BY <1>1, <1>3

LEMMA HandlerResolves ==
    ASSUME SagaInv, NEW h \in Handlers, Settle(h) \/ Release(h),
           UNCHANGED runVars
    PROVE  SagaInv'
<1>1. /\ KeyOf(h) \in Keys
      /\ \/ /\ SettleTx(KeyOf(h)) /\ rail[KeyOf(h)] = "sent"
            /\ HasStatus(KeyOf(h), {"PROCESSING", "SUCCESSFUL"})
         \/ /\ ReleaseTx(KeyOf(h)) /\ rail[KeyOf(h)] = "rejected"
            /\ HasStatus(KeyOf(h), {"PROCESSING", "FAILED"})
  BY RequestFields
     DEF Settle, Release, SagaInv, HandlersSound, Underway, KeyOf
<1>2. /\ pc' = [pc EXCEPT ![h] = "done"]
      /\ UNCHANGED <<rail, calls, request, todo, current, internal, run,
                     discrepancies, byRuns, deaths, rpc>>
  BY DEF Settle, Release, Goto, runVars
<1>3. /\ pc \in [Handlers -> Underway \cup {"idle", "done", "failed", "dead"}]
      /\ rpc \in [Runners -> Resting \cup Running]
  BY DEF SagaInv, RunsTypeOK, SagaTypeOK
<1>4. /\ pc' \in [Handlers -> Underway \cup {"idle", "done", "failed", "dead"}]
      /\ \A g \in Handlers : pc'[g] \in {pc[g], "done"}
  BY <1>2, <1>3
<1> QED
  BY <1>1, <1>2, <1>3, <1>4, ResolveSaga

LEMMA RunResolves ==
    ASSUME SagaInv, NEW r \in Runners, SettleStuck(r) \/ ReleaseStuck(r)
    PROVE  SagaInv'
<1>1. /\ current[r] \in Keys /\ rpc[r] \in {"settle", "release"}
      /\ \/ /\ SettleTx(current[r]) /\ rail[current[r]] = "sent"
            /\ HasStatus(current[r], {"PROCESSING", "SUCCESSFUL"})
         \/ /\ ReleaseTx(current[r]) /\ rail[current[r]] = "rejected"
            /\ HasStatus(current[r], {"PROCESSING", "FAILED"})
  BY DEF SettleStuck, ReleaseStuck, SagaInv, RunnersSound
<1>2. /\ rpc' = [rpc EXCEPT ![r] = "record"]
      /\ UNCHANGED <<rail, calls, pc, request, todo, current, internal, run,
                     discrepancies, deaths>>
      /\ byRuns' = byRuns \cup {current[r]}
  BY DEF SettleStuck, ReleaseStuck, Proceed
<1>3. /\ pc \in [Handlers -> Underway \cup {"idle", "done", "failed", "dead"}]
      /\ rpc \in [Runners -> Resting \cup Running]
  BY DEF SagaInv, RunsTypeOK, SagaTypeOK
<1>4. /\ rpc' \in [Runners -> Resting \cup Running]
      /\ \A p \in Runners : \/ rpc'[p] = rpc[p]
                           \/ /\ rpc'[p] = "record"
                              /\ rpc[p] \in {"settle", "release"}
  BY <1>1, <1>2, <1>3 DEF Running
<1> QED
  BY <1>1, <1>2, <1>3, <1>4, ResolveSaga

(* A deposit moves its amount into the pooled account and its wallet, and  *)
(* leaves the withdrawals alone.                                           *)
Funds == DepositStep /\ UNCHANGED runVars

LEMMA ReceiptMoves ==
    ASSUME SagaInv, NEW w \in Wallets, NEW n \in Nat,
           SaveTransaction(Receipt(w, n))
    PROVE  /\ sums' \in [Accounts -> [Directions -> Nat]]
           /\ \A x \in Accounts : Balance(x) \in Int
           /\ \A v \in Wallets : Balance(v)' =
                  IF v = w THEN Balance(v) + n ELSE Balance(v)
           /\ Balance(Pending)' = Balance(Pending)
           /\ Balance(Pool)' = Balance(Pool) + n
<1>1. /\ Pending \in Accounts /\ Pool \in Accounts /\ Pending # Pool
      /\ Pending \in Liability /\ Pool \notin Liability
      /\ Wallets \subseteq Accounts \ {Pending, Pool}
      /\ Wallets \subseteq Liability
  BY WalletAssumption DEF Accounts, Liability
<1>2. w \in Accounts /\ w \in Liability /\ w # Pending /\ w # Pool
  BY <1>1
<1>3. SaveTransaction(<<Debit(Pool, n, Currency), Credit(w, n, Currency)>>)
      /\ sums \in [Accounts -> [Directions -> Nat]]
  BY DEF Receipt, SagaInv, RunsTypeOK, SagaTypeOK
<1> QED
  BY <1>1, <1>2, <1>3, Movement

LEMMA FundsSplit ==
    ASSUME Funds
    PROVE  /\ UNCHANGED <<rows, rail, calls, pc, request, runVars>>
           /\ \E d \in Deposits :
                 \/ /\ deposits[d] = "expected" /\ sums' = sums
                    /\ deposits' = [deposits EXCEPT ![d] = "arrived"]
                 \/ /\ deposits[d] = "arrived"
                    /\ SaveTransaction(Receipt(DepositOf[d].wallet,
                                               DepositOf[d].amount))
                    /\ deposits' = [deposits EXCEPT ![d] = "posted"]
  BY DEF Funds, DepositStep, Arrives, ProcessDeposit, sagaVars

LEMMA DepositSaga == ASSUME SagaInv, Funds PROVE SagaInv'
<1>1. UNCHANGED <<rows, rail, calls, pc, request, runVars>>
  BY FundsSplit
<1>2. sums' \in [Accounts -> [Directions -> Nat]]
  <2>1. CASE sums' = sums
    BY <2>1 DEF SagaInv, RunsTypeOK, SagaTypeOK
  <2>2. ASSUME NEW d \in Deposits,
               SaveTransaction(Receipt(DepositOf[d].wallet, DepositOf[d].amount))
        PROVE  sums' \in [Accounts -> [Directions -> Nat]]
    BY <2>2, DepositFields, ReceiptMoves
  <2> QED
    BY <2>1, <2>2, FundsSplit
<1>3. \A k, t : HasStatus(k, t)' <=> HasStatus(k, t)
  BY <1>1 DEF HasStatus
<1> QED
  BY <1>1, <1>2, <1>3
     DEF runVars, SagaInv, RunsTypeOK, SagaTypeOK, HandlersSound,
         RunnersSound, KeyOf, NotAsked, AskedOnceReserved, StatusIsTrue

(* Every step is one of a deposit, or leaves the deposits alone.           *)
Moves ==
    \/ SagaStep /\ UNCHANGED runVars
    \/ \E r \in Runners : StartRun(r) \/ RunStep(r) \/ KillRun(r)
    \/ UNCHANGED vars

LEMMA EitherStep == [Next]_vars => Funds \/ (Moves /\ deposits' = deposits)
  BY DEF Next, Funds, Moves, vars

LEMMA StepSaga == SagaInv /\ [Next]_vars => SagaInv'
<1> SUFFICES ASSUME SagaInv, Moves PROVE SagaInv'
  BY EitherStep, DepositSaga
<1>1. CASE UNCHANGED vars
  <2>1. \A k, s : HasStatus(k, s)' <=> HasStatus(k, s)
    BY <1>1 DEF HasStatus, vars, sagaVars
  <2> QED
    BY <1>1, <2>1
       DEF vars, sagaVars, runVars, SagaInv, RunsTypeOK, SagaTypeOK, HandlersSound,
           RunnersSound, KeyOf, NotAsked, AskedOnceReserved, StatusIsTrue
<1>2. ASSUME NEW h \in Handlers, UNCHANGED runVars,
             ReturnExisting(h) \/ RefuseNoWallet(h) \/ Admit(h)
      PROVE  SagaInv'
  BY <1>2, ArriveSaga DEF ReturnExisting, RefuseNoWallet, Admit
<1>3. ASSUME NEW h \in Handlers, UNCHANGED runVars, HandlerStep(h)
      PROVE  SagaInv'
  <2>1. CASE Reserve(h)
    BY <1>3, <2>1, ReserveSaga
  <2>2. CASE MarkProcessing(h)
    BY <1>3, <2>2, MarkSaga
  <2>3. CASE AskPartner(h)
    BY <1>3, <2>3, AskSaga
  <2>4. CASE Settle(h) \/ Release(h)
    BY <1>3, <2>4, HandlerResolves
  <2>5. CASE RefuseReserve(h)
    BY <1>3, <2>5, EndSaga DEF RefuseReserve
  <2>6. CASE ResolveThrows(h)
    BY <1>3, <2>6, EndSaga DEF ResolveThrows
  <2> QED
    BY <1>3, <2>1, <2>2, <2>3, <2>4, <2>5, <2>6 DEF HandlerStep
<1>4. ASSUME NEW h \in Handlers, UNCHANGED runVars, Die(h)
      PROVE  SagaInv'
  BY <1>4, EndSaga DEF Die
<1>5. ASSUME NEW k \in Keys, UNCHANGED runVars, Decide(k)
      PROVE  SagaInv'
  BY <1>5, DecideSaga
<1>6. ASSUME NEW r \in Runners, SettleStuck(r) \/ ReleaseStuck(r)
      PROVE  SagaInv'
  BY <1>6, RunResolves
<1>7. ASSUME NEW r \in Runners,
             \/ StartRun(r) \/ Snapshot(r) \/ Requery(r) \/ RunThrows(r)
             \/ Record(r) \/ ReadInternal(r) \/ CompareExternal(r)
             \/ CompleteRun(r) \/ AuditRun(r) \/ KillRun(r)
      PROVE  SagaInv'
  <2>1. UNCHANGED sagaVars
    BY <1>7 DEF StartRun, Snapshot, Requery, RunThrows, Record, ReadInternal,
                CompareExternal, CompleteRun, AuditRun, KillRun
  <2> QED
    BY <1>7, <2>1, RunSaga
<1> QED
  BY <1>1, <1>2, <1>3, <1>4, <1>5, <1>6, <1>7 DEF Moves, SagaStep, RunStep

LEMMA InitSagaInv == Init => SagaInv
<1> SUFFICES ASSUME Init PROVE SagaInv
  OBVIOUS
<1> USE DEF Init, SagaInit, RunInit
<1>1. Funded \in [Accounts -> [Directions -> Nat]]
  <2>1. OpeningCash \in Nat
    BY FiniteAssumption, WalletAssumption, SumNat DEF OpeningCash
  <2> QED
    BY <2>1, WalletAssumption DEF Funded, Accounts
<1>2. RunsTypeOK
  BY <1>1, RunnerAssumption DEF RunsTypeOK, SagaTypeOK, Resting
<1> QED
  BY <1>2 DEF SagaInv, HandlersSound, RunnersSound, NotAsked, HasStatus,
              AskedOnceReserved, StatusIsTrue, Underway, Past

LEMMA AlwaysSaga == Spec => []SagaInv
  BY InitSagaInv, StepSaga, PTL DEF Spec

(* What a run has seen of the deposits in the ledger is there to stay.     *)
FundingInv ==
    /\ DepositsTypeOK
    /\ seen \in [Runners -> SUBSET Deposits]
    /\ \A r \in Runners : rpc[r] = "compare" => seen[r] \subseteq Entered

LEMMA InitFunding == Init => FundingInv
  BY DEF Init, SagaInit, RunInit, FundingInv, DepositsTypeOK

LEMMA StepFunding == SagaInv /\ FundingInv /\ [Next]_vars => FundingInv'
<1> SUFFICES ASSUME SagaInv, FundingInv, [Next]_vars PROVE FundingInv'
  OBVIOUS
<1>1. /\ rpc \in [Runners -> Resting \cup Running]
      /\ seen \in [Runners -> SUBSET Deposits]
      /\ deposits \in [Deposits -> {"expected", "arrived", "posted"}]
  BY DEF SagaInv, RunsTypeOK, FundingInv, DepositsTypeOK
<1>2. CASE Funds
  <2>1. rpc' = rpc /\ seen' = seen
    BY <1>2 DEF Funds, runVars
  <2>2. PICK d \in Deposits :
            \/ deposits' = [deposits EXCEPT ![d] = "arrived"]
               /\ deposits[d] = "expected"
            \/ deposits' = [deposits EXCEPT ![d] = "posted"]
    BY <1>2, FundsSplit
  <2>3. deposits' \in [Deposits -> {"expected", "arrived", "posted"}]
    BY <1>1, <2>2
  <2>4. Entered \subseteq Entered'
    BY <1>1, <2>2 DEF Entered
  <2> QED
    BY <2>1, <2>3, <2>4 DEF FundingInv, DepositsTypeOK
<1>3. ASSUME deposits' = deposits, NEW r \in Runners,
             NEW where, Proceed(r, where),
             \/ where # "compare" /\ seen' = seen
             \/ where # "compare" /\ seen' = [seen EXCEPT ![r] = {}]
             \/ seen' = [seen EXCEPT ![r] = Entered]
      PROVE  FundingInv'
  <2>1. Entered' = Entered /\ Entered \in SUBSET Deposits
    BY <1>3 DEF Entered
  <2>2. \A p \in Runners : rpc'[p] = IF p = r THEN where ELSE rpc[p]
    BY <1>1, <1>3 DEF Proceed
  <2>3. seen' \in [Runners -> SUBSET Deposits]
    BY <1>1, <1>3, <2>1
  <2>4. \A p \in Runners : rpc'[p] = "compare" => seen'[p] \subseteq Entered
    BY <1>1, <1>3, <2>2 DEF FundingInv
  <2> QED
    BY <1>3, <2>1, <2>3, <2>4 DEF FundingInv, DepositsTypeOK
<1>4. CASE deposits' = deposits /\ UNCHANGED runVars
  BY <1>4 DEF FundingInv, DepositsTypeOK, Entered, runVars
<1>5. ASSUME deposits' = deposits, NEW r \in Runners,
             StartRun(r) \/ RunStep(r) \/ KillRun(r)
      PROVE  FundingInv'
  <2>1. CASE ReadInternal(r)
    BY <1>3, <1>5, <2>1 DEF ReadInternal
  <2>2. CASE \/ StartRun(r) \/ Snapshot(r) \/ SettleStuck(r) \/ ReleaseStuck(r)
             \/ Record(r) \/ CompareExternal(r) \/ CompleteRun(r)
    BY <1>3, <1>5, <2>2 DEF StartRun, Snapshot, SettleStuck, ReleaseStuck,
                            Record, CompareExternal, CompleteRun
  <2>3. CASE Requery(r)
    BY <1>3, <1>5, <2>3 DEF Requery, AfterVerdict
  <2>4. CASE RunThrows(r) \/ AuditRun(r) \/ KillRun(r)
    BY <1>3, <1>5, <2>4 DEF RunThrows, AuditRun, KillRun, EndRun
  <2> QED
    BY <1>5, <2>1, <2>2, <2>3, <2>4 DEF RunStep
<1> QED
  BY <1>2, <1>4, <1>5, EitherStep DEF Moves, vars

LEMMA AlwaysFunding == Spec => []FundingInv
  BY InitFunding, StepFunding, AlwaysSaga, PTL DEF Spec

(* Reconciliation.TypeOK: every variable of the requests, the runs and the *)
(* deposits keeps its type, for any customers, requests and runs.          *)
THEOREM SagaTypeCorrect == Spec => []TypeOK
<1>1. SagaInv /\ FundingInv => TypeOK
  BY DEF SagaInv, FundingInv, TypeOK
<1> QED
  BY <1>1, AlwaysSaga, AlwaysFunding, PTL

(* Withdrawals.AskedOnceReserved: whatever is repeated, dies or overlaps,  *)
(* the partner is asked once for each withdrawal, after its reservation.   *)
THEOREM PartnerAskedOnce == Spec => []AskedOnceReserved
  BY AlwaysSaga, PTL DEF SagaInv

(* Withdrawals.StatusIsTrue: no request and no run reports a success the   *)
(* partner has not confirmed, or a failure it has not.                     *)
THEOREM StatusesAreTrue == Spec => []StatusIsTrue
  BY AlwaysSaga, PTL DEF SagaInv
-----------------------------------------------------------------------------
(* The six things a step can do to the money and the withdrawals.          *)
NoMoney == UNCHANGED <<sums, rows, rail>>

Reserves(k, w, n) ==
    /\ n \in Asked
    /\ SaveTransaction(Reservation(w, n))
    /\ CreateRow(k, w, n)
    /\ rail[k] = "unseen"
    /\ UNCHANGED rail

Marks(k) ==
    /\ HasStatus(k, {"PENDING"})
    /\ SetStatus(k, "PROCESSING")
    /\ rail[k] = "unseen"
    /\ UNCHANGED <<sums, rail>>

Decides(k, fate) ==
    /\ HasStatus(k, {"PROCESSING"})
    /\ rail[k] \in {"unseen", "undecided"}
    /\ fate = "undecided" => rail[k] = "unseen"
    /\ rail' = [rail EXCEPT ![k] = fate]
    /\ UNCHANGED <<sums, rows>>

Settles(k) ==
    /\ rail[k] = "sent"
    /\ SettleTx(k)
    /\ UNCHANGED rail

Releases(k) ==
    /\ rail[k] = "rejected"
    /\ ReleaseTx(k)
    /\ UNCHANGED rail

Effect(settled, released) ==
    \/ NoMoney
    \/ \E k \in Keys, w \in Wallets, n \in Nat : Reserves(k, w, n)
    \/ \E k \in Keys : Marks(k)
    \/ \E k \in Keys, fate \in {"sent", "rejected", "undecided"} : Decides(k, fate)
    \/ \E k \in Keys : \/ Settles(k) /\ HasStatus(k, settled)
                       \/ Releases(k) /\ HasStatus(k, released)

(* They depend on the statuses of the rows that are settled and released.  *)
LEMMA StepEffect ==
    ASSUME SagaInv, Moves, NEW settled, NEW released,
           \A h \in Handlers :
               /\ pc[h] = "settle" => HasStatus(KeyOf(h), settled)
               /\ pc[h] = "release" => HasStatus(KeyOf(h), released),
           \A r \in Runners :
               /\ rpc[r] = "settle" => HasStatus(current[r], settled)
               /\ rpc[r] = "release" => HasStatus(current[r], released)
    PROVE  Effect(settled, released)
<1> USE DEF SagaInv
<1>1. ASSUME NEW h \in Handlers, pc[h] \in Underway
      PROVE  request[h] \in Requests /\ KeyOf(h) \in Keys
  BY <1>1, RequestFields DEF HandlersSound, KeyOf
<1>2. CASE UNCHANGED vars
  BY <1>2 DEF Effect, NoMoney, vars, sagaVars
<1>3. ASSUME NEW h \in Handlers,
             ReturnExisting(h) \/ RefuseNoWallet(h) \/ Admit(h)
      PROVE  Effect(settled, released)
  BY <1>3 DEF ReturnExisting, RefuseNoWallet, Admit, Arrive, Effect, NoMoney
<1>4. ASSUME NEW h \in Handlers, HandlerStep(h)
      PROVE  Effect(settled, released)
  <2>1. CASE Reserve(h)
    <3>1. PICK w \in FindByUserId(request[h].user) :
              /\ SaveTransaction(Reservation(w, request[h].amount))
              /\ CreateRow(KeyOf(h), w, request[h].amount)
      BY <2>1 DEF Reserve
    <3>2. /\ KeyOf(h) \in Keys /\ w \in Wallets /\ request[h].amount \in Nat
          /\ request[h].amount \in Asked /\ rail' = rail
      BY <1>1, <2>1, RequestFields DEF Reserve, Underway, FindByUserId, Asked
    <3>3. rail[KeyOf(h)] = "unseen"
      BY <3>1, <3>2 DEF CreateRow, AskedOnceReserved, HasStatus, NotAsked,
                        RunsTypeOK, SagaTypeOK
    <3> QED
      BY <3>1, <3>2, <3>3 DEF Effect, Reserves
  <2>2. CASE MarkProcessing(h)
    <3>1. /\ KeyOf(h) \in Keys /\ HasStatus(KeyOf(h), {"PENDING"})
          /\ SetStatus(KeyOf(h), "PROCESSING") /\ UNCHANGED <<sums, rail>>
      BY <1>1, <2>2 DEF MarkProcessing, Underway, HandlersSound
    <3>2. rail[KeyOf(h)] = "unseen"
      BY <3>1 DEF AskedOnceReserved, HasStatus, NotAsked, RunsTypeOK, SagaTypeOK
    <3> QED
      BY <3>1, <3>2 DEF Effect, Marks
  <2>3. CASE AskPartner(h)
    <3>1. /\ KeyOf(h) \in Keys /\ HasStatus(KeyOf(h), {"PROCESSING"})
          /\ rail[KeyOf(h)] = "unseen" /\ UNCHANGED <<sums, rows>>
      BY <1>1, <2>3 DEF AskPartner, Underway, HandlersSound, NotAsked
    <3>2. PICK fate \in Fates(KeyOf(h)) : rail' = [rail EXCEPT ![KeyOf(h)] = fate]
      BY <2>3 DEF AskPartner
    <3> QED
      BY <3>1, <3>2 DEF Effect, Decides, Fates
  <2>4. CASE Settle(h)
    BY <1>1, <2>4 DEF Settle, Underway, HandlersSound, Effect, Settles
  <2>5. CASE Release(h)
    BY <1>1, <2>5 DEF Release, Underway, HandlersSound, Effect, Releases
  <2>6. CASE RefuseReserve(h) \/ ResolveThrows(h)
    BY <2>6 DEF RefuseReserve, ResolveThrows, Effect, NoMoney
  <2> QED
    BY <1>4, <2>1, <2>2, <2>3, <2>4, <2>5, <2>6 DEF HandlerStep
<1>5. ASSUME NEW h \in Handlers, Die(h)
      PROVE  Effect(settled, released)
  BY <1>5 DEF Die, Effect, NoMoney
<1>6. ASSUME NEW k \in Keys, Decide(k)
      PROVE  Effect(settled, released)
  <2>1. calls[k] > 0
    BY <1>6 DEF Decide, NotAsked, RunsTypeOK, SagaTypeOK
  <2>2. HasStatus(k, {"PROCESSING"})
    BY <1>6, <2>1 DEF Decide, AskedOnceReserved, StatusIsTrue, HasStatus, Statuses
  <2> QED
    BY <1>6, <2>2 DEF Decide, Decides, Effect
<1>7. ASSUME NEW r \in Runners, SettleStuck(r) \/ ReleaseStuck(r)
      PROVE  Effect(settled, released)
  BY <1>7 DEF SettleStuck, ReleaseStuck, RunnersSound, Effect, Settles, Releases
<1>8. ASSUME NEW r \in Runners,
             \/ StartRun(r) \/ Snapshot(r) \/ Requery(r) \/ RunThrows(r)
             \/ Record(r) \/ ReadInternal(r) \/ CompareExternal(r)
             \/ CompleteRun(r) \/ AuditRun(r) \/ KillRun(r)
      PROVE  Effect(settled, released)
  <2>1. UNCHANGED sagaVars
    BY <1>8 DEF StartRun, Snapshot, Requery, RunThrows, Record, ReadInternal,
                CompareExternal, CompleteRun, AuditRun, KillRun
  <2> QED
    BY <2>1 DEF Effect, NoMoney, sagaVars
<1> QED
  BY <1>2, <1>3, <1>4, <1>5, <1>6, <1>7, <1>8 DEF Moves, SagaStep, RunStep

(* In general a row may be settled or released again.                      *)
AnyTime == Effect({"PROCESSING", "SUCCESSFUL"}, {"PROCESSING", "FAILED"})

LEMMA AnyEffect ==
    SagaInv /\ [Next]_vars => Funds \/ (AnyTime /\ deposits' = deposits)
<1> SUFFICES ASSUME SagaInv, Moves PROVE AnyTime
  BY EitherStep
<1> QED
  BY StepEffect DEF SagaInv, HandlersSound, RunnersSound, AnyTime

MovesForward ==
    \A k \in Keys : rows'[k] # rows[k] =>
        IF rows[k] = NoRow
        THEN rows'[k].status = "PENDING"
        ELSE /\ rows'[k] # NoRow
             /\ rows'[k] = [rows[k] EXCEPT !.status = rows'[k].status]
             /\ <<rows[k].status, rows'[k].status>> \in Forward

LEMMA StepForward == SagaInv /\ [Next]_vars => [MovesForward]_rows
<1> SUFFICES ASSUME SagaInv, AnyTime
             PROVE  MovesForward \/ UNCHANGED rows
  BY AnyEffect, FundsSplit
<1>1. rows \in [Keys -> Rows \cup {NoRow}]
  BY DEF SagaInv, RunsTypeOK, SagaTypeOK
<1>2. CASE NoMoney \/ \E k \in Keys, fate \in {"sent", "rejected", "undecided"} :
                          Decides(k, fate)
  BY <1>2 DEF MovesForward, NoMoney, Decides
<1>3. ASSUME NEW k \in Keys, NEW w \in Wallets, NEW n \in Nat, Reserves(k, w, n)
      PROVE  MovesForward
  BY <1>1, <1>3 DEF MovesForward, Reserves, CreateRow
<1>4. ASSUME NEW k \in Keys, NEW s \in Statuses, SetStatus(k, s),
             rows[k] # NoRow,
             \/ rows[k].status = "PENDING" /\ s = "PROCESSING"
             \/ rows[k].status \in {"PROCESSING", "SUCCESSFUL"} /\ s = "SUCCESSFUL"
             \/ rows[k].status \in {"PROCESSING", "FAILED"} /\ s = "FAILED"
      PROVE  MovesForward
  <2>1. /\ rows'[k] \in Rows /\ rows'[k].status = s
        /\ rows'[k] = [rows[k] EXCEPT !.status = s]
        /\ \A j \in Keys : j # k => rows'[j] = rows[j]
    BY <1>1, <1>4, StatusSet
  <2>2. rows'[k] # NoRow
    BY <2>1, RowAssumption
  <2>3. rows[k].status = s => rows'[k] = rows[k]
    <3>1. rows[k] \in Rows
      BY <1>1, <1>4
    <3> QED
      BY <2>1, <3>1 DEF Rows
  <2>4. rows'[k] # rows[k] => <<rows[k].status, rows'[k].status>> \in Forward
    BY <1>4, <2>1, <2>3 DEF Forward
  <2> QED
    BY <1>4, <2>1, <2>2, <2>4 DEF MovesForward
<1>5. ASSUME NEW k \in Keys,
             \/ Marks(k)
             \/ Settles(k) /\ HasStatus(k, {"PROCESSING", "SUCCESSFUL"})
             \/ Releases(k) /\ HasStatus(k, {"PROCESSING", "FAILED"})
      PROVE  MovesForward
  <2>1. \/ SetStatus(k, "PROCESSING") /\ HasStatus(k, {"PENDING"})
        \/ SetStatus(k, "SUCCESSFUL") /\ HasStatus(k, {"PROCESSING", "SUCCESSFUL"})
        \/ SetStatus(k, "FAILED") /\ HasStatus(k, {"PROCESSING", "FAILED"})
    BY <1>5 DEF Marks, Settles, Releases, SettleTx, ReleaseTx, HasStatus
  <2> QED
    BY <1>4, <2>1 DEF HasStatus, Statuses
<1> QED
  BY <1>2, <1>3, <1>4, <1>5 DEF AnyTime, Effect

(* Withdrawals.StatusForward: a withdrawal keeps its terms, and its status *)
(* never moves back, whatever overlaps.                                    *)
THEOREM StatusesMoveForward == Spec => StatusForward
  BY StepForward, AlwaysSaga, PTL DEF Spec, StatusForward, MovesForward
-----------------------------------------------------------------------------
(* Ids are random: no wallet's owner has the id of a wallet.               *)
IdsAsGenerated == \A w \in Wallets : OwnerOf[w] \notin Wallets

(* A withdrawal the partner has rejected keeps its money reserved.         *)
RejectedStaysOpen ==
    \A k \in Keys : rail[k] = "rejected" => HasStatus(k, {"PROCESSING"})

LEMMA StepRejected ==
    IdsAsGenerated /\ SagaInv /\ RejectedStaysOpen /\ [Next]_vars
        => RejectedStaysOpen'
<1> SUFFICES ASSUME IdsAsGenerated, SagaInv, RejectedStaysOpen, AnyTime
             PROVE  RejectedStaysOpen'
  BY AnyEffect, FundsSplit DEF RejectedStaysOpen, HasStatus
<1>1. /\ rows \in [Keys -> Rows \cup {NoRow}]
      /\ rail \in [Keys -> {"unseen", "undecided", "sent", "rejected"}]
  BY DEF SagaInv, RunsTypeOK, SagaTypeOK
<1>2. ASSUME NEW k \in Keys, rail[k] # "rejected", rail' = rail,
             \A j \in Keys : j # k => rows'[j] = rows[j]
      PROVE  RejectedStaysOpen'
  BY <1>2 DEF RejectedStaysOpen, HasStatus
<1>3. CASE NoMoney
  BY <1>3 DEF NoMoney, RejectedStaysOpen, HasStatus
<1>4. ASSUME NEW k \in Keys, NEW w \in Wallets, NEW n \in Nat, Reserves(k, w, n)
      PROVE  RejectedStaysOpen'
  BY <1>1, <1>2, <1>4 DEF Reserves, CreateRow
<1>5. ASSUME NEW k \in Keys, Marks(k) \/ Settles(k) PROVE RejectedStaysOpen'
  BY <1>1, <1>2, <1>5 DEF Marks, Settles, SettleTx, SetStatus
<1>6. ASSUME NEW k \in Keys, NEW fate \in {"sent", "rejected", "undecided"},
             Decides(k, fate)
      PROVE  RejectedStaysOpen'
  BY <1>1, <1>6 DEF Decides, RejectedStaysOpen, HasStatus
<1>7. ASSUME NEW k \in Keys, HasStatus(k, {"PROCESSING", "FAILED"}), Releases(k)
      PROVE  FALSE
  <2>1. PICK w \in Wallets : OwnerOf[w] = rows[k].wallet
    BY <1>7 DEF Releases, ReleaseTx, WalletToRefund, FindByUserId
  <2>2. rows[k].wallet \in Wallets
    BY <1>1, <1>7, RowFields DEF HasStatus
  <2> QED
    BY <2>1, <2>2 DEF IdsAsGenerated
<1> QED
  BY <1>3, <1>4, <1>5, <1>6, <1>7 DEF AnyTime, Effect

(* Reconciliation.RejectedIsReleased fails for good: with ids as they are  *)
(* generated, no withdrawal the partner has rejected is ever released,     *)
(* whoever tries and however often, as the refund looks the wallet up by   *)
(* the id of a wallet.                                                     *)
THEOREM RefundsNeverFound == IdsAsGenerated => (Spec => []RejectedStaysOpen)
<1> SUFFICES ASSUME IdsAsGenerated PROVE Spec => []RejectedStaysOpen
  OBVIOUS
<1>1. Init => RejectedStaysOpen
  BY DEF Init, SagaInit, RejectedStaysOpen
<1>2. SagaInv /\ RejectedStaysOpen /\ [Next]_vars => RejectedStaysOpen'
  BY StepRejected
<1> QED
  BY <1>1, <1>2, AlwaysSaga, PTL DEF Spec
-----------------------------------------------------------------------------
(* What runs have resolved stays resolved, and is in the table, about to   *)
(* be recorded, or lost to a kill.                                         *)
Resolved == {"SUCCESSFUL", "FAILED"}

ReportInv ==
    /\ IsFiniteSet(byRuns)
    /\ ReportedByRuns
    /\ \A r \in Runners : rpc[r] = "record" => current[r] \in byRuns

LEMMA InitReport == Init => ReportInv
<1> SUFFICES ASSUME Init PROVE ReportInv
  OBVIOUS
<1>1. byRuns = {} /\ Unreported = {}
  BY DEF Init, RunInit, Unreported
<1> QED
  BY <1>1, FS_EmptySet DEF Init, RunInit, ReportInv, ReportedByRuns

LEMMA ResolvedStays ==
    ASSUME SagaInv, [Next]_vars, NEW k \in Keys, HasStatus(k, Resolved)
    PROVE  HasStatus(k, Resolved)'
  BY StepForward DEF MovesForward, HasStatus, Resolved, Forward

(* A step that adds no unreported withdrawal.                              *)
LEMMA NoneLost ==
    ASSUME SagaInv, ReportInv, [Next]_vars,
           byRuns' = byRuns \/ \E k \in Keys : byRuns' = byRuns \cup {k}
                                               /\ HasStatus(k, Resolved)',
           discrepancies' \ {Mismatch} \subseteq byRuns',
           Unreported' \subseteq Unreported, deaths' >= deaths, deaths' \in Nat,
           \A r \in Runners : rpc'[r] = "record" => current'[r] \in byRuns'
    PROVE  ReportInv'
<1>1. byRuns \subseteq Keys /\ deaths \in Nat
  BY DEF SagaInv, RunsTypeOK
<1>2. IsFiniteSet(byRuns')
  BY FS_AddElement DEF ReportInv
<1>3. Cardinality(Unreported') <= deaths'
  <2>1. IsFiniteSet(Unreported)
    BY FS_Subset DEF Unreported, ReportInv
  <2>2. /\ IsFiniteSet(Unreported')
        /\ Cardinality(Unreported') <= Cardinality(Unreported)
    BY <2>1, FS_Subset
  <2> QED
    BY <1>1, <2>1, <2>2, FS_CardinalityType DEF ReportInv, ReportedByRuns
<1>4. \A k \in byRuns' : HasStatus(k, Resolved)'
  BY <1>1, ResolvedStays DEF ReportInv, ReportedByRuns, Resolved
<1> QED
  BY <1>2, <1>3, <1>4 DEF ReportInv, ReportedByRuns, Resolved

LEMMA StepReport == SagaInv /\ ReportInv /\ [Next]_vars => ReportInv'
<1> SUFFICES ASSUME SagaInv, ReportInv, [Next]_vars PROVE ReportInv'
  OBVIOUS
<1>1. /\ rpc \in [Runners -> Resting \cup Running]
      /\ current \in [Runners -> Keys \cup {NoKey}]
      /\ deaths \in Nat
      /\ discrepancies \ {Mismatch} \subseteq byRuns
      /\ \A r \in Runners : rpc[r] = "record" => current[r] \in byRuns
  BY DEF SagaInv, RunsTypeOK, ReportInv, ReportedByRuns
<1>2. ASSUME UNCHANGED runVars PROVE ReportInv'
  <2>1. Unreported' = Unreported
    BY <1>2 DEF runVars, Unreported
  <2> QED
    BY <1>1, <1>2, <2>1, NoneLost DEF runVars
<1>3. ASSUME NEW r \in Runners, SettleStuck(r) \/ ReleaseStuck(r)
      PROVE  ReportInv'
  <2>1. /\ current[r] \in Keys /\ byRuns' = byRuns \cup {current[r]}
        /\ rpc' = [rpc EXCEPT ![r] = "record"]
        /\ UNCHANGED <<current, discrepancies, deaths>>
    BY <1>3 DEF SettleStuck, ReleaseStuck, SagaInv, RunnersSound, Proceed
  <2>2. \E k \in Keys : k = current[r] /\ HasStatus(k, Resolved)'
    <3>1. PICK s \in Resolved : /\ rows[current[r]] # NoRow
                                /\ SetStatus(current[r], s)
      BY <1>3 DEF SettleStuck, ReleaseStuck, SettleTx, ReleaseTx, SagaInv,
                  RunnersSound, HasStatus, Resolved
    <3>2. /\ rows'[current[r]] \in Rows /\ rows'[current[r]].status = s
      BY ZenonT(40), <2>1, <3>1, StatusSet DEF SagaInv, RunsTypeOK, SagaTypeOK, Resolved, Statuses
    <3> QED
      BY <2>1, <3>1, <3>2, RowAssumption DEF HasStatus
  <2>3. \A p \in Runners : /\ rpc[p] = "record" => rpc'[p] = "record"
                           /\ rpc'[p] = "record" => rpc[p] = "record" \/ p = r
    BY <1>1, <2>1
  <2>4. rpc'[r] = "record"
    BY <1>1, <2>1
  <2>5. Unreported' \subseteq Unreported
    BY <2>1, <2>3, <2>4 DEF Unreported
  <2>6. \A p \in Runners : rpc'[p] = "record" => current'[p] \in byRuns'
    BY <1>1, <2>1, <2>3
  <2>7. discrepancies' \ {Mismatch} \subseteq byRuns' /\ deaths' \in Nat
    BY <1>1, <2>1
  <2>8. deaths' >= deaths
    BY <1>1, <2>1
  <2> QED
    BY <2>1, <2>2, <2>5, <2>6, <2>7, <2>8, NoneLost
<1>4. ASSUME NEW r \in Runners, Record(r)
      PROVE  ReportInv'
  <2>1. /\ discrepancies' = discrepancies \cup {current[r]}
        /\ rpc[r] = "record" /\ rpc' = [rpc EXCEPT ![r] = "requery"]
        /\ UNCHANGED <<current, byRuns, deaths>>
    BY <1>4 DEF Record, Proceed
  <2>2. \A p \in Runners : rpc'[p] = IF p = r THEN "requery" ELSE rpc[p]
    BY <1>1, <2>1
  <2>3. Unreported' \subseteq Unreported
    BY <2>1, <2>2 DEF Unreported
  <2> QED
    BY <1>1, <2>1, <2>2, <2>3, NoneLost
<1>5. ASSUME NEW r \in Runners, KillRun(r)
      PROVE  ReportInv'
  <2>1. /\ rpc' = [rpc EXCEPT ![r] = "killed"]
        /\ current' = [current EXCEPT ![r] = NoKey]
        /\ deaths' = deaths + 1
        /\ UNCHANGED <<byRuns, discrepancies, rows>>
    BY <1>5 DEF KillRun, EndRun, Proceed, sagaVars
  <2>2. \A p \in Runners :
            /\ rpc'[p] = IF p = r THEN "killed" ELSE rpc[p]
            /\ p # r => current'[p] = current[p]
    BY <1>1, <2>1
  <2>3. Unreported' \subseteq Unreported \cup {current[r]}
    BY <2>1, <2>2 DEF Unreported
  <2>4. IsFiniteSet(Unreported)
    BY FS_Subset DEF Unreported, ReportInv
  <2>5. /\ IsFiniteSet(Unreported \cup {current[r]})
        /\ Cardinality(Unreported \cup {current[r]}) <= Cardinality(Unreported) + 1
    BY <2>4, FS_AddElement, FS_CardinalityType
  <2>6. /\ Cardinality(Unreported') <= Cardinality(Unreported \cup {current[r]})
        /\ Cardinality(Unreported') \in Nat
    BY <2>3, <2>5, FS_Subset, FS_CardinalityType
  <2>7. Cardinality(Unreported') <= deaths'
    BY <1>1, <2>1, <2>4, <2>5, <2>6, FS_CardinalityType DEF ReportInv, ReportedByRuns
  <2> QED
    BY <1>1, <2>1, <2>2, <2>7 DEF ReportInv, ReportedByRuns, HasStatus
<1>6. ASSUME NEW r \in Runners,
             \/ StartRun(r) \/ Snapshot(r) \/ Requery(r) \/ RunThrows(r)
             \/ ReadInternal(r) \/ CompareExternal(r)
             \/ CompleteRun(r) \/ AuditRun(r)
      PROVE  ReportInv'
  <2>1. /\ UNCHANGED <<byRuns, deaths>>
        /\ discrepancies' \in {discrepancies, discrepancies \cup {Mismatch}}
        /\ rpc[r] # "record"
    BY <1>6 DEF StartRun, Snapshot, Requery, RunThrows, ReadInternal,
                CompareExternal, CompleteRun, AuditRun, Resting
  <2>2. \E where : where # "record" /\ rpc' = [rpc EXCEPT ![r] = where]
    BY <1>6 DEF StartRun, Snapshot, Requery, RunThrows, ReadInternal,
                CompareExternal, CompleteRun, AuditRun, Proceed, EndRun,
                AfterVerdict
  <2>3. \A p \in Runners : p # r => current'[p] = current[p]
    BY <1>1, <1>6 DEF StartRun, Snapshot, Requery, RunThrows, ReadInternal,
                      CompareExternal, CompleteRun, AuditRun, EndRun
  <2>4. \A p \in Runners : /\ p # r => rpc'[p] = rpc[p]
                           /\ rpc'[p] = "record" => p # r
    BY <1>1, <2>2
  <2>5. Unreported' \subseteq Unreported
    BY <2>1, <2>3, <2>4 DEF Unreported
  <2> QED
    BY <1>1, <2>1, <2>3, <2>4, <2>5, NoneLost
<1> QED
  BY <1>2, <1>3, <1>4, <1>5, <1>6 DEF Next, RunStep, vars

(* Reconciliation.ReportedByRuns: what the discrepancy table holds a run   *)
(* has resolved, and it misses at most one withdrawal for each run that    *)
(* was killed, whatever overlaps.                                          *)
THEOREM ResolutionsReported == Spec => []ReportedByRuns
<1>1. ReportInv => ReportedByRuns
  BY DEF ReportInv
<1> QED
  BY <1>1, InitReport, StepReport, AlwaysSaga, PTL DEF Spec
-----------------------------------------------------------------------------
(* If a run looks only at what nobody works on, a withdrawal is resolved   *)
(* by one request or run.                                                  *)
Busy == Running \ {"snapshot"}

Claimed(r) ==
    todo[r] \cup IF rpc[r] \in {"settle", "release"} THEN {current[r]} ELSE {}

ResolveOnce ==
    \A h \in Handlers :
        pc[h] \in {"settle", "release"} => HasStatus(KeyOf(h), {"PROCESSING"})

ClaimsAlone ==
    \A r \in Runners :
        /\ rpc[r] \notin Busy => todo[r] = {}
        /\ rpc[r] \in {"settle", "release"} => current[r] \notin todo[r]
        /\ \A k \in Claimed(r) :
              /\ HasStatus(k, {"PROCESSING"})
              /\ \A h \in Handlers : pc[h] \in Past => KeyOf(h) # k

OneRun == \A r, p \in Runners : rpc[r] \in Busy /\ rpc[p] \in Busy => r = p

AloneInv == ResolveOnce /\ ClaimsAlone /\ OneRun

LEMMA InitAlone == Init => AloneInv
  BY DEF Init, SagaInit, RunInit, AloneInv, ResolveOnce, ClaimsAlone, OneRun,
         Busy, Claimed, Running, Past

(* Steps of a request: it stays at work on its withdrawal or ends, and if  *)
(* it changes a row then that of a withdrawal no run has claimed.          *)
LEMMA RequestAlone ==
    ASSUME SagaInv, AloneInv, UNCHANGED runVars,
           \A k, r : r \in Runners /\ k \in Claimed(r) => rows'[k] = rows[k],
           \A h \in Handlers : pc'[h] \in Past =>
               \/ pc[h] \in Past /\ KeyOf(h)' = KeyOf(h)
               \/ \A r \in Runners : KeyOf(h)' \notin Claimed(r),
           \A h \in Handlers : pc'[h] \in {"settle", "release"} =>
               HasStatus(KeyOf(h), {"PROCESSING"})'
    PROVE  AloneInv'
<1>1. ResolveOnce'
  BY DEF ResolveOnce
<1>2. /\ todo' = todo /\ current' = current /\ rpc' = rpc
      /\ \A r \in Runners : Claimed(r)' = Claimed(r)
  BY DEF runVars, Claimed
<1>3. \A k, r : r \in Runners /\ k \in Claimed(r) /\ HasStatus(k, {"PROCESSING"})
          => HasStatus(k, {"PROCESSING"})'
  BY DEF HasStatus
<1>4. ClaimsAlone'
  BY <1>2, <1>3 DEF AloneInv, ClaimsAlone
<1>5. OneRun'
  BY <1>2 DEF AloneInv, OneRun
<1> QED
  BY <1>1, <1>4, <1>5 DEF AloneInv

LEMMA HandlerAlone ==
    ASSUME SagaInv, AloneInv, NEW h \in Handlers, UNCHANGED runVars,
           \/ ReturnExisting(h) \/ RefuseNoWallet(h) \/ Admit(h)
           \/ HandlerStep(h) \/ Die(h)
    PROVE  AloneInv'
<1>1. /\ rows \in [Keys -> Rows \cup {NoRow}]
      /\ pc \in [Handlers -> Underway \cup {"idle", "done", "failed", "dead"}]
      /\ request \in [Handlers -> Requests \cup {NoRequest}]
      /\ \A g \in Handlers : pc[g] \in Underway => KeyOf(g) \in Keys
  BY RequestFields DEF SagaInv, RunsTypeOK, SagaTypeOK, HandlersSound, KeyOf
<1>2. ASSUME NEW g \in Handlers, NEW r \in Runners, pc[g] \in Past
      PROVE  KeyOf(g) \notin Claimed(r)
  BY <1>2 DEF AloneInv, ClaimsAlone
<1>3. ASSUME NEW q, NEW where \in {"reserve", "done", "failed"}, Arrive(h, q, where)
      PROVE  AloneInv'
  <2>1. ASSUME NEW g \in Handlers, pc'[g] \in Past
        PROVE  pc'[g] = pc[g] /\ KeyOf(g)' = KeyOf(g) /\ rows' = rows
    BY <1>1, <1>3, <2>1 DEF Arrive, Goto, KeyOf, Past
  <2>2. rows' = rows
    BY <1>3 DEF Arrive
  <2>3. ASSUME NEW g \in Handlers, pc'[g] \in {"settle", "release"}
        PROVE  HasStatus(KeyOf(g), {"PROCESSING"})'
    BY <2>1, <2>2, <2>3 DEF Past, AloneInv, ResolveOnce, HasStatus
  <2> QED
    BY <2>1, <2>2, <2>3, RequestAlone
<1>4. ASSUME NEW where, Goto(h, where), UNCHANGED <<rows, request>>,
             where \notin Past \/ pc[h] \in Past,
             where \in {"settle", "release"} => HasStatus(KeyOf(h), {"PROCESSING"})
      PROVE  AloneInv'
  <2>1. \A g \in Handlers : /\ KeyOf(g)' = KeyOf(g)
                            /\ pc'[g] = IF g = h THEN where ELSE pc[g]
    BY <1>1, <1>4 DEF Goto, KeyOf
  <2>2. ASSUME NEW g \in Handlers, pc'[g] \in {"settle", "release"}
        PROVE  HasStatus(KeyOf(g), {"PROCESSING"})'
    BY <1>4, <2>1, <2>2 DEF AloneInv, ResolveOnce, HasStatus
  <2> QED
    BY <1>4, <2>1, <2>2, RequestAlone
<1>5. ASSUME NEW k \in Keys, NEW where \in {"mark", "send", "done"}, Goto(h, where),
             request' = request, k = KeyOf(h),
             \A j \in Keys : j # k => rows'[j] = rows[j],
             \A r \in Runners : k \notin Claimed(r),
             \A g \in Handlers : g # h /\ pc[g] \in Past => KeyOf(g) # k
      PROVE  AloneInv'
  <2>1. \A g \in Handlers : /\ KeyOf(g)' = KeyOf(g)
                            /\ pc'[g] = IF g = h THEN where ELSE pc[g]
    BY <1>1, <1>5 DEF Goto, KeyOf
  <2>2. ASSUME NEW g \in Handlers, pc'[g] \in {"settle", "release"}
        PROVE  HasStatus(KeyOf(g), {"PROCESSING"})'
    <3>1. g # h /\ pc[g] = pc'[g] /\ KeyOf(g) # k /\ KeyOf(g) \in Keys
      BY <1>1, <1>5, <2>1, <2>2 DEF Past, Underway
    <3>2. HasStatus(KeyOf(g), {"PROCESSING"})
      BY <2>2, <3>1 DEF AloneInv, ResolveOnce
    <3> QED
      BY <1>5, <2>1, <3>1, <3>2 DEF HasStatus
  <2>3. ASSUME NEW r \in Runners, NEW j \in Claimed(r) PROVE rows'[j] = rows[j]
    <3>1. j \in Keys /\ j # k
      BY <1>5 DEF Claimed, SagaInv, RunsTypeOK, RunnersSound
    <3> QED
      BY <1>5, <3>1
  <2>4. ASSUME NEW g \in Handlers, pc'[g] \in Past
        PROVE  \/ pc[g] \in Past /\ KeyOf(g)' = KeyOf(g)
               \/ \A r \in Runners : KeyOf(g)' \notin Claimed(r)
    BY <1>5, <2>1, <2>4
  <2> QED
    BY <2>2, <2>3, <2>4, RequestAlone
<1>6. CASE Reserve(h)
  <2>1. PICK k \in Keys : k = KeyOf(h)
    BY <1>1, <1>6 DEF Reserve, Underway
  <2>2. rows[k] = NoRow /\ \A j \in Keys : j # k => rows'[j] = rows[j]
    BY <1>1, <1>6, <2>1 DEF Reserve, CreateRow
  <2>3. \A r \in Runners : k \notin Claimed(r)
    BY <2>2 DEF AloneInv, ClaimsAlone, HasStatus
  <2>4. \A g \in Handlers : pc[g] \in Past => KeyOf(g) # k
    BY <2>2 DEF SagaInv, HandlersSound, HasStatus, Past
  <2> QED
    BY <1>5, <1>6, <2>1, <2>2, <2>3, <2>4 DEF Reserve
<1>7. ASSUME NEW s \in Statuses, SetStatus(KeyOf(h), s), pc[h] \in Past,
             NEW where \in {"send", "done"}, Goto(h, where), request' = request
      PROVE  AloneInv'
  <2>1. PICK k \in Keys : k = KeyOf(h)
    BY <1>1, <1>7 DEF Past, Underway
  <2>2. \A j \in Keys : j # k => rows'[j] = rows[j]
    BY <1>1, <1>7, <2>1 DEF SetStatus
  <2>3. \A r \in Runners : k \notin Claimed(r)
    BY <1>2, <1>7, <2>1
  <2>4. \A g \in Handlers : g # h /\ pc[g] \in Past => KeyOf(g) # k
    BY <1>7, <2>1 DEF SagaInv, HandlersSound
  <2> QED
    BY <1>5, <1>7, <2>1, <2>2, <2>3, <2>4
<1>8. CASE MarkProcessing(h) \/ Settle(h) \/ Release(h)
  BY <1>7, <1>8
     DEF MarkProcessing, Settle, Release, SettleTx, ReleaseTx, Past, Statuses
<1>9. CASE AskPartner(h)
  <2>1. HasStatus(KeyOf(h), {"PROCESSING"})
    BY <1>9 DEF AskPartner, SagaInv, HandlersSound
  <2> QED
    BY <1>4, <1>9, <2>1 DEF AskPartner, Past
<1>10. CASE RefuseReserve(h) \/ ResolveThrows(h) \/ Die(h)
  BY <1>4, <1>10 DEF RefuseReserve, ResolveThrows, Die, Past
<1> QED
  BY <1>3, <1>6, <1>8, <1>9, <1>10
     DEF ReturnExisting, RefuseNoWallet, Admit, HandlerStep

(* Steps of a run: the runner that moves is busy alone, and what it claims *)
(* it had claimed or nobody is at work on.                                 *)
LEMMA RunnerAlone ==
    ASSUME SagaInv, AloneInv, NEW r \in Runners,
           UNCHANGED <<pc, request>>,
           \A p \in Runners : p # r =>
               /\ rpc'[p] = rpc[p] /\ todo'[p] = todo[p]
               /\ current'[p] = current[p]
               /\ \A k \in Claimed(p) : rows'[k] = rows[k],
           \A h \in Handlers : pc[h] \in {"settle", "release"} =>
               rows'[KeyOf(h)] = rows[KeyOf(h)],
           rpc'[r] \in Busy =>
               rpc[r] \in Busy \/ \A p \in Runners : rpc[p] \notin Busy,
           rpc'[r] \notin Busy => todo'[r] = {},
           rpc'[r] \in {"settle", "release"} => current'[r] \notin todo'[r],
           \A k \in Claimed(r)' :
               /\ HasStatus(k, {"PROCESSING"})'
               /\ \A h \in Handlers : pc[h] \in Past => KeyOf(h) # k
    PROVE  AloneInv'
<1>1. \A h \in Handlers : pc'[h] = pc[h] /\ KeyOf(h)' = KeyOf(h)
  BY DEF KeyOf
<1>2. ResolveOnce'
  BY <1>1 DEF AloneInv, ResolveOnce, HasStatus
<1>3. ClaimsAlone'
  <2>1. ASSUME NEW p \in Runners, p # r
        PROVE  /\ Claimed(p)' = Claimed(p)
               /\ \A k \in Claimed(p) : HasStatus(k, {"PROCESSING"})'
    BY <2>1 DEF Claimed, AloneInv, ClaimsAlone, HasStatus
  <2>2. ASSUME NEW p \in Runners
        PROVE  /\ rpc'[p] \notin Busy => todo'[p] = {}
               /\ rpc'[p] \in {"settle", "release"} => current'[p] \notin todo'[p]
               /\ \A k \in Claimed(p)' :
                     /\ HasStatus(k, {"PROCESSING"})'
                     /\ \A h \in Handlers : pc'[h] \in Past => KeyOf(h)' # k
    BY <1>1, <2>1 DEF AloneInv, ClaimsAlone
  <2> QED
    BY <2>2 DEF ClaimsAlone
<1>4. OneRun'
  BY DEF AloneInv, OneRun
<1> QED
  BY <1>2, <1>3, <1>4 DEF AloneInv

LEMMA RunAlone ==
    ASSUME SagaInv, AloneInv, ~Overlap, NEW r \in Runners,
           StartRun(r) \/ RunStep(r) \/ KillRun(r)
    PROVE  AloneInv'
<1>1. /\ rpc \in [Runners -> Resting \cup Running]
      /\ todo \in [Runners -> SUBSET Keys]
      /\ current \in [Runners -> Keys \cup {NoKey}]
      /\ rows \in [Keys -> Rows \cup {NoRow}]
  BY DEF SagaInv, RunsTypeOK, SagaTypeOK
<1>2. Busy = {"requery", "settle", "release", "record",
              "balance", "compare", "complete", "audit"}
  BY DEF Busy, Running
<1>3. /\ rpc[r] \notin Busy => todo[r] = {}
      /\ \A k \in Claimed(r) :
            /\ HasStatus(k, {"PROCESSING"})
            /\ \A h \in Handlers : pc[h] \in Past => KeyOf(h) # k
  BY DEF AloneInv, ClaimsAlone
(* It goes on with what is left of its snapshot, if anything.              *)
<1>4. ASSUME UNCHANGED <<sagaVars, current>>, NEW where, Proceed(r, where),
             where \notin {"settle", "release"},
             where \in Busy => rpc[r] \in Busy,
             NEW S \in SUBSET todo[r], todo' = [todo EXCEPT ![r] = S],
             where \notin Busy => S = {}
      PROVE  AloneInv'
  <2>1. /\ rpc'[r] = where /\ todo'[r] = S /\ Claimed(r)' = S
        /\ \A p \in Runners : p # r => rpc'[p] = rpc[p] /\ todo'[p] = todo[p]
    BY <1>1, <1>4 DEF Proceed, Claimed
  <2>2. S \subseteq Claimed(r)
    BY <1>4 DEF Claimed
  <2>3. \A k : HasStatus(k, {"PROCESSING"})' <=> HasStatus(k, {"PROCESSING"})
    BY <1>4 DEF HasStatus, sagaVars
  <2> QED
    BY <1>3, <1>4, <2>1, <2>2, <2>3, RunnerAlone DEF sagaVars
<1>5. ASSUME NEW where \in Resting, EndRun(r, where), UNCHANGED sagaVars
      PROVE  AloneInv'
  <2>1. /\ rpc'[r] = where /\ todo'[r] = {} /\ Claimed(r)' = {}
        /\ \A p \in Runners : p # r => /\ rpc'[p] = rpc[p] /\ todo'[p] = todo[p]
                                       /\ current'[p] = current[p]
        /\ where \notin Busy /\ where \notin {"settle", "release"}
    BY <1>1, <1>2, <1>5 DEF EndRun, Proceed, Claimed, Resting
  <2> QED
    BY <1>5, <2>1, RunnerAlone DEF sagaVars
<1>6. CASE StartRun(r)
  <2>1. todo[r] = {} /\ todo' = [todo EXCEPT ![r] = {}]
    BY <1>1, <1>2, <1>3, <1>6 DEF StartRun, Resting
  <2> QED
    BY <1>2, <1>4, <1>6, <2>1 DEF StartRun
<1>7. CASE Snapshot(r)
  <2>1. /\ Quiet /\ rpc[r] = "snapshot" /\ UNCHANGED <<sagaVars, current>>
        /\ rpc'[r] = "requery" /\ todo'[r] = KeysWith({"PROCESSING"})
        /\ \A p \in Runners : p # r => rpc'[p] = rpc[p] /\ todo'[p] = todo[p]
    BY <1>1, <1>7 DEF Snapshot, Proceed
  <2>2. Claimed(r)' = KeysWith({"PROCESSING"})
    BY <2>1 DEF Claimed
  <2>3. \A p \in Runners : rpc[p] \notin Busy
    BY <1>2, <2>1 DEF Quiet, Resting
  <2>4. ASSUME NEW k \in KeysWith({"PROCESSING"})
        PROVE  /\ HasStatus(k, {"PROCESSING"})'
               /\ \A h \in Handlers : pc[h] \in Past => KeyOf(h) # k
    <3>1. HasStatus(k, {"PROCESSING"})
      BY DEF KeysWith
    <3>2. \A h \in Handlers : pc[h] \in Past => pc[h] = "mark"
      BY <2>1 DEF Quiet, Past
    <3>3. \A h \in Handlers : pc[h] = "mark" => KeyOf(h) # k
      BY <3>1 DEF SagaInv, HandlersSound, HasStatus
    <3> QED
      BY <2>1, <3>1, <3>2, <3>3 DEF HasStatus, sagaVars
  <2>5. "requery" \in Busy
    BY <1>2
  <2> QED
    BY <2>1, <2>2, <2>3, <2>4, <2>5, RunnerAlone DEF sagaVars
<1>8. CASE Requery(r)
  <2>1. PICK k \in todo[r] :
            /\ todo' = [todo EXCEPT ![r] = @ \ {k}]
            /\ current' = [current EXCEPT ![r] = k]
            /\ rpc' = [rpc EXCEPT ![r] =
                          AfterVerdict(VerdictOf(rail[k]), "requery")]
    BY <1>8 DEF Requery, Proceed
  <2>2. /\ todo'[r] = todo[r] \ {k} /\ current'[r] = k
        /\ \A p \in Runners : p # r => /\ rpc'[p] = rpc[p] /\ todo'[p] = todo[p]
                                       /\ current'[p] = current[p]
    BY <1>1, <2>1
  <2>3. Claimed(r)' \subseteq todo[r] /\ todo[r] \subseteq Claimed(r)
    BY <2>2 DEF Claimed
  <2>4. rpc[r] \in Busy /\ rpc'[r] \in Busy
    BY <1>1, <1>2, <1>8, <2>1 DEF Requery, AfterVerdict
  <2>5. \A j : HasStatus(j, {"PROCESSING"})' <=> HasStatus(j, {"PROCESSING"})
    BY <1>8 DEF Requery, HasStatus, sagaVars
  <2>6. UNCHANGED <<pc, request, rows>>
    BY <1>8 DEF Requery, sagaVars
  <2> QED
    BY <1>3, <2>2, <2>3, <2>4, <2>5, <2>6, RunnerAlone
<1>9. CASE SettleStuck(r) \/ ReleaseStuck(r)
  <2>1. PICK k \in Keys : k = current[r]
    BY <1>9 DEF SettleStuck, ReleaseStuck, SagaInv, RunnersSound
  <2>2. /\ rpc[r] \in {"settle", "release"}
        /\ rpc' = [rpc EXCEPT ![r] = "record"]
        /\ UNCHANGED <<pc, request, todo, current>>
        /\ \A j \in Keys : j # k => rows'[j] = rows[j]
    BY <1>1, <1>9, <2>1 DEF SettleStuck, ReleaseStuck, Proceed, SettleTx,
                            ReleaseTx, SetStatus
  <2>3. k \in Claimed(r) /\ k \notin todo[r] /\ todo[r] \subseteq Claimed(r)
    BY <2>1, <2>2 DEF Claimed, AloneInv, ClaimsAlone
  <2>4. \A h \in Handlers : pc[h] \in Past => KeyOf(h) # k /\ KeyOf(h) \in Keys
    BY <1>3, <2>3, RequestFields DEF SagaInv, HandlersSound, Past, Underway, KeyOf
  <2>5. ASSUME NEW p \in Runners, p # r
        PROVE  rpc'[p] = rpc[p] /\ Claimed(p) = {}
    <3>1. rpc[p] \notin Busy
      BY <1>2, <2>2, <2>5 DEF AloneInv, OneRun
    <3>2. todo[p] = {} /\ rpc[p] \notin {"settle", "release"}
      BY <1>2, <3>1 DEF AloneInv, ClaimsAlone
    <3> QED
      BY <1>1, <2>2, <2>5, <3>2 DEF Claimed
  <2>6. rpc'[r] = "record" /\ Claimed(r)' = todo[r] /\ rpc[r] \in Busy
    BY <1>1, <1>2, <2>2 DEF Claimed
  <2>7. ASSUME NEW j \in todo[r]
        PROVE  HasStatus(j, {"PROCESSING"})'
    <3>1. j \in Keys /\ j # k /\ HasStatus(j, {"PROCESSING"})
      BY <1>1, <1>3, <2>3
    <3> QED
      BY <2>2, <3>1 DEF HasStatus
  <2>8. "record" \in Busy
    BY <1>2
  <2>9. \A h \in Handlers : pc[h] \in {"settle", "release"} =>
            rows'[KeyOf(h)] = rows[KeyOf(h)]
    BY <2>2, <2>4 DEF Past
  <2>10. \A j \in Claimed(r)' : /\ HasStatus(j, {"PROCESSING"})'
                                /\ \A h \in Handlers : pc[h] \in Past => KeyOf(h) # j
    BY <1>3, <2>3, <2>6, <2>7
  <2> QED
    BY <2>2, <2>5, <2>6, <2>8, <2>9, <2>10, RunnerAlone
<1>10. CASE Record(r) \/ CompareExternal(r) \/ CompleteRun(r) \/ ReadInternal(r)
  <2>1. todo' = [todo EXCEPT ![r] = todo[r]]
    BY <1>1, <1>10 DEF Record, CompareExternal, CompleteRun, ReadInternal
  <2> QED
    BY <1>2, <1>4, <1>10, <2>1 DEF Record, CompareExternal, CompleteRun, ReadInternal
<1>11. CASE RunThrows(r) \/ AuditRun(r) \/ KillRun(r)
  BY <1>5, <1>11 DEF RunThrows, AuditRun, KillRun, Resting
<1> QED
  BY <1>6, <1>7, <1>8, <1>9, <1>10, <1>11 DEF RunStep

LEMMA StepAlone == ~Overlap /\ SagaInv /\ AloneInv /\ [Next]_vars => AloneInv'
<1> SUFFICES ASSUME ~Overlap, SagaInv, AloneInv, [Next]_vars PROVE AloneInv'
  OBVIOUS
<1>1. CASE UNCHANGED <<rows, pc, request, runVars>>
  BY <1>1 DEF AloneInv, ResolveOnce, ClaimsAlone, OneRun, Claimed, KeyOf,
              HasStatus, runVars
<1>2. CASE UNCHANGED vars
  BY <1>1, <1>2 DEF vars, sagaVars
<1>3. CASE \E k \in Keys : Decide(k) /\ UNCHANGED runVars
  BY <1>1, <1>3 DEF Decide
<1>4. CASE Funds
  BY <1>1, <1>4, FundsSplit
<1> QED
  BY <1>2, <1>3, <1>4, HandlerAlone, RunAlone, EitherStep DEF Moves, SagaStep

LEMMA AlwaysAlone == ~Overlap => (Spec => []AloneInv)
<1> SUFFICES ASSUME ~Overlap PROVE Spec => []AloneInv
  OBVIOUS
<1>1. Init => AloneInv
  BY InitAlone
<1>2. SagaInv /\ AloneInv /\ [Next]_vars => AloneInv'
  BY StepAlone
<1> QED
  BY <1>1, <1>2, AlwaysSaga, PTL DEF Spec

(* Then a row is settled or released once.                                 *)
FirstTime == Effect({"PROCESSING"}, {"PROCESSING"})

LEMMA OneEffect ==
    SagaInv /\ AloneInv /\ [Next]_vars =>
        Funds \/ (FirstTime /\ deposits' = deposits)
<1> SUFFICES ASSUME SagaInv, AloneInv, Moves PROVE FirstTime
  BY EitherStep
<1> QED
  BY StepEffect DEF AloneInv, ResolveOnce, ClaimsAlone, Claimed, FirstTime
-----------------------------------------------------------------------------
Sent == {k \in Keys : rail[k] = "sent"}

(* Runs that are about to compare have read no less than is there now, but *)
(* for the deposits posted since.                                          *)
Watched ==
    \A r \in Runners : rpc[r] = "compare" =>
        Balance(Pool) - Received(Entered) <= internal[r] - Received(seen[r])

MoneyInv == PendingCovers /\ DebitedOnce /\ DriftIsInFlight

(* How far each of the three is from being met without regard to deposits, *)
(* and how far the second and the third are with them.                     *)
Shortfall  == AmountOf(Open) - Balance(Pending)
Unclaimed  == AmountOf(InFlight) + OpeningCash - AmountOf(Sent) - Balance(Pool)
Surplus(w) == Balance(w) + AmountOf(PaidFrom(w)) - OpeningBalance[w]

Missing  == Unclaimed + Received(Arrived) - Received(Unposted)
Extra(w) == Surplus(w) - Received(PaidInto(w))

SameGaps ==
    /\ Shortfall' = Shortfall /\ Unclaimed' = Unclaimed
    /\ \A w \in Wallets : Surplus(w)' = Surplus(w)

SameErrors ==
    /\ Shortfall' = Shortfall /\ Missing' = Missing
    /\ \A w \in Wallets : Extra(w)' = Extra(w)

ErrsOneWay ==
    Shortfall >= 0 /\ Missing >= 0 /\ \A w \in Wallets : Extra(w) >= 0

(* What a run reads of the pool, less the deposits in it.                  *)
OwnPool == Balance(Pool) - Received(Entered)

LEMMA DepositSets ==
    /\ Arrived \in SUBSET Deposits /\ Entered \in SUBSET Deposits
    /\ Unposted \in SUBSET Deposits
    /\ \A w : PaidInto(w) \in SUBSET Deposits
  BY DEF Arrived, Entered, Unposted, PaidInto

LEMMA ReceivedSums ==
    ASSUME NEW S \in SUBSET Deposits, NEW d \in Deposits
    PROVE  /\ Received(S) \in Int
           /\ d \notin S => Received(S \cup {d}) = Received(S) + DepositOf[d].amount
           /\ d \in S => Received(S \ {d}) = Received(S) - DepositOf[d].amount
<1> DEFINE f == [c \in Deposits |-> DepositOf[c].amount]
<1>1. /\ IsFiniteSet(S) /\ \A c \in S : f[c] \in Int
      /\ f[d] \in Int /\ f[d] = DepositOf[d].amount
  BY DepositFields
<1>2. \A T : Received(T) = SumFunctionOnSet(f, T)
  BY DEF Received
<1> HIDE DEF f
<1>3. d \notin S => SumFunctionOnSet(f, S \cup {d}) = SumFunctionOnSet(f, S) + f[d]
  BY <1>1, SumWith
<1>4. d \in S => SumFunctionOnSet(f, S \ {d}) = SumFunctionOnSet(f, S) - f[d]
  BY <1>1, SumWithout
<1> QED
  BY <1>1, <1>2, <1>3, <1>4, SumInt

LEMMA ReceivedInt == \A S \in SUBSET Deposits : Received(S) \in Int
<1> SUFFICES ASSUME NEW S \in SUBSET Deposits PROVE Received(S) \in Int
  OBVIOUS
<1>1. CASE S = {}
  BY <1>1, SumEmpty DEF Received
<1>2. CASE \E d : d \in S
  BY <1>2, ReceivedSums
<1> QED
  BY <1>1, <1>2

LEMMA ReceivedApart ==
    ASSUME NEW S \in SUBSET Deposits, NEW T \in SUBSET Deposits, S \cap T = {}
    PROVE  Received(S \cup T) = Received(S) + Received(T)
<1> DEFINE f == [c \in Deposits |-> DepositOf[c].amount]
<1>1. /\ IsFiniteSet(S) /\ IsFiniteSet(T)
      /\ \A c \in S \cup T : f[c] \in Int
  BY DepositFields
<1>2. \A U : Received(U) = SumFunctionOnSet(f, U)
  BY DEF Received
<1> HIDE DEF f
<1> QED
  BY <1>1, <1>2, SumUnion

LEMMA MoneySets ==
    /\ Open \subseteq Keys /\ Sent \subseteq Keys /\ InFlight \subseteq Keys
    /\ \A w : PaidFrom(w) \subseteq Keys
    /\ \A S \in SUBSET Keys : IsFiniteSet(S)
  BY FiniteAssumption, FS_Subset DEF Open, Sent, InFlight, PaidFrom, KeysWith

LEMMA AmountIsNat ==
    ASSUME NEW table \in [Keys -> Rows \cup {NoRow}]
    PROVE  [k \in Keys |-> IF table[k] = NoRow THEN 0 ELSE table[k].amount]
               \in [Keys -> Nat]
  BY RowFields

LEMMA OpeningIsInt == OpeningCash \in Int
  BY FiniteAssumption, WalletAssumption, SumInt DEF OpeningCash

LEMMA MoneyInts ==
    ASSUME SagaInv
    PROVE  /\ \A a \in Accounts : Balance(a) \in Int
           /\ \A S \in SUBSET Keys : AmountOf(S) \in Int
<1>1. \A a \in Accounts : Balance(a) \in Int
  BY DEF SagaInv, RunsTypeOK, SagaTypeOK, Balance, BalanceOf, Directions
<1>2. Amount \in [Keys -> Nat]
  BY AmountIsNat DEF Amount, SagaInv, RunsTypeOK, SagaTypeOK
<1>3. \A S \in SUBSET Keys : \A k \in S : Amount[k] \in Int
  BY <1>2
<1> QED
  BY <1>1, <1>3, MoneySets, SumInt DEF AmountOf

(* The errors are numbers, and the invariants say that they are zero.      *)
ErrorsTell ==
    /\ Shortfall \in Int /\ Unclaimed \in Int /\ Balance(Pool) \in Int
    /\ \A w \in Wallets : Surplus(w) \in Int
    /\ Missing \in Int /\ OwnPool \in Int
    /\ \A w \in Wallets : Extra(w) \in Int
    /\ MoneyInv <=> /\ Shortfall = 0 /\ Missing = 0
                    /\ \A w \in Wallets : Extra(w) = 0
    /\ ErrsOneWay <=>
          /\ Balance(Pending) <= AmountOf(Open)
          /\ Balance(Pool) - Cash <= AmountOf(InFlight) - Received(Unposted)
          /\ \A w \in Wallets :
                Given(w) - Balance(w) <= AmountOf(PaidFrom(w))

LEMMA MoneyErrors == SagaInv => ErrorsTell
<1> SUFFICES ASSUME SagaInv PROVE ErrorsTell
  OBVIOUS
<1>1. /\ Pending \in Accounts /\ Pool \in Accounts /\ Wallets \subseteq Accounts
      /\ \A w \in Wallets : OpeningBalance[w] \in Int
  BY WalletAssumption DEF Accounts
<1>2. /\ Balance(Pending) \in Int /\ Balance(Pool) \in Int
      /\ AmountOf(Open) \in Int /\ AmountOf(Sent) \in Int
      /\ AmountOf(InFlight) \in Int
      /\ \A w \in Wallets : Balance(w) \in Int /\ AmountOf(PaidFrom(w)) \in Int
  BY <1>1, MoneyInts, MoneySets
<1>3. Cash = OpeningCash + Received(Arrived) - AmountOf(Sent)
  BY DEF Cash, Sent
<1>4. /\ Received(Arrived) \in Int /\ Received(Unposted) \in Int
      /\ Received(Entered) \in Int
      /\ \A w : Received(PaidInto(w)) \in Int
  BY ReceivedInt, DepositSets
<1>5. /\ Shortfall \in Int
      /\ PendingCovers <=> Shortfall = 0
      /\ Balance(Pending) <= AmountOf(Open) <=> Shortfall >= 0
  BY <1>2 DEF Shortfall, PendingCovers
<1>6. /\ Unclaimed \in Int /\ Missing \in Int /\ OwnPool \in Int
      /\ DriftIsInFlight <=> Missing = 0
      /\ Balance(Pool) - Cash <= AmountOf(InFlight) - Received(Unposted)
             <=> Missing >= 0
  BY <1>2, <1>3, <1>4, OpeningIsInt DEF Unclaimed, Missing, OwnPool, DriftIsInFlight
<1>7. ASSUME NEW w \in Wallets
      PROVE  /\ Surplus(w) \in Int /\ Extra(w) \in Int
             /\ Given(w) - Balance(w) = AmountOf(PaidFrom(w)) <=> Extra(w) = 0
             /\ Given(w) - Balance(w) <= AmountOf(PaidFrom(w)) <=> Extra(w) >= 0
  BY <1>1, <1>2, <1>4 DEF Surplus, Extra, Given
<1> QED
  BY <1>2, <1>5, <1>6, <1>7 DEF ErrorsTell, MoneyInv, DebitedOnce, ErrsOneWay

LEMMA NextErrors == SagaInv' => ErrorsTell'
  BY MoneyErrors, PTL

LEMMA InitBalances ==
    ASSUME Init
    PROVE  /\ Balance(Pending) = 0 /\ Balance(Pool) = OpeningCash
           /\ \A w \in Wallets : Balance(w) = OpeningBalance[w]
<1>1. /\ Pending \in Accounts /\ Pool \in Accounts /\ Pending # Pool
      /\ Pending \in Liability /\ Pool \notin Liability
      /\ Wallets \subseteq Accounts \ {Pending, Pool}
      /\ Wallets \subseteq Liability
      /\ OpeningBalance \in [Wallets -> Nat] /\ OpeningCash \in Int
      /\ "DEBIT" \in Directions /\ "CREDIT" \in Directions
  BY WalletAssumption, OpeningIsInt DEF Accounts, Liability, Directions
<1>2. /\ sums[Pending]["DEBIT"] = 0 /\ sums[Pending]["CREDIT"] = 0
      /\ sums[Pool]["DEBIT"] = OpeningCash /\ sums[Pool]["CREDIT"] = 0
      /\ \A w \in Wallets : sums[w]["DEBIT"] = 0 /\ sums[w]["CREDIT"] = OpeningBalance[w]
  BY <1>1 DEF Init, SagaInit, Funded
<1> QED
  BY <1>1, <1>2 DEF Balance, BalanceOf

LEMMA InitMoney == Init => MoneyInv /\ Watched
<1> SUFFICES ASSUME Init PROVE MoneyInv /\ Watched
  OBVIOUS
<1>1. /\ Balance(Pending) = 0 /\ Balance(Pool) = OpeningCash
      /\ \A w \in Wallets : Balance(w) = OpeningBalance[w]
  BY InitBalances
<1>2. /\ Open = {} /\ Sent = {} /\ InFlight = {}
      /\ \A w \in Wallets : PaidFrom(w) = {}
  BY DEF Init, SagaInit, Open, Sent, InFlight, PaidFrom, KeysWith, HasStatus
<1>3. AmountOf({}) = 0
  BY SumEmpty DEF AmountOf
<1>4. MoneyInv
  <2>1. \A w \in Wallets : OpeningBalance[w] \in Nat
    BY WalletAssumption
  <2>2. Cash = OpeningCash + Received(Arrived) - AmountOf(Sent)
    BY DEF Cash, Sent
  <2>3. Arrived = {} /\ Unposted = {} /\ \A w : PaidInto(w) = {}
    BY DEF Init, SagaInit, Arrived, Unposted, Entered, PaidInto
  <2>4. Received({}) = 0
    BY SumEmpty DEF Received
  <2>5. PendingCovers
    BY <1>1, <1>2, <1>3 DEF PendingCovers
  <2>6. DebitedOnce
    <3> SUFFICES ASSUME NEW w \in Wallets
                 PROVE  Given(w) - Balance(w) = AmountOf(PaidFrom(w))
      BY DEF DebitedOnce
    <3>1. Received(PaidInto(w)) = 0 /\ AmountOf(PaidFrom(w)) = 0
      BY <1>2, <1>3, <2>3, <2>4
    <3> QED
      BY <1>1, <2>1, <3>1 DEF Given
  <2>7. Cash = OpeningCash /\ Received(Unposted) = 0 /\ AmountOf(InFlight) = 0
    BY <1>2, <1>3, <2>2, <2>3, <2>4, OpeningIsInt
  <2>8. DriftIsInFlight
    BY <1>1, <2>7, OpeningIsInt DEF DriftIsInFlight
  <2> QED
    BY <2>5, <2>6, <2>8 DEF MoneyInv
<1> QED
  BY <1>4 DEF Watched, Init, RunInit

(* A step that changes neither rows nor rail changes no sum of amounts.    *)
LEMMA StillMoney ==
    ASSUME NoMoney
    PROVE  SameGaps /\ Balance(Pool)' = Balance(Pool)
  BY DEF NoMoney, SameGaps, Shortfall, Unclaimed, Surplus, Balance, AmountOf,
         Amount, Open, PaidFrom, Sent, KeysWith, HasStatus, InFlight

LEMMA ReserveMoves ==
    ASSUME SagaInv, NEW w \in Wallets, NEW n \in Nat,
           SaveTransaction(Reservation(w, n))
    PROVE  /\ Balance(w) >= n
           /\ \A x \in Accounts : Balance(x) \in Int
           /\ \A v \in Wallets : Balance(v)' =
                  IF v = w THEN Balance(v) - n ELSE Balance(v)
           /\ Balance(Pending)' = Balance(Pending) + n
           /\ Balance(Pool)' = Balance(Pool)
<1>1. /\ Pending \in Accounts /\ Pool \in Accounts /\ Pending # Pool
      /\ Pending \in Liability /\ Pool \notin Liability
      /\ Wallets \subseteq Accounts \ {Pending, Pool}
      /\ Wallets \subseteq Liability
  BY WalletAssumption DEF Accounts, Liability
<1>2. w \in Accounts /\ w \in Liability /\ w # Pending /\ w # Pool
  BY <1>1
<1>3. SaveTransaction(<<Debit(w, n, Currency), Credit(Pending, n, Currency)>>)
      /\ sums \in [Accounts -> [Directions -> Nat]]
  BY DEF Reservation, SagaInv, RunsTypeOK, SagaTypeOK
<1> QED
  BY <1>1, <1>2, <1>3, Movement

LEMMA ReserveMoney ==
    ASSUME SagaInv,
           NEW k \in Keys, NEW w \in Wallets, NEW n \in Nat, Reserves(k, w, n)
    PROVE  SameGaps /\ Balance(Pool)' = Balance(Pool)
<1>1. /\ rows[k] = NoRow /\ rail[k] = "unseen" /\ rail' = rail
      /\ rows'[k] = [wallet |-> w, amount |-> n, status |-> "PENDING"]
      /\ rows'[k] # NoRow
      /\ \A j \in Keys : j # k => rows'[j] = rows[j]
  <2>1. [wallet |-> w, amount |-> n, status |-> "PENDING"] \in Rows
    BY RowFields DEF Statuses
  <2> QED
    BY <2>1, RowAssumption DEF Reserves, CreateRow, SagaInv, RunsTypeOK, SagaTypeOK
<1>2. /\ Amount \in [Keys -> Nat] /\ Amount'[k] = n
      /\ \A j \in Keys : j # k => Amount'[j] = Amount[j]
  BY <1>1, AmountIsNat DEF Amount, SagaInv, RunsTypeOK, SagaTypeOK
<1>3. /\ \A x \in Accounts : Balance(x) \in Int
      /\ \A v \in Wallets : Balance(v)' =
             IF v = w THEN Balance(v) - n ELSE Balance(v)
      /\ Balance(Pending)' = Balance(Pending) + n
      /\ Balance(Pool)' = Balance(Pool)
  BY ReserveMoves DEF Reserves
<1>4. /\ Pending \in Accounts /\ Pool \in Accounts /\ Wallets \subseteq Accounts
      /\ OpeningBalance \in [Wallets -> Nat]
  BY WalletAssumption DEF Accounts
<1>5. /\ k \notin Open /\ Open' = Open \cup {k}
      /\ k \notin Sent /\ Sent' = Sent
      /\ k \notin InFlight /\ InFlight' = InFlight
  BY <1>1 DEF Open, Sent, InFlight, KeysWith, HasStatus
<1>6. \A v : k \notin PaidFrom(v) /\
         PaidFrom(v)' = IF v = w THEN PaidFrom(v) \cup {k} ELSE PaidFrom(v)
  BY <1>1 DEF PaidFrom, KeysWith, HasStatus, Statuses
<1>7. ASSUME NEW S \in SUBSET Keys, k \notin S
      PROVE  /\ SumFunctionOnSet(Amount, S) \in Int
             /\ SumFunctionOnSet(Amount', S) = SumFunctionOnSet(Amount, S)
             /\ SumFunctionOnSet(Amount', S \cup {k}) = SumFunctionOnSet(Amount, S) + n
  <2>1. /\ IsFiniteSet(S)
        /\ \A j \in S : Amount[j] \in Int /\ Amount'[j] = Amount[j]
        /\ Amount'[k] \in Int
    BY <1>2, <1>7, MoneySets
  <2>2. /\ SumFunctionOnSet(Amount, S) \in Int
        /\ SumFunctionOnSet(Amount', S \cup {k}) = SumFunctionOnSet(Amount, S) + Amount'[k]
    BY <1>7, <2>1, SumWith
  <2>3. SumFunctionOnSet(Amount', S) = SumFunctionOnSet(Amount, S)
    BY <2>1, SumSame
  <2> QED
    BY <1>2, <2>2, <2>3
<1>8. Shortfall' = Shortfall
  BY <1>3, <1>4, <1>5, <1>7, MoneySets DEF AmountOf, Shortfall
<1>9. ASSUME NEW v \in Wallets
      PROVE  Surplus(v)' = Surplus(v)
  <2>1. /\ Surplus(v)' = Balance(v)' + AmountOf(PaidFrom(v))' - OpeningBalance[v]
        /\ Surplus(v) = Balance(v) + SumFunctionOnSet(Amount, PaidFrom(v))
                             - OpeningBalance[v]
    BY DEF Surplus, AmountOf
  <2>2. Balance(v) \in Int /\ OpeningBalance[v] \in Int
    BY <1>3, <1>4
  <2>3. /\ SumFunctionOnSet(Amount', PaidFrom(v)) = SumFunctionOnSet(Amount, PaidFrom(v))
        /\ SumFunctionOnSet(Amount', PaidFrom(v) \cup {k}) =
               SumFunctionOnSet(Amount, PaidFrom(v)) + n
    BY <1>6, <1>7, MoneySets
  <2>4. AmountOf(PaidFrom(v))' = SumFunctionOnSet(Amount', PaidFrom(v)')
    BY DEF AmountOf
  <2>5. SumFunctionOnSet(Amount, PaidFrom(v)) \in Int
    BY <1>6, <1>7, MoneySets
  <2>6. CASE v = w
    <3>1. PaidFrom(v)' = PaidFrom(v) \cup {k} /\ Balance(v)' = Balance(v) - n
      BY <1>3, <1>6, <2>6
    <3> QED
      BY <2>1, <2>2, <2>3, <2>4, <2>5, <3>1
  <2>7. CASE v # w
    <3>1. PaidFrom(v)' = PaidFrom(v) /\ Balance(v)' = Balance(v)
      BY <1>3, <1>6, <2>7
    <3> QED
      BY <2>1, <2>2, <2>3, <2>4, <2>5, <3>1
  <2> QED
    BY <2>6, <2>7
<1>10. Unclaimed' = Unclaimed
  BY <1>3, <1>5, <1>7, MoneySets DEF AmountOf, Unclaimed
<1> QED
  BY <1>3, <1>8, <1>9, <1>10 DEF SameGaps

(* A status update leaves the amounts as they are.                         *)
LEMMA SameAmounts ==
    ASSUME SagaInv, NEW k \in Keys, rows[k] # NoRow, NEW s \in Statuses,
           SetStatus(k, s)
    PROVE  /\ Amount' = Amount /\ Amount \in [Keys -> Nat]
           /\ Amount[k] = rows[k].amount
           /\ rows'[k] # NoRow /\ rows'[k].status = s
           /\ rows'[k].wallet = rows[k].wallet
           /\ \A j \in Keys : j # k => rows'[j] = rows[j]
<1>1. /\ rows'[k] \in Rows /\ rows'[k].status = s
      /\ rows'[k].wallet = rows[k].wallet
      /\ rows'[k].amount = rows[k].amount
      /\ \A j \in Keys : j # k => rows'[j] = rows[j]
      /\ rows \in [Keys -> Rows \cup {NoRow}]
  BY StatusSet DEF SagaInv, RunsTypeOK, SagaTypeOK
<1>2. rows'[k] # NoRow
  BY <1>1, RowAssumption
<1>3. Amount' = Amount
  <2>1. \A j \in Keys : Amount'[j] = Amount[j]
    BY <1>1, <1>2 DEF Amount
  <2> QED
    BY <2>1 DEF Amount
<1>4. Amount \in [Keys -> Nat]
  BY <1>1, AmountIsNat DEF Amount
<1> QED
  BY <1>1, <1>2, <1>3, <1>4 DEF Amount

(* Taking a withdrawal out of a sum, or in.                                *)
LEMMA AmountSums ==
    ASSUME Amount \in [Keys -> Nat], NEW k \in Keys, NEW S \in SUBSET Keys
    PROVE  /\ AmountOf(S) \in Int
           /\ k \notin S => AmountOf(S \cup {k}) = AmountOf(S) + Amount[k]
           /\ k \in S => AmountOf(S \ {k}) = AmountOf(S) - Amount[k]
<1>1. IsFiniteSet(S) /\ \A j \in S : Amount[j] \in Int /\ Amount[k] \in Int
  BY MoneySets
<1>2. k \notin S => SumFunctionOnSet(Amount, S \cup {k}) =
                        SumFunctionOnSet(Amount, S) + Amount[k]
  BY <1>1, SumWith
<1>3. k \in S => SumFunctionOnSet(Amount, S \ {k}) =
                     SumFunctionOnSet(Amount, S) - Amount[k]
  BY <1>1, SumWithout
<1> QED
  BY <1>1, <1>2, <1>3, SumInt DEF AmountOf

LEMMA MarkMoney ==
    ASSUME SagaInv, NEW k \in Keys, Marks(k)
    PROVE  SameGaps /\ Balance(Pool)' = Balance(Pool)
<1>1. /\ Amount' = Amount /\ rail' = rail /\ rail[k] = "unseen"
      /\ rows[k] # NoRow /\ rows[k].status = "PENDING"
      /\ rows'[k] # NoRow /\ rows'[k].status = "PROCESSING"
      /\ rows'[k].wallet = rows[k].wallet
      /\ \A j \in Keys : j # k => rows'[j] = rows[j]
  BY SameAmounts DEF Marks, HasStatus, Statuses
<1>2. Open' = Open /\ Sent' = Sent /\ InFlight' = InFlight
      /\ \A v : PaidFrom(v)' = PaidFrom(v)
  <2>1. \A j \in Keys :
           /\ HasStatus(j, {"PENDING", "PROCESSING"})' <=>
                  HasStatus(j, {"PENDING", "PROCESSING"})
           /\ HasStatus(j, Statuses \ {"FAILED"})' <=>
                  HasStatus(j, Statuses \ {"FAILED"})
           /\ HasStatus(j, {"SUCCESSFUL"})' <=> HasStatus(j, {"SUCCESSFUL"})
           /\ rows[j] # NoRow => rows'[j].wallet = rows[j].wallet
    BY <1>1 DEF HasStatus, Statuses
  <2>2. \A j \in Keys : HasStatus(j, Statuses \ {"FAILED"}) => rows[j] # NoRow
    BY DEF HasStatus
  <2> QED
    BY <1>1, <2>1, <2>2 DEF Open, Sent, InFlight, PaidFrom, KeysWith
<1>3. \A a : Balance(a)' = Balance(a)
  BY DEF Marks, Balance
<1>4. \A S : SumFunctionOnSet(Amount', S) = SumFunctionOnSet(Amount, S)
  BY <1>1
<1>5. /\ AmountOf(Open)' = AmountOf(Open)
      /\ AmountOf(Sent)' = AmountOf(Sent)
      /\ AmountOf(InFlight)' = AmountOf(InFlight)
      /\ \A v \in Wallets : AmountOf(PaidFrom(v))' = AmountOf(PaidFrom(v))
  BY <1>1, <1>2 DEF AmountOf
<1> QED
  BY <1>3, <1>5 DEF SameGaps, Shortfall, Unclaimed, Surplus

LEMMA DecideMoney ==
    ASSUME SagaInv, NEW k \in Keys,
           NEW fate \in {"sent", "rejected", "undecided"}, Decides(k, fate)
    PROVE  SameGaps /\ Balance(Pool)' = Balance(Pool)
<1>1. /\ Amount' = Amount /\ rows' = rows /\ sums' = sums
      /\ rail[k] # "sent" /\ rail'[k] = fate
      /\ \A j \in Keys : j # k => rail'[j] = rail[j]
      /\ HasStatus(k, {"PROCESSING"})
      /\ Amount \in [Keys -> Nat]
  BY AmountIsNat DEF Decides, Amount, SagaInv, RunsTypeOK, SagaTypeOK
<1>2. /\ Shortfall' = Shortfall /\ Balance(Pool)' = Balance(Pool)
      /\ \A w \in Wallets : Surplus(w)' = Surplus(w)
  BY <1>1 DEF Shortfall, Surplus, Open, PaidFrom, Balance, AmountOf, KeysWith,
              HasStatus
<1>3. Balance(Pool) \in Int
  <2>1. Pool \in Accounts /\ "DEBIT" \in Directions /\ "CREDIT" \in Directions
    BY DEF Accounts, Directions
  <2> QED
    BY <2>1 DEF SagaInv, RunsTypeOK, SagaTypeOK, Balance, BalanceOf
<1>4. k \notin Sent /\ k \notin InFlight
  BY <1>1 DEF Sent, InFlight
<1>5. Unclaimed' = Unclaimed
  <2>1. CASE fate = "sent"
    <3>1. Sent' = Sent \cup {k} /\ InFlight' = InFlight \cup {k}
      BY <1>1, <2>1 DEF Sent, InFlight, HasStatus
    <3>2. /\ AmountOf(Sent)' = AmountOf(Sent) + Amount[k]
          /\ AmountOf(InFlight)' = AmountOf(InFlight) + Amount[k]
          /\ AmountOf(Sent) \in Int /\ AmountOf(InFlight) \in Int
      <4>1. /\ AmountOf(Sent)' = AmountOf(Sent \cup {k})
            /\ AmountOf(InFlight)' = AmountOf(InFlight \cup {k})
        BY <1>1, <3>1 DEF AmountOf
      <4> QED
        BY <1>1, <1>4, <4>1, AmountSums, MoneySets
    <3> QED
      BY <1>1, <1>2, <1>3, <3>2, OpeningIsInt DEF Unclaimed
  <2>2. CASE fate # "sent"
    <3>1. Sent' = Sent /\ InFlight' = InFlight
      BY <1>1, <2>2 DEF Sent, InFlight, HasStatus
    <3>2. AmountOf(Sent)' = AmountOf(Sent) /\ AmountOf(InFlight)' = AmountOf(InFlight)
      BY <1>1, <3>1 DEF AmountOf
    <3> QED
      BY <1>2, <3>2 DEF Unclaimed
  <2> QED
    BY <2>1, <2>2
<1> QED
  BY <1>2, <1>5 DEF SameGaps

LEMMA SettleMoney ==
    ASSUME SagaInv, NEW k \in Keys, Settles(k),
           HasStatus(k, {"PROCESSING"})
    PROVE  SameGaps /\ Balance(Pool)' <= Balance(Pool)
<1>1. /\ Amount' = Amount /\ Amount \in [Keys -> Nat] /\ Amount[k] = rows[k].amount
      /\ rail' = rail /\ rail[k] = "sent"
      /\ rows[k] # NoRow /\ rows[k].status = "PROCESSING"
      /\ rows'[k] # NoRow /\ rows'[k].status = "SUCCESSFUL"
      /\ rows'[k].wallet = rows[k].wallet
      /\ \A j \in Keys : j # k => rows'[j] = rows[j]
  BY SameAmounts DEF Settles, SettleTx, HasStatus, Statuses
<1>2. /\ k \in Open /\ Open' = Open \ {k} /\ Sent' = Sent
      /\ k \in InFlight /\ InFlight' = InFlight \ {k}
  BY <1>1 DEF Open, Sent, InFlight, KeysWith, HasStatus
<1>3. \A v : PaidFrom(v)' = PaidFrom(v)
  BY <1>1 DEF PaidFrom, KeysWith, HasStatus, Statuses
<1>4. /\ Balance(Pending) \in Int /\ Balance(Pool) \in Int
      /\ \A w \in Wallets : Balance(w)' = Balance(w)
      /\ Balance(Pending)' = Balance(Pending) - Amount[k]
      /\ Balance(Pool)' = Balance(Pool) - Amount[k]
  BY <1>1, SettleMoves DEF Settles, Accounts
<1>5. /\ AmountOf(Open)' = AmountOf(Open \ {k})
      /\ AmountOf(Sent)' = AmountOf(Sent)
      /\ AmountOf(InFlight)' = AmountOf(InFlight \ {k})
      /\ \A v \in Wallets : AmountOf(PaidFrom(v))' = AmountOf(PaidFrom(v))
  BY <1>1, <1>2, <1>3 DEF AmountOf
<1>6. /\ AmountOf(Open \ {k}) = AmountOf(Open) - Amount[k]
      /\ AmountOf(InFlight \ {k}) = AmountOf(InFlight) - Amount[k]
      /\ AmountOf(Open) \in Int /\ AmountOf(InFlight) \in Int
      /\ AmountOf(Sent) \in Int /\ Amount[k] \in Nat
  BY <1>1, <1>2, AmountSums, MoneySets
<1>7. Shortfall' = Shortfall
  BY <1>4, <1>5, <1>6 DEF Shortfall
<1>8. \A w \in Wallets : Surplus(w)' = Surplus(w)
  BY <1>4, <1>5 DEF Surplus
<1>9. Unclaimed' = Unclaimed
  BY <1>4, <1>5, <1>6, OpeningIsInt DEF Unclaimed
<1>10. Balance(Pool)' <= Balance(Pool)
  BY <1>4, <1>6
<1> QED
  BY <1>7, <1>8, <1>9, <1>10 DEF SameGaps

LEMMA ReleaseMoney ==
    ASSUME SagaInv, NEW k \in Keys, Releases(k),
           HasStatus(k, {"PROCESSING"})
    PROVE  SameGaps /\ Balance(Pool)' = Balance(Pool)
<1>1. /\ Amount' = Amount /\ Amount \in [Keys -> Nat] /\ Amount[k] = rows[k].amount
      /\ rail' = rail /\ rail[k] = "rejected"
      /\ rows[k] # NoRow /\ rows[k].status = "PROCESSING"
      /\ rows'[k] # NoRow /\ rows'[k].status = "FAILED"
      /\ rows'[k].wallet = rows[k].wallet
      /\ \A j \in Keys : j # k => rows'[j] = rows[j]
  BY SameAmounts DEF Releases, ReleaseTx, HasStatus, Statuses
<1>2. /\ k \in Open /\ Open' = Open \ {k} /\ Sent' = Sent /\ InFlight' = InFlight
  BY <1>1 DEF Open, Sent, InFlight, KeysWith, HasStatus
<1>3. \A v : IF v = rows[k].wallet
             THEN k \in PaidFrom(v) /\ PaidFrom(v)' = PaidFrom(v) \ {k}
             ELSE PaidFrom(v)' = PaidFrom(v)
  BY <1>1 DEF PaidFrom, KeysWith, HasStatus, Statuses
<1>4. /\ Balance(Pending) \in Int /\ Balance(Pool) \in Int
      /\ \A w \in Wallets : Balance(w) \in Int
      /\ \A w \in Wallets : Balance(w)' =
             IF w = rows[k].wallet THEN Balance(w) + Amount[k] ELSE Balance(w)
      /\ Balance(Pending)' = Balance(Pending) - Amount[k]
      /\ Balance(Pool)' = Balance(Pool)
  BY <1>1, ReleaseMoves DEF Releases, Accounts
<1>5. /\ AmountOf(Open)' = AmountOf(Open \ {k})
      /\ AmountOf(Sent)' = AmountOf(Sent)
      /\ AmountOf(InFlight)' = AmountOf(InFlight)
  BY <1>1, <1>2 DEF AmountOf
<1>6. /\ AmountOf(Open \ {k}) = AmountOf(Open) - Amount[k]
      /\ AmountOf(Open) \in Int /\ Amount[k] \in Nat
  BY <1>1, <1>2, AmountSums, MoneySets
<1>7. Shortfall' = Shortfall
  BY <1>4, <1>5, <1>6 DEF Shortfall
<1>8. ASSUME NEW w \in Wallets
      PROVE  Surplus(w)' = Surplus(w)
  <2>1. /\ Surplus(w)' = Balance(w)' + AmountOf(PaidFrom(w))' - OpeningBalance[w]
        /\ Surplus(w) = Balance(w) + AmountOf(PaidFrom(w)) - OpeningBalance[w]
        /\ OpeningBalance[w] \in Int
    BY WalletAssumption DEF Surplus
  <2>2. CASE w = rows[k].wallet
    <3>1. /\ AmountOf(PaidFrom(w))' = AmountOf(PaidFrom(w) \ {k})
          /\ k \in PaidFrom(w)
      BY <1>1, <1>3, <2>2 DEF AmountOf
    <3>2. /\ AmountOf(PaidFrom(w) \ {k}) = AmountOf(PaidFrom(w)) - Amount[k]
          /\ AmountOf(PaidFrom(w)) \in Int
      BY <1>1, <3>1, AmountSums, MoneySets
    <3>3. Balance(w)' = Balance(w) + Amount[k] /\ Balance(w) \in Int
      BY <1>4, <2>2
    <3> QED
      BY <1>6, <2>1, <3>1, <3>2, <3>3
  <2>3. CASE w # rows[k].wallet
    <3>1. AmountOf(PaidFrom(w))' = AmountOf(PaidFrom(w))
      BY <1>1, <1>3, <2>3 DEF AmountOf
    <3> QED
      BY <1>4, <2>1, <2>3, <3>1
  <2> QED
    BY <2>2, <2>3
<1>9. Unclaimed' = Unclaimed
  BY <1>4, <1>5 DEF Unclaimed
<1> QED
  BY <1>4, <1>7, <1>8, <1>9 DEF SameGaps

LEMMA OnceMoney ==
    ASSUME SagaInv, FirstTime
    PROVE  SameGaps /\ Balance(Pool)' <= Balance(Pool)
<1>1. Balance(Pool)' = Balance(Pool) => Balance(Pool)' <= Balance(Pool)
  BY MoneyErrors DEF ErrorsTell
<1>2. CASE NoMoney
  BY <1>1, <1>2, StillMoney
<1>3. CASE \E k \in Keys, w \in Wallets, n \in Nat : Reserves(k, w, n)
  BY <1>1, <1>3, ReserveMoney
<1>4. CASE \E k \in Keys : Marks(k)
  BY <1>1, <1>4, MarkMoney
<1>5. CASE \E k \in Keys, fate \in {"sent", "rejected", "undecided"} : Decides(k, fate)
  BY <1>1, <1>5, DecideMoney
<1>6. CASE \E k \in Keys : Settles(k) /\ HasStatus(k, {"PROCESSING"})
  BY <1>6, SettleMoney
<1>7. CASE \E k \in Keys : Releases(k) /\ HasStatus(k, {"PROCESSING"})
  BY <1>1, <1>7, ReleaseMoney
<1> QED
  BY <1>2, <1>3, <1>4, <1>5, <1>6, <1>7 DEF FirstTime, Effect

(* Settling or releasing again posts the amount and leaves the row alone.  *)
Again(k) == \/ Settles(k) /\ HasStatus(k, {"SUCCESSFUL"})
            \/ Releases(k) /\ HasStatus(k, {"FAILED"})

LEMMA SameRows ==
    ASSUME SagaInv, NEW k \in Keys, Again(k)
    PROVE  rows' = rows /\ rail' = rail
<1>1. /\ rows \in [Keys -> Rows \cup {NoRow}] /\ rows[k] # NoRow /\ rail' = rail
      /\ rows[k] \in Rows /\ SetStatus(k, rows[k].status)
  BY DEF Again, Settles, Releases, SettleTx, ReleaseTx, HasStatus, SagaInv,
         RunsTypeOK, SagaTypeOK
<1>2. [rows[k] EXCEPT !.status = rows[k].status] = rows[k]
  BY <1>1 DEF Rows
<1>3. rows' = [rows EXCEPT ![k] = rows[k]]
  BY <1>1, <1>2 DEF SetStatus
<1> QED
  BY <1>1, <1>3

LEMMA AgainOrOnce ==
    ASSUME SagaInv, [Next]_vars
    PROVE  Funds \/ ((FirstTime \/ \E k \in Keys : Again(k)) /\ deposits' = deposits)
<1> SUFFICES ASSUME AnyTime PROVE FirstTime \/ \E k \in Keys : Again(k)
  BY AnyEffect
<1> QED
  BY DEF AnyTime, FirstTime, Effect, Again, HasStatus

(* It takes from the pending account and gives to the pool or the wallet.  *)
LEMMA AgainMoney ==
    ASSUME SagaInv, NEW k \in Keys, Again(k)
    PROVE  /\ Shortfall' >= Shortfall /\ Unclaimed' >= Unclaimed
           /\ \A w \in Wallets : Surplus(w)' >= Surplus(w)
           /\ Balance(Pool)' <= Balance(Pool)
<1>1. /\ AmountOf(Open)' = AmountOf(Open) /\ AmountOf(Sent)' = AmountOf(Sent)
      /\ AmountOf(InFlight)' = AmountOf(InFlight)
      /\ \A w \in Wallets : AmountOf(PaidFrom(w))' = AmountOf(PaidFrom(w))
  BY SameRows DEF AmountOf, Amount, Open, PaidFrom, Sent, InFlight, KeysWith, HasStatus
<1>2. /\ Pending \in Accounts /\ Pool \in Accounts /\ Wallets \subseteq Accounts
      /\ \A w \in Wallets : OpeningBalance[w] \in Int
  BY WalletAssumption DEF Accounts
<1>3. /\ \A a \in Accounts : Balance(a) \in Int
      /\ AmountOf(Open) \in Int /\ AmountOf(Sent) \in Int
      /\ AmountOf(InFlight) \in Int
      /\ \A w \in Wallets : AmountOf(PaidFrom(w)) \in Int
  BY MoneyInts, MoneySets
<1>4. rows[k] # NoRow /\ rows[k].amount \in Nat
  BY RowFields DEF Again, HasStatus, SagaInv, RunsTypeOK, SagaTypeOK
<1>5. /\ Balance(Pending)' = Balance(Pending) - rows[k].amount
      /\ Balance(Pool)' \in {Balance(Pool), Balance(Pool) - rows[k].amount}
      /\ \A w \in Wallets :
            Balance(w)' \in {Balance(w), Balance(w) + rows[k].amount}
  BY <1>4, SettleMoves, ReleaseMoves DEF Again, Settles, Releases
<1>6. Shortfall' >= Shortfall
  BY <1>1, <1>2, <1>3, <1>4, <1>5 DEF Shortfall
<1>7. Unclaimed' >= Unclaimed /\ Balance(Pool)' <= Balance(Pool)
  BY <1>1, <1>2, <1>3, <1>4, <1>5, OpeningIsInt DEF Unclaimed
<1>8. ASSUME NEW w \in Wallets PROVE Surplus(w)' >= Surplus(w)
  BY <1>1, <1>2, <1>3, <1>4, <1>5 DEF Surplus
<1> QED
  BY <1>6, <1>7, <1>8

(* A deposit is paid into the pool and the wallet alike, and what it adds  *)
(* to the cash is accounted for until it is posted.                        *)
LEMMA FundMoney ==
    ASSUME SagaInv, FundingInv, Funds
    PROVE  SameErrors /\ OwnPool' = OwnPool
<1>1. deposits \in [Deposits -> {"expected", "arrived", "posted"}]
  BY DEF FundingInv, DepositsTypeOK
<1>2. /\ AmountOf(Open)' = AmountOf(Open) /\ AmountOf(Sent)' = AmountOf(Sent)
      /\ AmountOf(InFlight)' = AmountOf(InFlight)
      /\ \A w \in Wallets : AmountOf(PaidFrom(w))' = AmountOf(PaidFrom(w))
  BY FundsSplit DEF AmountOf, Amount, Open, PaidFrom, Sent, InFlight, KeysWith, HasStatus
<1>3. /\ Pending \in Accounts /\ Pool \in Accounts /\ Wallets \subseteq Accounts
      /\ \A w \in Wallets : OpeningBalance[w] \in Int
  BY WalletAssumption DEF Accounts
<1>4. /\ \A a \in Accounts : Balance(a) \in Int
      /\ AmountOf(Open) \in Int /\ AmountOf(Sent) \in Int
      /\ AmountOf(InFlight) \in Int
      /\ \A w \in Wallets : AmountOf(PaidFrom(w)) \in Int
  BY MoneyInts, MoneySets
<1>5. /\ Received(Arrived) \in Int /\ Received(Unposted) \in Int
      /\ Received(Entered) \in Int
      /\ \A w \in Wallets : Received(PaidInto(w)) \in Int
  BY ReceivedInt, DepositSets
<1>6. /\ Received(Arrived)' = Received(Arrived')
      /\ Received(Unposted)' = Received(Unposted')
      /\ Received(Entered)' = Received(Entered')
      /\ \A w \in Wallets : Received(PaidInto(w))' = Received(PaidInto(w)')
  BY DEF Received
<1>7. ASSUME NEW d \in Deposits, deposits[d] = "expected", sums' = sums,
             deposits' = [deposits EXCEPT ![d] = "arrived"]
      PROVE  SameErrors /\ OwnPool' = OwnPool
  <2>1. /\ d \notin Arrived /\ Arrived' = Arrived \cup {d}
        /\ d \notin Unposted /\ Unposted' = Unposted \cup {d}
        /\ Entered' = Entered
    BY <1>1, <1>7 DEF Arrived, Unposted, Entered
  <2>2. \A w \in Wallets : PaidInto(w)' = PaidInto(w)
    BY <2>1 DEF PaidInto
  <2>3. /\ Received(Arrived)' = Received(Arrived) + DepositOf[d].amount
        /\ Received(Unposted)' = Received(Unposted) + DepositOf[d].amount
        /\ Received(Entered)' = Received(Entered)
        /\ \A w \in Wallets : Received(PaidInto(w))' = Received(PaidInto(w))
    BY <1>6, <2>1, <2>2, ReceivedSums, DepositSets
  <2>4. \A a : Balance(a)' = Balance(a)
    BY <1>7 DEF Balance
  <2>5. Unclaimed' = Unclaimed /\ Unclaimed \in Int
    BY <1>2, <2>4, MoneyErrors DEF Unclaimed, ErrorsTell
  <2>6. DepositOf[d].amount \in Int
    BY DepositFields
  <2>7. Missing' = Missing
    BY <1>5, <2>3, <2>5, <2>6 DEF Missing
  <2>8. Shortfall' = Shortfall /\ OwnPool' = OwnPool
    BY <1>2, <2>3, <2>4 DEF Shortfall, OwnPool
  <2>9. ASSUME NEW w \in Wallets PROVE Extra(w)' = Extra(w)
    BY <1>2, <2>3, <2>4 DEF Extra, Surplus
  <2> QED
    BY <2>7, <2>8, <2>9 DEF SameErrors
<1>8. ASSUME NEW d \in Deposits, deposits[d] = "arrived",
             NEW w \in Wallets, NEW n \in Nat,
             w = DepositOf[d].wallet, n = DepositOf[d].amount,
             SaveTransaction(Receipt(w, n)),
             deposits' = [deposits EXCEPT ![d] = "posted"]
      PROVE  SameErrors /\ OwnPool' = OwnPool
  <2>1. /\ Arrived' = Arrived /\ d \in Unposted /\ Unposted' = Unposted \ {d}
        /\ d \notin Entered /\ Entered' = Entered \cup {d}
    BY <1>1, <1>8 DEF Arrived, Unposted, Entered
  <2>2. \A v \in Wallets : /\ d \notin PaidInto(v)
                           /\ PaidInto(v)' = IF v = w THEN PaidInto(v) \cup {d}
                                             ELSE PaidInto(v)
    BY <1>8, <2>1 DEF PaidInto
  <2>3. /\ Received(Arrived)' = Received(Arrived)
        /\ Received(Unposted)' = Received(Unposted) - n
        /\ Received(Entered)' = Received(Entered) + n
        /\ \A v \in Wallets : Received(PaidInto(v))' =
               IF v = w THEN Received(PaidInto(v)) + n ELSE Received(PaidInto(v))
    BY <1>6, <1>8, <2>1, <2>2, ReceivedSums, DepositSets
  <2>4. /\ Balance(Pending)' = Balance(Pending) /\ Balance(Pool)' = Balance(Pool) + n
        /\ \A v \in Wallets : Balance(v)' =
               IF v = w THEN Balance(v) + n ELSE Balance(v)
    BY <1>8, ReceiptMoves
  <2>5. Unclaimed' = Unclaimed - n
    BY <1>2, <1>3, <1>4, <2>4, OpeningIsInt DEF Unclaimed
  <2>6. Missing' = Missing
    BY <1>5, <2>3, <2>5, MoneyErrors DEF Missing, ErrorsTell
  <2>7. Shortfall' = Shortfall
    BY <1>2, <2>4 DEF Shortfall
  <2>8. OwnPool' = OwnPool
    BY <1>3, <1>4, <1>5, <2>3, <2>4 DEF OwnPool
  <2>9. ASSUME NEW v \in Wallets PROVE Extra(v)' = Extra(v)
    <3>1. /\ Balance(v) \in Int /\ AmountOf(PaidFrom(v)) \in Int
          /\ OpeningBalance[v] \in Int /\ Received(PaidInto(v)) \in Int
          /\ AmountOf(PaidFrom(v))' = AmountOf(PaidFrom(v))
      BY <1>2, <1>3, <1>4, <1>5
    <3>2. /\ Balance(v)' = IF v = w THEN Balance(v) + n ELSE Balance(v)
          /\ Received(PaidInto(v))' =
                 IF v = w THEN Received(PaidInto(v)) + n ELSE Received(PaidInto(v))
      BY <2>3, <2>4
    <3> QED
      BY <3>1, <3>2 DEF Extra, Surplus
  <2> QED
    BY <2>6, <2>7, <2>8, <2>9 DEF SameErrors
<1> QED
  BY <1>7, <1>8, FundsSplit, DepositFields

(* Beside deposits that stay as they are, the errors change as the gaps.   *)
LEMMA LeftAlone ==
    ASSUME deposits' = deposits
    PROVE  /\ Missing' = Unclaimed' + Received(Arrived) - Received(Unposted)
           /\ OwnPool' = Balance(Pool)' - Received(Entered)
           /\ \A w \in Wallets : Extra(w)' = Surplus(w)' - Received(PaidInto(w))
  BY DEF Missing, OwnPool, Extra, Received, Arrived, Unposted, Entered, PaidInto

(* No step makes the balances wrong in the other direction, and one that   *)
(* posts nothing, or changes a row, makes them no more wrong.              *)
LEMMA StepMoney ==
    ASSUME SagaInv, FundingInv, [Next]_vars
    PROVE  /\ ErrsOneWay => ErrsOneWay'
           /\ rows' # rows \/ deposits' # deposits \/ sums' = sums => SameErrors
           /\ OwnPool' <= OwnPool
<1>1. ErrorsTell /\ ErrorsTell'
  BY MoneyErrors, NextErrors, StepSaga
<1>2. CASE Funds
  <2>1. OwnPool' <= OwnPool
    BY <1>1, <1>2, FundMoney DEF ErrorsTell
  <2> QED
    BY <1>2, <2>1, FundMoney DEF SameErrors, ErrsOneWay
<1>3. /\ Received(Arrived) \in Int /\ Received(Unposted) \in Int
      /\ Received(Entered) \in Int
      /\ \A w \in Wallets : Received(PaidInto(w)) \in Int
  BY ReceivedInt, DepositSets
<1>4. ASSUME deposits' = deposits, Balance(Pool)' <= Balance(Pool)
      PROVE  OwnPool' <= OwnPool
  BY <1>1, <1>3, <1>4, LeftAlone DEF OwnPool, ErrorsTell
<1>5. ASSUME deposits' = deposits, SameGaps
      PROVE  SameErrors
  BY <1>5, LeftAlone DEF SameGaps, SameErrors, Missing, Extra
<1>6. ASSUME FirstTime, deposits' = deposits
      PROVE  SameErrors /\ OwnPool' <= OwnPool
  BY <1>4, <1>5, <1>6, OnceMoney
<1>7. ASSUME NEW k \in Keys, Again(k), deposits' = deposits
      PROVE  /\ ErrsOneWay => ErrsOneWay'
             /\ rows' # rows \/ sums' = sums => SameErrors
             /\ OwnPool' <= OwnPool
  <2>1. Missing' >= Missing
    BY <1>1, <1>3, <1>7, AgainMoney, LeftAlone DEF Missing, ErrorsTell
  <2>2. ASSUME NEW w \in Wallets PROVE Extra(w)' >= Extra(w)
    <3>1. Surplus(w)' >= Surplus(w)
      BY <1>7, AgainMoney
    <3> QED
      BY <1>1, <1>3, <1>7, <3>1, LeftAlone DEF Extra, ErrorsTell
  <2>3. ErrsOneWay => ErrsOneWay'
    BY <1>1, <1>7, <2>1, <2>2, AgainMoney DEF ErrsOneWay, ErrorsTell
  <2>4. rows' = rows /\ rail' = rail
    BY <1>7, SameRows
  <2>5. sums' = sums => SameErrors
    BY <1>5, <1>7, <2>4, StillMoney DEF NoMoney
  <2> QED
    BY <1>4, <1>7, <2>3, <2>4, <2>5, AgainMoney
<1>8. SameErrors => (ErrsOneWay => ErrsOneWay')
  BY DEF SameErrors, ErrsOneWay
<1> QED
  BY <1>2, <1>6, <1>7, <1>8, AgainOrOnce

(* A run compares what it has read itself.                                 *)
LEMMA ComparesWhatItRead ==
    ASSUME SagaInv, FundingInv, [Next]_vars, NEW r \in Runners,
           rpc'[r] = "compare"
    PROVE  \/ /\ rpc[r] = "compare"
              /\ internal'[r] = internal[r] /\ seen'[r] = seen[r]
           \/ /\ internal'[r] = Balance(Pool) /\ seen'[r] = Entered
              /\ OwnPool' = OwnPool
<1>1. /\ rpc \in [Runners -> Resting \cup Running]
      /\ internal \in [Runners -> Int] /\ seen \in [Runners -> SUBSET Deposits]
  BY DEF SagaInv, RunsTypeOK, FundingInv
<1>2. CASE UNCHANGED runVars
  BY <1>2 DEF runVars
<1>3. ASSUME NEW p \in Runners, NEW where, Proceed(p, where), where # "compare",
             p # r => internal'[r] = internal[r] /\ seen'[r] = seen[r]
      PROVE  /\ rpc[r] = "compare"
             /\ internal'[r] = internal[r] /\ seen'[r] = seen[r]
  BY <1>1, <1>3 DEF Proceed
<1>4. ASSUME NEW p \in Runners, StartRun(p) \/ RunStep(p) \/ KillRun(p),
             deposits' = deposits
      PROVE  \/ /\ rpc[r] = "compare"
                /\ internal'[r] = internal[r] /\ seen'[r] = seen[r]
             \/ /\ internal'[r] = Balance(Pool) /\ seen'[r] = Entered
                /\ OwnPool' = OwnPool
  <2>1. CASE ReadInternal(p)
    <3>1. OwnPool' = OwnPool
      BY <1>4, <2>1 DEF ReadInternal, sagaVars, OwnPool, Balance, Received, Entered
    <3>2. CASE p = r
      BY <1>1, <2>1, <3>1, <3>2 DEF ReadInternal
    <3>3. CASE p # r
      BY <1>1, <2>1, <3>3 DEF ReadInternal, Proceed
    <3> QED
      BY <3>2, <3>3
  <2>2. CASE \/ StartRun(p) \/ Snapshot(p) \/ SettleStuck(p) \/ ReleaseStuck(p)
             \/ Record(p) \/ CompareExternal(p) \/ CompleteRun(p)
    BY <1>3, <2>2 DEF StartRun, Snapshot, SettleStuck, ReleaseStuck, Record,
                      CompareExternal, CompleteRun
  <2>3. CASE Requery(p)
    BY <1>3, <2>3 DEF Requery, AfterVerdict
  <2>4. ASSUME NEW where \in Resting, EndRun(p, where)
        PROVE  /\ rpc[r] = "compare"
               /\ internal'[r] = internal[r] /\ seen'[r] = seen[r]
    BY <1>1, <1>3, <2>4 DEF EndRun, Resting
  <2>5. CASE RunThrows(p) \/ AuditRun(p) \/ KillRun(p)
    BY <2>4, <2>5 DEF RunThrows, AuditRun, KillRun, Resting
  <2> QED
    BY <1>4, <2>1, <2>2, <2>3, <2>5 DEF RunStep
<1> QED
  BY <1>2, <1>4 DEF Next, vars

LEMMA StepWatched ==
    SagaInv /\ FundingInv /\ Watched /\ [Next]_vars => Watched'
<1> SUFFICES ASSUME SagaInv, FundingInv, Watched, [Next]_vars,
                    NEW r \in Runners, rpc'[r] = "compare"
             PROVE  OwnPool' <= internal'[r] - Received(seen'[r])
  BY DEF Watched, OwnPool, Received
<1>1. /\ Balance(Pool) \in Int /\ OwnPool \in Int /\ OwnPool' \in Int
      /\ internal[r] \in Int /\ OwnPool' <= OwnPool
  BY MoneyErrors, NextErrors, StepSaga, StepMoney
     DEF ErrorsTell, SagaInv, RunsTypeOK
<1>2. Received(seen[r]) \in Int /\ Received(Entered) \in Int
  BY ReceivedInt, DepositSets DEF FundingInv
<1>3. CASE /\ rpc[r] = "compare"
           /\ internal'[r] = internal[r] /\ seen'[r] = seen[r]
  <2>1. OwnPool <= internal[r] - Received(seen[r])
    BY <1>3 DEF Watched, OwnPool
  <2> QED
    BY <1>1, <1>2, <1>3, <2>1
<1>4. CASE /\ internal'[r] = Balance(Pool) /\ seen'[r] = Entered
           /\ OwnPool' = OwnPool
  BY <1>1, <1>2, <1>4 DEF OwnPool
<1> QED
  BY <1>3, <1>4, ComparesWhatItRead

LEMMA AlwaysWatched == Spec => []Watched
  BY InitMoney, StepWatched, AlwaysSaga, AlwaysFunding, PTL DEF Spec

LEMMA AlwaysMoney == Spec /\ PostedOnce => []MoneyInv
<1>1. SagaInv /\ FundingInv /\ MoneyInv /\ [Next]_vars
          /\ [rows' # rows \/ deposits' # deposits]_sums => MoneyInv'
  <2> SUFFICES ASSUME SagaInv, FundingInv, MoneyInv, [Next]_vars,
                      rows' # rows \/ deposits' # deposits \/ sums' = sums
               PROVE  MoneyInv'
    OBVIOUS
  <2> QED
    BY MoneyErrors, NextErrors, StepSaga, StepMoney DEF ErrorsTell, SameErrors
<1> QED
  BY <1>1, InitMoney, AlwaysSaga, AlwaysFunding, PTL DEF Spec, PostedOnce

LEMMA AlwaysSeen == Spec /\ PostedOnce => []OnlyDepositsHide
<1>1. SagaInv /\ FundingInv /\ MoneyInv /\ Watched => OnlyDepositsHide
  <2> SUFFICES ASSUME SagaInv, FundingInv, MoneyInv, Watched,
                      NEW r \in Runners, rpc[r] = "compare"
               PROVE  internal[r] - Cash >=
                          AmountOf(InFlight) - Received(Arrived \ seen[r])
    BY DEF OnlyDepositsHide
  <2>1. AmountOf(Sent) \in Int /\ AmountOf(InFlight) \in Int
    BY MoneyInts, MoneySets
  <2>2. Cash = OpeningCash + Received(Arrived) - AmountOf(Sent)
    BY DEF Cash, Sent
  <2>3. Balance(Pool) \in Int /\ internal[r] \in Int
    BY MoneyErrors DEF ErrorsTell, SagaInv, RunsTypeOK
  <2>4. /\ Balance(Pool) - Cash = AmountOf(InFlight) - Received(Unposted)
        /\ Balance(Pool) - Received(Entered) <= internal[r] - Received(seen[r])
    BY DEF MoneyInv, DriftIsInFlight, Watched
  <2>5. /\ seen[r] \subseteq Entered /\ Entered \subseteq Arrived
        /\ Arrived = Unposted \cup Entered /\ Unposted \cap Entered = {}
    BY DEF FundingInv, DepositsTypeOK, Arrived, Entered, Unposted
  <2>6. Received(Arrived) = Received(Unposted) + Received(Entered)
    BY <2>5, DepositSets, ReceivedApart
  <2>7. Received(Arrived) = Received(seen[r]) + Received(Arrived \ seen[r])
    <3>1. /\ Arrived = seen[r] \cup (Arrived \ seen[r])
          /\ seen[r] \cap (Arrived \ seen[r]) = {}
          /\ seen[r] \in SUBSET Deposits /\ Arrived \ seen[r] \in SUBSET Deposits
      BY <2>5, DepositSets
    <3> QED
      BY <3>1, ReceivedApart
  <2>8. /\ Received(Arrived) \in Int /\ Received(Unposted) \in Int
        /\ Received(Entered) \in Int /\ Received(seen[r]) \in Int
        /\ Received(Arrived \ seen[r]) \in Int
    BY <2>5, DepositSets, ReceivedInt
  <2>9. Cash \in Int
    BY <2>1, <2>2, <2>8, OpeningIsInt
  <2> QED
    BY <2>1, <2>3, <2>4, <2>6, <2>7, <2>8, <2>9
<1> QED
  BY <1>1, AlwaysSaga, AlwaysFunding, AlwaysMoney, AlwaysWatched, PTL

(* Withdrawals.PostedOnce: if a run looks only at what nobody works on,    *)
(* every settlement and release is the first of its withdrawal.            *)
THEOREM QuietRunsPostOnce == ~Overlap => (Spec => PostedOnce)
<1> SUFFICES ASSUME ~Overlap PROVE Spec => PostedOnce
  OBVIOUS
<1>1. Spec => []AloneInv
  BY AlwaysAlone
<1>2. SagaInv /\ FundingInv /\ AloneInv /\ [Next]_vars =>
          [rows' # rows \/ deposits' # deposits]_sums
  <2>3. ASSUME FundingInv, Funds
        PROVE  deposits' # deposits
    BY <2>3, FundsSplit DEF FundingInv, DepositsTypeOK
  <2> SUFFICES ASSUME SagaInv, FirstTime
               PROVE  rows' # rows \/ sums' = sums
    BY <2>3, OneEffect
  <2>1. ASSUME NEW k \in Keys, NEW w \in Wallets, NEW n \in Nat, Reserves(k, w, n)
        PROVE  rows' # rows
    <3>1. [wallet |-> w, amount |-> n, status |-> "PENDING"] # NoRow
      BY RowFields, RowAssumption DEF Statuses
    <3> QED
      BY <2>1, <3>1 DEF Reserves, CreateRow, SagaInv, RunsTypeOK, SagaTypeOK
  <2>2. ASSUME NEW k \in Keys, Settles(k) \/ Releases(k), HasStatus(k, {"PROCESSING"})
        PROVE  rows' # rows
    <3>1. PICK s \in {"SUCCESSFUL", "FAILED"} : SetStatus(k, s)
      BY <2>2 DEF Settles, Releases, SettleTx, ReleaseTx
    <3>2. rows'[k].status = s /\ rows[k].status = "PROCESSING"
      BY <2>2, <3>1, SameAmounts DEF HasStatus, Statuses
    <3> QED
      BY <3>2
  <2> QED
    BY <2>1, <2>2 DEF FirstTime, Effect, NoMoney, Marks, Decides
<1> QED
  BY <1>1, <1>2, AlwaysSaga, AlwaysFunding, PTL DEF Spec, PostedOnce

(* Withdrawals.PendingCovers: if a run looks only at what nobody works on, *)
(* the pending account holds what is reserved, whatever dies or throws.    *)
THEOREM ReservationsCovered == ~Overlap => (Spec => []PendingCovers)
  BY QuietRunsPostOnce, AlwaysMoney, PTL DEF MoneyInv

(* Withdrawals.DebitedOnce: a wallet pays once for each withdrawal, and is *)
(* paid back those that failed.                                            *)
THEOREM WalletsDebitedOnce == ~Overlap => (Spec => []DebitedOnce)
  BY QuietRunsPostOnce, AlwaysMoney, PTL DEF MoneyInv

(* Withdrawals.DriftIsInFlight: the ledger and the partner's cash differ   *)
(* by the transfers sent and not settled, less the deposits received and   *)
(* not posted.                                                             *)
THEOREM DriftIsMoneyInFlight == ~Overlap => (Spec => []DriftIsInFlight)
  BY QuietRunsPostOnce, AlwaysMoney, PTL DEF MoneyInv

(* Reconciliation.OnlyDepositsHide: as the ledger is read before the       *)
(* partner, what a run compares falls short of the money in flight by no   *)
(* more than the deposits the partner holds and the ledger did not show.   *)
THEOREM ChecksMissDepositsOnly == ~Overlap => (Spec => []OnlyDepositsHide)
  BY QuietRunsPostOnce, AlwaysSeen, PTL
-----------------------------------------------------------------------------
(* Money goes from one account to another, whatever overlaps.              *)
Purses == SumFunctionOnSet([w \in Wallets |-> Balance(w)], Wallets)
Books  == Balance(Pool) - Balance(Pending) - Purses

LEMMA PursesMove ==
    ASSUME SagaInv, NEW v \in Wallets, NEW n \in Int,
           \A w \in Wallets : Balance(w)' = IF w = v THEN Balance(w) + n ELSE Balance(w)
    PROVE  Purses' = Purses + n /\ Purses \in Int
<1> DEFINE f == [w \in Wallets |-> Balance(w)]
           g == [w \in Wallets |-> Balance(w)']
<1>1. \A w \in Wallets : Balance(w) \in Int
  BY MoneyInts DEF Accounts
<1>2. /\ \A w \in Wallets : f[w] \in Int
      /\ \A w \in Wallets \ {v} : g[w] = f[w]
      /\ g[v] = f[v] + n /\ g[v] \in Int
  BY <1>1
<1>3. Purses = SumFunctionOnSet(f, Wallets) /\ Purses' = SumFunctionOnSet(g, Wallets)
  BY DEF Purses
<1> HIDE DEF f, g
<1>4. /\ SumFunctionOnSet(g, Wallets) = SumFunctionOnSet(f, Wallets) - f[v] + g[v]
      /\ SumFunctionOnSet(f, Wallets) \in Int
  BY <1>2, FiniteAssumption, SumChange, SumInt
<1> QED
  BY <1>2, <1>3, <1>4

LEMMA StepBooks == SagaInv /\ [Next]_vars => Books' = Books
<1> SUFFICES ASSUME SagaInv, Funds \/ AnyTime PROVE Books' = Books
  BY AnyEffect
<1>1. /\ Balance(Pool) \in Int /\ Balance(Pending) \in Int
      /\ \A w \in Wallets : Balance(w) \in Int
  BY MoneyInts DEF Accounts
<1>2. ASSUME sums' = sums PROVE Books' = Books
  BY <1>2 DEF Books, Purses, Balance
<1>5. ASSUME NEW w \in Wallets, NEW n \in Nat, SaveTransaction(Receipt(w, n))
      PROVE  Books' = Books
  <2>1. /\ Balance(Pending)' = Balance(Pending) /\ Balance(Pool)' = Balance(Pool) + n
        /\ \A v \in Wallets : Balance(v)' = IF v = w THEN Balance(v) + n ELSE Balance(v)
    BY <1>5, ReceiptMoves
  <2>2. Purses' = Purses + n /\ Purses \in Int
    BY <2>1, PursesMove
  <2> QED
    BY <1>1, <2>1, <2>2 DEF Books
<1>3. ASSUME NEW k \in Keys, NEW w \in Wallets, NEW n \in Nat, Reserves(k, w, n)
      PROVE  Books' = Books
  <2>1. /\ Balance(Pending)' = Balance(Pending) + n /\ Balance(Pool)' = Balance(Pool)
        /\ \A v \in Wallets : Balance(v)' = IF v = w THEN Balance(v) + (-n) ELSE Balance(v)
    BY <1>1, <1>3, ReserveMoves DEF Reserves
  <2>2. Purses' = Purses + (-n) /\ Purses \in Int
    BY <2>1, PursesMove
  <2> QED
    BY <1>1, <2>1, <2>2 DEF Books
<1>4. ASSUME NEW k \in Keys, Settles(k) \/ Releases(k), rows[k] # NoRow
      PROVE  Books' = Books
  <2>1. rows[k].wallet \in Wallets /\ rows[k].amount \in Nat
    BY <1>4, RowFields DEF SagaInv, RunsTypeOK, SagaTypeOK
  <2>2. PICK n \in {0, rows[k].amount} :
           /\ Balance(Pending)' = Balance(Pending) - rows[k].amount
           /\ Balance(Pool)' = Balance(Pool) - rows[k].amount + n
           /\ \A v \in Wallets : Balance(v)' =
                  IF v = rows[k].wallet THEN Balance(v) + n ELSE Balance(v)
    <3>1. CASE Settles(k)
      <4>1. /\ Balance(Pending)' = Balance(Pending) - rows[k].amount
            /\ Balance(Pool)' = Balance(Pool) - rows[k].amount
            /\ \A v \in Wallets : Balance(v)' = Balance(v)
        BY <1>4, <3>1, SettleMoves DEF Settles
      <4> QED
        BY <1>1, <2>1, <4>1
    <3>2. CASE Releases(k)
      <4>1. /\ Balance(Pending)' = Balance(Pending) - rows[k].amount
            /\ Balance(Pool)' = Balance(Pool)
            /\ \A v \in Wallets : Balance(v)' =
                   IF v = rows[k].wallet THEN Balance(v) + rows[k].amount
                                         ELSE Balance(v)
        BY <1>4, <3>2, ReleaseMoves DEF Releases
      <4> QED
        BY <1>1, <2>1, <4>1
    <3> QED
      BY <1>4, <3>1, <3>2
  <2>3. Purses' = Purses + n /\ Purses \in Int
    BY <2>1, <2>2, PursesMove
  <2> QED
    BY <1>1, <2>1, <2>2, <2>3 DEF Books
<1> QED
  BY <1>2, <1>3, <1>4, <1>5, FundsSplit, DepositFields
     DEF AnyTime, Effect, NoMoney, Marks, Decides, HasStatus

LEMMA InitBooks == Init => Books = 0
<1> SUFFICES ASSUME Init PROVE Books = 0
  OBVIOUS
<1>1. /\ Balance(Pending) = 0 /\ Balance(Pool) = OpeningCash
      /\ \A w \in Wallets : Balance(w) = OpeningBalance[w]
  BY InitBalances
<1>2. [w \in Wallets |-> Balance(w)] = OpeningBalance
  BY <1>1, WalletAssumption
<1> QED
  BY <1>1, <1>2, OpeningIsInt DEF Books, Purses, OpeningCash

(* Withdrawals.NobodyOverpays: what runs and requests do to a withdrawal   *)
(* twice never costs its owner, nor makes money, whatever overlaps.        *)
THEOREM NobodyEverOverpays == Spec => []NobodyOverpays
<1>1. SagaInv /\ MoneyInv => ErrsOneWay
  BY MoneyErrors DEF ErrorsTell, ErrsOneWay
<1>2. SagaInv /\ ErrsOneWay /\ Books = 0 => NobodyOverpays
  <2> SUFFICES ASSUME SagaInv, ErrsOneWay, Books = 0 PROVE NobodyOverpays
    OBVIOUS
  <2>1. Purses \in Int /\ Balance(Pool) \in Int /\ Balance(Pending) \in Int
    <3>1. \A w \in Wallets : Balance(w) \in Int
      BY MoneyInts DEF Accounts
    <3>2. \A w \in Wallets : [v \in Wallets |-> Balance(v)][w] \in Int
      BY <3>1
    <3> QED
      BY <3>2, FiniteAssumption, SumInt, MoneyInts DEF Purses, Accounts
  <2>2. Balance(Pool) = Balance(Pending) + Purses
    BY <2>1 DEF Books
  <2> QED
    BY <2>2, MoneyErrors DEF ErrorsTell, NobodyOverpays, Purses
<1>3. SagaInv /\ FundingInv /\ ErrsOneWay /\ [Next]_vars => ErrsOneWay'
  BY StepMoney
<1>4. SagaInv /\ Books = 0 /\ [Next]_vars => (Books = 0)'
  BY StepBooks
<1> QED
  BY <1>1, <1>2, <1>3, <1>4, InitMoney, InitBooks, AlwaysSaga, AlwaysFunding,
     PTL DEF Spec
-----------------------------------------------------------------------------
(* The owner's view.                                                       *)
Stages    == [k \in Keys |-> Stage(k)]
AllTerms  == [k \in Keys |-> TermsOf(k)]
Available == [w \in Wallets |-> Balance(w)]

LEMMA InitOwner == Init => Owner!Init
<1> SUFFICES ASSUME Init PROVE Owner!Init
  OBVIOUS
<1>1. ASSUME NEW k \in Keys PROVE Stage(k) = "none" /\ TermsOf(k) = NoRow
  <2>1. rows[k] = NoRow
    BY DEF Init, SagaInit
  <2> QED
    BY <2>1 DEF Stage, TermsOf, HasStatus
<1>2. \A w \in Wallets : Balance(w) = OpeningBalance[w] /\ OpeningBalance[w] \in Nat
  <2>1. \A w \in Wallets : /\ w \in Accounts /\ w \in Liability
                           /\ OpeningBalance[w] \in Nat
                           /\ Funded[w]["DEBIT"] = 0
                           /\ Funded[w]["CREDIT"] = OpeningBalance[w]
    BY WalletAssumption DEF Accounts, Liability, Funded, Directions
  <2> QED
    BY <2>1 DEF Init, SagaInit, Balance, BalanceOf
<1>3. Entered = {}
  BY DEF Init, SagaInit, Entered
<1> QED
  BY <1>1, <1>2, <1>3 DEF Owner!Init

(* What of a withdrawal its owner can see comes from its row and its rail. *)
LEMMA SameView ==
    ASSUME NEW k, rows'[k] = rows[k], rail'[k] = rail[k]
    PROVE  Stage(k)' = Stage(k) /\ TermsOf(k)' = TermsOf(k)
  BY DEF Stage, TermsOf, HasStatus

(* A change of one withdrawal's stage.                                     *)
LEMMA OneMove ==
    ASSUME NEW k \in Keys, NEW from, NEW to, Stage(k) = from, Stage(k)' = to,
           \A j \in Keys : j # k => Stage(j)' = Stage(j)
    PROVE  Owner!Move(k, from, to)
<1>1. Stages' = [Stages EXCEPT ![k] = to] /\ Stages[k] = from
  BY DEF Stages
<1> QED
  BY <1>1 DEF Owner!Move, Stages

LEMMA StageOfRow ==
    ASSUME NEW k, rows[k] # NoRow, rows[k].status \in {"PENDING", "PROCESSING"}
    PROVE  Stage(k) = CASE rail[k] = "unseen" -> "held"
                        [] rail[k] = "rejected" -> "refused"
                        [] OTHER -> rail[k]
  BY DEF Stage, HasStatus

(* What is posted once is a step of the owner's view, or none.             *)
LEMMA OnceOwner ==
    ASSUME SagaInv, NoMoney \/ FirstTime
    PROVE  Owner!WithdrawalStep \/ UNCHANGED <<Stages, AllTerms, Available>>
<1>1. /\ rows \in [Keys -> Rows \cup {NoRow}]
      /\ rail \in [Keys -> {"unseen", "undecided", "sent", "rejected"}]
  BY DEF SagaInv, RunsTypeOK, SagaTypeOK
<1>2. ASSUME \A k \in Keys : Stage(k)' = Stage(k) /\ TermsOf(k)' = TermsOf(k),
             sums' = sums
      PROVE  UNCHANGED <<Stages, AllTerms, Available>>
  <2>1. Stages' = Stages /\ AllTerms' = AllTerms
    BY <1>2 DEF Stages, AllTerms
  <2>2. Available' = Available
    BY <1>2 DEF Available, Balance
  <2> QED
    BY <2>1, <2>2
<1>3. CASE NoMoney
  BY <1>2, <1>3, SameView DEF NoMoney
<1>4. ASSUME NEW k \in Keys, NEW w \in Wallets, NEW n \in Nat, Reserves(k, w, n)
      PROVE  Owner!WithdrawalStep
  <2>1. /\ rows[k] = NoRow /\ rail[k] = "unseen" /\ rail' = rail
        /\ rows'[k] = [wallet |-> w, amount |-> n, status |-> "PENDING"]
        /\ rows'[k] # NoRow
        /\ \A j \in Keys : j # k => rows'[j] = rows[j]
    <3>1. [wallet |-> w, amount |-> n, status |-> "PENDING"] \in Rows
      BY RowFields DEF Statuses
    <3> QED
      BY <1>1, <1>4, <3>1, RowAssumption DEF Reserves, CreateRow
  <2>2. Owner!Move(k, "none", "held")
    <3>1. Stage(k) = "none" /\ Stage(k)' = "held"
      BY <2>1 DEF Stage, HasStatus
    <3> QED
      BY <2>1, <3>1, SameView, OneMove
  <2>3. AllTerms' = [AllTerms EXCEPT ![k] = [wallet |-> w, amount |-> n]]
    <3>1. TermsOf(k)' = [wallet |-> w, amount |-> n]
      BY <2>1 DEF TermsOf
    <3>2. \A j \in Keys : j # k => TermsOf(j)' = TermsOf(j)
      BY <2>1, SameView
    <3> QED
      BY <3>1, <3>2 DEF AllTerms
  <2>4. /\ Balance(w) >= n /\ Balance(w) \in Int
        /\ \A v \in Wallets : Balance(v)' = IF v = w THEN Balance(v) - n
                                            ELSE Balance(v)
    BY <1>4, ReserveMoves DEF Reserves, Accounts
  <2>5. /\ Available' = [Available EXCEPT ![w] = @ - n]
        /\ n \in 0 .. Available[w]
    <3>1. Available[w] = Balance(w) /\ DOMAIN Available = Wallets
      BY DEF Available
    <3>2. n \in 0 .. Available[w]
      BY <2>4, <3>1
    <3>3. Available' = [v \in Wallets |-> IF v = w THEN Balance(v) - n ELSE Balance(v)]
      BY <2>4 DEF Available
    <3>4. [Available EXCEPT ![w] = @ - n] =
              [v \in Wallets |-> IF v = w THEN Balance(v) - n ELSE Balance(v)]
      BY DEF Available
    <3> QED
      BY <3>2, <3>3, <3>4
  <2>6. Owner!Hold(k, w, n)
    BY <2>2, <2>3, <2>5 DEF Owner!Hold, AllTerms, Available
  <2> QED
    BY <2>5, <2>6 DEF Owner!WithdrawalStep, Available
<1>5. ASSUME NEW k \in Keys, Marks(k)
      PROVE  UNCHANGED <<Stages, AllTerms, Available>>
  <2>1. /\ rows[k] # NoRow /\ rows[k].status = "PENDING"
        /\ rows[k] \in Rows /\ rail' = rail /\ sums' = sums
        /\ SetStatus(k, "PROCESSING")
    BY <1>1, <1>5 DEF Marks, HasStatus
  <2>2. /\ rows'[k] # NoRow /\ rows'[k].status = "PROCESSING"
        /\ rows'[k].wallet = rows[k].wallet /\ rows'[k].amount = rows[k].amount
        /\ \A j \in Keys : j # k => rows'[j] = rows[j]
    BY <1>1, <2>1, StatusSet, RowAssumption DEF Statuses
  <2>3. Stage(k)' = Stage(k) /\ TermsOf(k)' = TermsOf(k)
    BY <2>1, <2>2 DEF Stage, TermsOf, HasStatus
  <2> QED
    BY <1>2, <2>1, <2>2, <2>3, SameView
<1>6. ASSUME NEW k \in Keys, NEW fate \in {"sent", "rejected", "undecided"},
             Decides(k, fate)
      PROVE  Owner!WithdrawalStep
  <2>1. /\ rows' = rows /\ sums' = sums /\ rail'[k] = fate
        /\ rail[k] \in {"unseen", "undecided"}
        /\ fate = "undecided" => rail[k] = "unseen"
        /\ \A j \in Keys : j # k => rail'[j] = rail[j]
        /\ rows[k] # NoRow /\ rows[k].status = "PROCESSING"
    BY <1>1, <1>6 DEF Decides, HasStatus
  <2>2. /\ Stage(k) = IF rail[k] = "unseen" THEN "held" ELSE "undecided"
        /\ Stage(k)' = IF fate = "rejected" THEN "refused" ELSE fate
    BY <2>1 DEF Stage, HasStatus
  <2>3. Owner!Move(k, Stage(k), Stage(k)')
    BY <2>1, SameView, OneMove
  <2>4. UNCHANGED <<AllTerms, Available>>
    BY <2>1 DEF AllTerms, TermsOf, Available, Balance
  <2>5. CASE rail[k] = "unseen"
    BY <2>1, <2>2, <2>3, <2>4, <2>5 DEF Owner!WithdrawalStep, Owner!Ask, AllTerms, Available
  <2>6. CASE rail[k] = "undecided"
    BY <2>1, <2>2, <2>3, <2>4, <2>6 DEF Owner!WithdrawalStep, Owner!Decide, AllTerms, Available
  <2> QED
    BY <2>1, <2>5, <2>6
<1>7. ASSUME NEW k \in Keys, NEW s \in {"SUCCESSFUL", "FAILED"}, SetStatus(k, s),
             HasStatus(k, {"PROCESSING"}), rail' = rail,
             rail[k] = IF s = "FAILED" THEN "rejected" ELSE "sent"
      PROVE  /\ s = "SUCCESSFUL" => Owner!Move(k, "sent", "settled")
             /\ s = "FAILED" => Owner!Move(k, "refused", "returned")
             /\ AllTerms' = AllTerms
             /\ AllTerms[k] = [wallet |-> rows[k].wallet, amount |-> rows[k].amount]
  <2>1. rows[k] # NoRow /\ rows[k].status = "PROCESSING"
    BY <1>7 DEF HasStatus
  <2>2. /\ rows'[k] # NoRow /\ rows'[k].status = s
        /\ rows'[k].wallet = rows[k].wallet /\ rows'[k].amount = rows[k].amount
        /\ \A j \in Keys : j # k => rows'[j] = rows[j]
    BY <1>1, <1>7, <2>1, StatusSet, RowAssumption DEF Statuses
  <2>3. TermsOf(k)' = TermsOf(k)
        /\ TermsOf(k) = [wallet |-> rows[k].wallet, amount |-> rows[k].amount]
    BY <2>1, <2>2 DEF TermsOf
  <2>4. /\ Stage(k) = IF s = "FAILED" THEN "refused" ELSE "sent"
        /\ Stage(k)' = IF s = "FAILED" THEN "returned" ELSE "settled"
    BY <1>7, <2>1, <2>2 DEF Stage, HasStatus
  <2>5. \A j \in Keys : j # k => Stage(j)' = Stage(j) /\ TermsOf(j)' = TermsOf(j)
    BY <1>7, <2>2, SameView
  <2>6. AllTerms' = AllTerms
    BY <2>3, <2>5 DEF AllTerms
  <2> QED
    BY <2>3, <2>4, <2>5, <2>6, OneMove DEF AllTerms
<1>8. ASSUME NEW k \in Keys, Settles(k), HasStatus(k, {"PROCESSING"})
      PROVE  Owner!WithdrawalStep
  <2>1. Owner!Move(k, "sent", "settled") /\ AllTerms' = AllTerms
    BY <1>7, <1>8 DEF Settles, SettleTx
  <2>2. \A w \in Wallets : Balance(w)' = Balance(w)
    BY <1>8, SettleMoves DEF Settles, HasStatus
  <2>3. Available' = Available
    BY <2>2 DEF Available
  <2> QED
    BY <2>1, <2>3 DEF Owner!WithdrawalStep, Owner!Settle, AllTerms, Available
<1>9. ASSUME NEW k \in Keys, Releases(k), HasStatus(k, {"PROCESSING"})
      PROVE  Owner!WithdrawalStep
  <2>1. /\ Owner!Move(k, "refused", "returned") /\ AllTerms' = AllTerms
        /\ AllTerms[k] = [wallet |-> rows[k].wallet, amount |-> rows[k].amount]
    BY <1>7, <1>9 DEF Releases, ReleaseTx
  <2>2. \A w \in Wallets : Balance(w)' =
            IF w = rows[k].wallet THEN Balance(w) + rows[k].amount ELSE Balance(w)
    BY <1>9, ReleaseMoves DEF Releases, HasStatus
  <2>3. rows[k].wallet \in Wallets
    BY <1>1, <1>9, RowFields DEF HasStatus
  <2>4. Available' = [Available EXCEPT ![AllTerms[k].wallet] = @ + AllTerms[k].amount]
    BY <2>1, <2>2, <2>3 DEF Available
  <2>5. Owner!GiveBack(k)
    BY <2>1, <2>4 DEF Owner!GiveBack, AllTerms, Available
  <2> QED
    BY <2>5 DEF Owner!WithdrawalStep
<1> QED
  BY <1>3, <1>4, <1>5, <1>6, <1>8, <1>9 DEF FirstTime, Effect

LEMMA FundOwner ==
    ASSUME SagaInv, FundingInv, Funds
    PROVE  \/ \E d \in Deposits : Owner!Fund(d)
           \/ UNCHANGED <<Stages, AllTerms, Available, Entered>>
<1>1. /\ deposits \in [Deposits -> {"expected", "arrived", "posted"}]
      /\ UNCHANGED <<rows, rail>>
  BY FundsSplit DEF FundingInv, DepositsTypeOK
<1>2. Stages' = Stages /\ AllTerms' = AllTerms
  BY <1>1, SameView DEF Stages, AllTerms
<1>3. ASSUME NEW d \in Deposits, deposits[d] = "expected", sums' = sums,
             deposits' = [deposits EXCEPT ![d] = "arrived"]
      PROVE  UNCHANGED <<Available, Entered>>
  BY <1>1, <1>3 DEF Available, Balance, Entered
<1>4. ASSUME NEW d \in Deposits, deposits[d] = "arrived",
             SaveTransaction(Receipt(DepositOf[d].wallet, DepositOf[d].amount)),
             deposits' = [deposits EXCEPT ![d] = "posted"]
      PROVE  Owner!Fund(d)
  <2>1. d \notin Entered /\ Entered' = Entered \cup {d}
    BY <1>1, <1>4 DEF Entered
  <2>2. DepositOf[d].wallet \in Wallets /\ DepositOf[d].amount \in Nat
    BY DepositFields
  <2>3. \A v \in Wallets : Balance(v)' =
            IF v = DepositOf[d].wallet THEN Balance(v) + DepositOf[d].amount
                                       ELSE Balance(v)
    BY <1>4, <2>2, ReceiptMoves
  <2>4. Available' = [Available EXCEPT ![DepositOf[d].wallet] =
                          @ + DepositOf[d].amount]
    BY <2>2, <2>3 DEF Available
  <2> QED
    BY <1>2, <2>1, <2>4 DEF Owner!Fund, Stages, AllTerms, Available
<1> QED
  BY <1>2, <1>3, <1>4, FundsSplit

LEMMA StepOwner ==
    SagaInv /\ FundingInv /\ [Next]_vars
        /\ [rows' # rows \/ deposits' # deposits]_sums
            => [Owner!Next]_(Owner!vars)
<1> SUFFICES ASSUME SagaInv, FundingInv,
                    Funds \/ (deposits' = deposits /\ (NoMoney \/ FirstTime))
             PROVE  Owner!Next \/ UNCHANGED Owner!vars
  BY AgainOrOnce, SameRows DEF NoMoney
<1>1. CASE Funds
  BY <1>1, FundOwner DEF Owner!Next, Owner!vars, Stages, AllTerms, Available
<1>2. CASE deposits' = deposits /\ (NoMoney \/ FirstTime)
  <2>1. Entered' = Entered
    BY <1>2 DEF Entered
  <2> QED
    BY <1>2, <2>1, OnceOwner DEF Owner!Next, Owner!vars, Stages, AllTerms, Available
<1> QED
  BY <1>1, <1>2

LEMMA AlwaysPromised == Spec /\ PostedOnce => ImplementsWithdrawal
  BY InitOwner, StepOwner, AlwaysSaga, AlwaysFunding, PTL
     DEF Spec, PostedOnce, ImplementsWithdrawal, Owner!Spec

(* Withdrawals.ImplementsWithdrawal: if a run looks only at what nobody    *)
(* works on, the saga does what AbstractWithdrawal promises the owner.     *)
THEOREM SagaImplementsPromise == ~Overlap => (Spec => ImplementsWithdrawal)
  BY QuietRunsPostOnce, AlwaysPromised, PTL

-----------------------------------------------------------------------------
(* What the saga does to the ledger.  Amounts are those of the requests,   *)
(* and no LIABILITY account is overdrawn, whatever overlaps.               *)
AmountsAsked == \A k \in Keys : rows[k] # NoRow => rows[k].amount \in Asked
Solvent      == \A a \in Liability : Balance(a) >= 0

LEMMA StepAmounts == SagaInv /\ AmountsAsked /\ [Next]_vars => AmountsAsked'
<1> SUFFICES ASSUME SagaInv, AmountsAsked, Funds \/ AnyTime
             PROVE  AmountsAsked'
  BY AnyEffect
<1>1. rows \in [Keys -> Rows \cup {NoRow}]
  BY DEF SagaInv, RunsTypeOK, SagaTypeOK
<1>2. ASSUME rows' = rows PROVE AmountsAsked'
  BY <1>2 DEF AmountsAsked, Asked
<1>3. ASSUME NEW k \in Keys, NEW s \in Statuses, rows[k] # NoRow, SetStatus(k, s)
      PROVE  AmountsAsked'
  BY <1>1, <1>3, StatusSet DEF AmountsAsked, Asked
<1>4. ASSUME NEW k \in Keys, NEW w \in Wallets, NEW n \in Nat, Reserves(k, w, n)
      PROVE  AmountsAsked'
  BY <1>1, <1>4 DEF Reserves, CreateRow, AmountsAsked, Asked
<1> QED
  BY <1>2, <1>3, <1>4, FundsSplit
     DEF AnyTime, Effect, NoMoney, Marks, Decides, Settles, SettleTx, Releases,
         ReleaseTx, HasStatus, Statuses

(* The list a step posts moves an amount between two accounts.             *)
Posts(t, a, b, n) ==
    /\ a \in Accounts /\ b \in Accounts /\ a # b /\ n \in Nat
    /\ t \in Lists /\ t = <<Debit(a, n, Currency), Credit(b, n, Currency)>>
    /\ SaveTransaction(t)

LEMMA ReservePosts ==
    ASSUME NEW k, NEW w \in Wallets, NEW n \in Nat, Reserves(k, w, n)
    PROVE  \E t : Posts(t, w, Pending, n)
<1>1. Reservation(w, n) \in Lists
  BY DEF Reserves, Lists
<1>2. w \in Accounts /\ Pending \in Accounts /\ w # Pending
  BY WalletAssumption DEF Accounts
<1>3. SaveTransaction(Reservation(w, n))
  BY DEF Reserves
<1> QED
  BY <1>1, <1>2, <1>3 DEF Posts, Reservation

LEMMA ResolvePosts ==
    ASSUME SagaInv, AmountsAsked, NEW k \in Keys, rows[k] # NoRow,
           Settles(k) \/ Releases(k)
    PROVE  \E t \in Lists, a \in Accounts, b \in Accounts, n \in Nat : Posts(t, a, b, n)
<1>1. /\ rows[k].amount \in Asked /\ rows[k].amount \in Nat
      /\ rows[k] \in Rows
  BY RowFields DEF AmountsAsked, SagaInv, RunsTypeOK, SagaTypeOK
<1>2. /\ Pending \in Accounts /\ Pool \in Accounts /\ Pending # Pool
      /\ \A w \in Wallets : w \in Accounts /\ w # Pending
  BY WalletAssumption DEF Accounts
<1>3. CASE Settles(k)
  <2>1. Settlement(rows[k].amount) \in Lists
    BY <1>1 DEF Lists
  <2>2. SaveTransaction(Settlement(rows[k].amount))
    BY <1>3 DEF Settles, SettleTx
  <2>3. Posts(Settlement(rows[k].amount), Pending, Pool, rows[k].amount)
    BY <1>1, <1>2, <2>1, <2>2 DEF Posts, Settlement
  <2> QED
    BY <1>1, <1>2, <2>1, <2>3
<1>4. CASE Releases(k)
  <2>1. PICK w \in WalletToRefund(k) : SaveTransaction(Reversal(w, rows[k].amount))
    BY <1>4 DEF Releases, ReleaseTx
  <2>2. w \in Wallets /\ Reversal(w, rows[k].amount) \in Lists
    BY <1>1 DEF WalletToRefund, FindByUserId, Lists
  <2>3. Posts(Reversal(w, rows[k].amount), Pending, w, rows[k].amount)
    BY <1>1, <1>2, <2>1, <2>2 DEF Posts, Reversal
  <2> QED
    BY <1>1, <1>2, <2>2, <2>3
<1> QED
  BY <1>3, <1>4

LEMMA ReceiptPosts ==
    ASSUME NEW d \in Deposits,
           SaveTransaction(Receipt(DepositOf[d].wallet, DepositOf[d].amount))
    PROVE  \E t \in Lists, w \in Wallets, n \in Nat : Posts(t, Pool, w, n)
<1>1. /\ DepositOf[d].wallet \in Wallets /\ DepositOf[d].amount \in Nat
      /\ Receipt(DepositOf[d].wallet, DepositOf[d].amount) \in Lists
  BY DepositFields DEF Lists
<1>2. /\ Pool \in Accounts /\ DepositOf[d].wallet \in Accounts
      /\ DepositOf[d].wallet # Pool
  BY <1>1, WalletAssumption DEF Accounts
<1>3. Posts(Receipt(DepositOf[d].wallet, DepositOf[d].amount), Pool,
            DepositOf[d].wallet, DepositOf[d].amount)
  BY <1>1, <1>2 DEF Posts, Receipt
<1> QED
  BY <1>1, <1>3

LEMMA PostsSolvent ==
    ASSUME SagaInv, Solvent, NEW t, NEW a, NEW b, NEW n, Posts(t, a, b, n)
    PROVE  Solvent'
<1>1. SaveTransaction(<<Debit(a, n, Currency), Credit(b, n, Currency)>>)
      /\ sums \in [Accounts -> [Directions -> Nat]]
      /\ a \in Accounts /\ b \in Accounts /\ a # b /\ n \in Nat
  BY DEF Posts, SagaInv, RunsTypeOK, SagaTypeOK
<1>2. ASSUME NEW x \in Liability PROVE Balance(x)' >= 0
  <2>1. x \in Accounts /\ Balance(x) >= 0
    BY DEF Liability, Accounts, Solvent
  <2>2. /\ Balance(x) \in Int
        /\ x \notin {a, b} => Balance(x)' = Balance(x)
        /\ x = a => Balance(a) >= n /\ Balance(x)' = Balance(x) - n
        /\ x = b => Balance(x)' = Balance(x) + n
    BY <1>1, <2>1, Movement
  <2> QED
    BY <1>1, <2>1, <2>2
<1> QED
  BY <1>2 DEF Solvent, Liability

LEMMA StepSolvent ==
    SagaInv /\ AmountsAsked /\ Solvent /\ [Next]_vars => Solvent'
<1> SUFFICES ASSUME SagaInv, AmountsAsked, Solvent, Funds \/ AnyTime
             PROVE  Solvent'
  BY AnyEffect
<1>1. ASSUME sums' = sums PROVE Solvent'
  BY <1>1 DEF Solvent, Balance, Liability
<1>2. ASSUME NEW k \in Keys, NEW w \in Wallets, NEW n \in Nat, Reserves(k, w, n)
      PROVE  Solvent'
  BY <1>2, ReservePosts, PostsSolvent
<1>3. ASSUME NEW k \in Keys, rows[k] # NoRow, Settles(k) \/ Releases(k)
      PROVE  Solvent'
  BY <1>3, ResolvePosts, PostsSolvent
<1> QED
  BY <1>1, <1>2, <1>3, FundsSplit, ReceiptPosts, PostsSolvent
     DEF AnyTime, Effect, NoMoney, Marks, Decides, HasStatus

LEMMA AlwaysSolvent == Spec => [](AmountsAsked /\ Solvent)
<1>1. Init => AmountsAsked
  BY DEF Init, SagaInit, AmountsAsked
<1>2. Init => Solvent
  <2> SUFFICES ASSUME Init, NEW a \in Liability PROVE Balance(a) >= 0
    BY DEF Solvent
  <2> QED
    BY InitBalances, WalletAssumption DEF Liability
<1> QED
  BY <1>1, <1>2, StepAmounts, StepSolvent, AlwaysSaga, PTL DEF Spec

LEMMA SamePostings ==
    ASSUME NEW s, NEW t
    PROVE  /\ Promise!Balanced(t) = Balanced(t)
           /\ Promise!AccountsOf(t) = AccountsOf(t)
           /\ Promise!Added(s, t) = Added(s, t)
<1>1. \A f : Promise!SumFunction(f) = SumFunction(f)
  BY DEF Promise!SumFunction, SumFunction, Promise!SumFunctionOnSet,
         SumFunctionOnSet, Promise!FoldFunctionOnSet, FoldFunctionOnSet,
         Promise!MapThenFoldSet, MapThenFoldSet
<1>2. \A a, d : Promise!Posted(t, a, d) = Posted(t, a, d)
  BY <1>1 DEF Promise!Posted, Posted
<1>3. Promise!Balanced(t) = Balanced(t)
  BY <1>1 DEF Promise!Balanced, Balanced, Promise!SignedAmount, SignedAmount
<1>4. Promise!Added(s, t) = Added(s, t)
  BY <1>2 DEF Promise!Added, Added, Promise!Directions, Directions
<1> QED
  BY <1>3, <1>4 DEF Promise!AccountsOf, AccountsOf

(* A row that is stored or resolved answers one call of the ledger.        *)
LEMMA PostAnswers ==
    ASSUME SagaInv', Solvent', NEW c \in LedgerCalls, Answer[c] = "pending",
           Answer' = [Answer EXCEPT ![c] = "posted"],
           NEW a \in Accounts, NEW b \in Accounts, NEW n \in Nat,
           NEW t, Posts(t, a, b, n)
    PROVE  Promise!Next
<1>1. /\ t \in Lists /\ t = <<Debit(a, n, Currency), Credit(b, n, Currency)>>
      /\ sums' = Added(sums, t)
  BY DEF Posts, SaveTransaction
<1>2. /\ Balanced(t) /\ DOMAIN t = {1, 2} /\ AccountsOf(t) = {a, b}
      /\ \A i \in DOMAIN t : t[i].currency = Currency
  BY <1>1, MovementBalanced
<1>3. \A i \in DOMAIN t : /\ t[i].account \in Accounts
                         /\ t[i].currency =
                               [x \in Accounts |-> Currency][t[i].account]
  BY <1>1, <1>2 DEF AccountsOf
<1>4. ASSUME NEW x \in Liability PROVE Promise!Covers(sums', x)
  <2>1. sums'[x]["DEBIT"] \in Nat /\ sums'[x]["CREDIT"] \in Nat
    BY DEF SagaInv, RunsTypeOK, SagaTypeOK, Accounts, Liability, Directions
  <2>2. sums'[x]["CREDIT"] - sums'[x]["DEBIT"] >= 0
    BY DEF Solvent, Balance, BalanceOf
  <2> QED
    BY <2>1, <2>2 DEF Promise!Covers
<1> QED
  BY <1>1, <1>2, <1>3, <1>4, SamePostings DEF Promise!Next, Promise!Post

(* A row answers a call once it is there, and the other once it is closed. *)
AnswersOf(k) == <<rows[k] = NoRow, k \in Open>>

LEMMA SameAnswers ==
    ASSUME deposits' = deposits, \A k \in Keys : AnswersOf(k)' = AnswersOf(k)
    PROVE  Answer' = Answer
<1>1. ASSUME NEW c \in LedgerCalls PROVE Waiting(c)' = Waiting(c)
  <2>1. CASE c[1] = "deposit"
    BY <2>1 DEF Waiting
  <2>2. CASE c[1] # "deposit"
    <3>1. c[2] \in Keys
      BY <2>2 DEF LedgerCalls, SagaCalls
    <3>2. /\ (rows[c[2]] = NoRow) = (rows'[c[2]] = NoRow)
          /\ (c[2] \in Open) = (c[2] \in Open')
      BY <3>1 DEF AnswersOf
    <3> QED
      BY <2>2, <3>2 DEF Waiting
  <2> QED
    BY <2>1, <2>2
<1> QED
  BY <1>1 DEF Answer

(* If one call stops waiting, it is the one that is answered.              *)
LEMMA AnswerOf ==
    ASSUME NEW call \in LedgerCalls, Waiting(call), ~Waiting(call)',
           \A c \in LedgerCalls : c # call => Waiting(c)' = Waiting(c)
    PROVE  /\ Answer[call] = "pending"
           /\ Answer' = [Answer EXCEPT ![call] = "posted"]
  BY DEF Answer

LEMMA OneAnswer ==
    ASSUME NEW k \in Keys, NEW call \in {"reserve", "resolve"},
           deposits' = deposits,
           \A j \in Keys : j # k => AnswersOf(j)' = AnswersOf(j),
           CASE call = "reserve" -> rows[k] = NoRow /\ rows'[k] # NoRow /\ k \in Open'
             [] call = "resolve" -> rows[k] # NoRow /\ rows'[k] # NoRow
                                    /\ k \in Open /\ k \notin Open'
    PROVE  /\ <<call, k>> \in LedgerCalls /\ Answer[<<call, k>>] = "pending"
           /\ Answer' = [Answer EXCEPT ![<<call, k>>] = "posted"]
<1>1. <<call, k>> \in LedgerCalls
  BY DEF LedgerCalls, SagaCalls
<1>2. Waiting(<<call, k>>) /\ ~Waiting(<<call, k>>)'
  BY DEF Waiting
<1>3. ASSUME NEW c \in LedgerCalls, c # <<call, k>>
      PROVE  Waiting(c)' = Waiting(c)
  <2>1. CASE c[1] = "deposit"
    BY <2>1 DEF Waiting
  <2>2. CASE c[1] # "deposit" /\ c[2] # k
    <3>1. c[2] \in Keys
      BY <2>2 DEF LedgerCalls, SagaCalls
    <3>2. /\ (rows[c[2]] = NoRow) = (rows'[c[2]] = NoRow)
          /\ (c[2] \in Open) = (c[2] \in Open')
      BY <2>2, <3>1 DEF AnswersOf
    <3> QED
      BY <2>2, <3>2 DEF Waiting
  <2>3. CASE c[1] # "deposit" /\ c[2] = k
    <3>1. c[1] \in {"reserve", "resolve"} /\ c[1] # call
      BY <1>3, <2>3 DEF LedgerCalls, SagaCalls
    <3> QED
      BY <2>3, <3>1 DEF Waiting, Open, KeysWith, HasStatus
  <2> QED
    BY <2>1, <2>2, <2>3
<1> QED
  BY <1>1, <1>2, <1>3, AnswerOf

LEMMA FundAnswer ==
    ASSUME FundingInv, Funds, NEW d \in Deposits, deposits[d] = "arrived",
           deposits' = [deposits EXCEPT ![d] = "posted"]
    PROVE  /\ <<"deposit", d>> \in LedgerCalls
           /\ Answer[<<"deposit", d>>] = "pending"
           /\ Answer' = [Answer EXCEPT ![<<"deposit", d>>] = "posted"]
<1>1. /\ deposits \in [Deposits -> {"expected", "arrived", "posted"}]
      /\ rows' = rows /\ Open' = Open
  BY FundsSplit DEF FundingInv, DepositsTypeOK, Open, KeysWith, HasStatus
<1>2. <<"deposit", d>> \in LedgerCalls
  BY DEF LedgerCalls
<1>3. Waiting(<<"deposit", d>>) /\ ~Waiting(<<"deposit", d>>)'
  BY <1>1 DEF Waiting
<1>4. ASSUME NEW c \in LedgerCalls, c # <<"deposit", d>>
      PROVE  Waiting(c)' = Waiting(c)
  <2>1. CASE c[1] = "deposit"
    <3>1. c[2] # d /\ c[2] \in Deposits
      BY <1>4, <2>1 DEF LedgerCalls, SagaCalls
    <3>2. (deposits[c[2]] # "posted") = (deposits'[c[2]] # "posted")
      BY <1>1, <3>1
    <3> QED
      BY <2>1, <3>2 DEF Waiting
  <2>2. CASE c[1] # "deposit"
    BY <1>1, <2>2 DEF Waiting
  <2> QED
    BY <2>1, <2>2
<1> QED
  BY <1>2, <1>3, <1>4, AnswerOf

LEMMA FundStill ==
    ASSUME FundingInv, Funds, sums' = sums,
           NEW d \in Deposits, deposits[d] = "expected",
           deposits' = [deposits EXCEPT ![d] = "arrived"]
    PROVE  Answer' = Answer
<1>1. /\ deposits \in [Deposits -> {"expected", "arrived", "posted"}]
      /\ rows' = rows /\ Open' = Open
  BY FundsSplit DEF FundingInv, DepositsTypeOK, Open, KeysWith, HasStatus
<1>2. ASSUME NEW c \in LedgerCalls PROVE Waiting(c)' = Waiting(c)
  <2>1. CASE c[1] = "deposit"
    <3>1. c[2] \in Deposits
      BY <2>1 DEF LedgerCalls, SagaCalls
    <3>2. (deposits[c[2]] # "posted") = (deposits'[c[2]] # "posted")
      BY <1>1, <3>1
    <3> QED
      BY <2>1, <3>2 DEF Waiting
  <2>2. CASE c[1] # "deposit"
    BY <1>1, <2>2 DEF Waiting
  <2> QED
    BY <2>1, <2>2
<1> QED
  BY <1>2 DEF Answer

LEMMA InitLedger == Init => Promise!Init
<1> SUFFICES ASSUME Init PROVE Promise!Init
  OBVIOUS
<1>1. ASSUME NEW c \in LedgerCalls PROVE Waiting(c)
  BY DEF Init, SagaInit, Waiting, LedgerCalls, SagaCalls
<1>2. Answer = [c \in LedgerCalls |-> "pending"]
  BY <1>1 DEF Answer
<1> QED
  BY <1>2 DEF Init, SagaInit, Promise!Init

LEMMA OnceLedger ==
    ASSUME SagaInv, SagaInv', AmountsAsked, Solvent', deposits' = deposits,
           NoMoney \/ FirstTime
    PROVE  Promise!Next \/ (sums' = sums /\ Answer' = Answer)
<1>1. rows \in [Keys -> Rows \cup {NoRow}]
  BY DEF SagaInv, RunsTypeOK, SagaTypeOK
<1>2. ASSUME rows' = rows PROVE Answer' = Answer
  BY <1>2, SameAnswers DEF AnswersOf, Open, KeysWith, HasStatus
<1>3. ASSUME NEW k \in Keys, Marks(k) PROVE Answer' = Answer
  <2>1. \A j \in Keys : j # k => rows'[j] = rows[j]
    BY <1>1, <1>3 DEF Marks, SetStatus
  <2>2. /\ rows[k] # NoRow /\ rows'[k] # NoRow
        /\ rows[k].status = "PENDING" /\ rows'[k].status = "PROCESSING"
    <3>1. /\ rows[k] # NoRow /\ rows[k].status = "PENDING"
          /\ SetStatus(k, "PROCESSING") /\ "PROCESSING" \in Statuses
      BY <1>3 DEF Marks, HasStatus, Statuses
    <3> QED
      BY <1>1, <3>1, StatusSet, RowAssumption
  <2>3. \A j \in Keys : AnswersOf(j)' = AnswersOf(j)
    BY <2>1, <2>2 DEF AnswersOf, Open, KeysWith, HasStatus
  <2> QED
    BY <2>3, SameAnswers
<1>4. ASSUME NEW k \in Keys, NEW w \in Wallets, NEW n \in Nat, Reserves(k, w, n)
      PROVE  Promise!Next
  <2>1. /\ rows[k] = NoRow /\ rows'[k] # NoRow /\ rows'[k].status = "PENDING"
        /\ \A j \in Keys : j # k => rows'[j] = rows[j]
    <3>1. [wallet |-> w, amount |-> n, status |-> "PENDING"] \in Rows
      BY DEF Rows, Statuses
    <3> QED
      BY <1>1, <1>4, <3>1, RowAssumption DEF Reserves, CreateRow
  <2>2. /\ k \in Open'
        /\ \A j \in Keys : j # k => AnswersOf(j)' = AnswersOf(j)
    BY <2>1 DEF Open, KeysWith, HasStatus, AnswersOf
  <2>3. /\ <<"reserve", k>> \in LedgerCalls /\ Answer[<<"reserve", k>>] = "pending"
        /\ Answer' = [Answer EXCEPT ![<<"reserve", k>>] = "posted"]
    BY <2>1, <2>2, OneAnswer
  <2>4. PICK t : Posts(t, w, Pending, n)
    BY <1>4, ReservePosts
  <2>5. w \in Accounts /\ Pending \in Accounts
    BY DEF Accounts
  <2> QED
    BY <2>3, <2>4, <2>5, PostAnswers
<1>5. ASSUME NEW k \in Keys, HasStatus(k, {"PROCESSING"}), Settles(k) \/ Releases(k)
      PROVE  Promise!Next
  <2>1. /\ rows[k] # NoRow /\ rows[k].status = "PROCESSING" /\ rows'[k] # NoRow
        /\ rows'[k].status \in {"SUCCESSFUL", "FAILED"}
        /\ \A j \in Keys : j # k => rows'[j] = rows[j]
    <3>1. PICK s \in {"SUCCESSFUL", "FAILED"} : SetStatus(k, s)
      BY <1>5 DEF Settles, SettleTx, Releases, ReleaseTx
    <3>2. rows[k] # NoRow /\ rows[k].status = "PROCESSING" /\ s \in Statuses
      BY <1>5 DEF HasStatus, Statuses
    <3>3. /\ rows'[k] \in Rows /\ rows'[k].status = s
          /\ \A j \in Keys : j # k => rows'[j] = rows[j]
      BY <1>1, <3>1, <3>2, StatusSet
    <3> QED
      BY <3>2, <3>3, RowAssumption
  <2>2. /\ k \in Open /\ k \notin Open'
        /\ \A j \in Keys : j # k => AnswersOf(j)' = AnswersOf(j)
    BY <2>1 DEF Open, KeysWith, HasStatus, AnswersOf
  <2>3. /\ <<"resolve", k>> \in LedgerCalls /\ Answer[<<"resolve", k>>] = "pending"
        /\ Answer' = [Answer EXCEPT ![<<"resolve", k>>] = "posted"]
    BY <2>1, <2>2, OneAnswer
  <2>4. PICK t \in Lists, a \in Accounts, b \in Accounts, n \in Nat : Posts(t, a, b, n)
    BY <1>5, <2>1, ResolvePosts
  <2> QED
    BY <2>3, <2>4, PostAnswers
<1> QED
  BY <1>2, <1>3, <1>4, <1>5 DEF FirstTime, Effect, NoMoney, Marks, Decides

LEMMA FundLedger ==
    ASSUME SagaInv, SagaInv', FundingInv, Solvent', Funds
    PROVE  Promise!Next \/ (sums' = sums /\ Answer' = Answer)
<1>1. ASSUME NEW d \in Deposits, deposits[d] = "arrived",
             SaveTransaction(Receipt(DepositOf[d].wallet, DepositOf[d].amount)),
             deposits' = [deposits EXCEPT ![d] = "posted"]
      PROVE  Promise!Next
  <2>1. PICK t \in Lists, w \in Wallets, n \in Nat : Posts(t, Pool, w, n)
    BY <1>1, ReceiptPosts
  <2>2. Pool \in Accounts /\ w \in Accounts
    BY DEF Accounts
  <2>3. /\ <<"deposit", d>> \in LedgerCalls
        /\ Answer[<<"deposit", d>>] = "pending"
        /\ Answer' = [Answer EXCEPT ![<<"deposit", d>>] = "posted"]
    BY <1>1, FundAnswer
  <2> QED
    BY <2>1, <2>2, <2>3, PostAnswers
<1> QED
  BY <1>1, FundsSplit, FundStill

LEMMA StepLedger ==
    SagaInv /\ SagaInv' /\ FundingInv /\ AmountsAsked /\ Solvent' /\ [Next]_vars
        /\ [rows' # rows \/ deposits' # deposits]_sums
            => [Promise!Next]_<<sums, Answer>>
<1> SUFFICES ASSUME SagaInv, SagaInv', FundingInv, AmountsAsked, Solvent',
                    Funds \/ (deposits' = deposits /\ (NoMoney \/ FirstTime))
             PROVE  Promise!Next \/ (sums' = sums /\ Answer' = Answer)
  BY AgainOrOnce, SameRows DEF NoMoney
<1> QED
  BY OnceLedger, FundLedger

LEMMA AlwaysLedger == Spec /\ PostedOnce => ImplementsLedger
  BY InitLedger, StepLedger, AlwaysSaga, AlwaysFunding, AlwaysSolvent, PTL
     DEF Spec, PostedOnce, ImplementsLedger, Promise!Spec

(* Withdrawals.ImplementsLedger: if a run looks only at what nobody works  *)
(* on, the saga does to the ledger what AbstractLedger promises: one whole *)
(* covered list as a row is stored, one more as it is resolved.            *)
THEOREM SagaKeepsLedgerPromise == ~Overlap => (Spec => ImplementsLedger)
  BY QuietRunsPostOnce, AlwaysLedger, PTL

(* However requests and runs overlap, resolving a withdrawal twice is all  *)
(* that can go wrong: an update of the status that required PROCESSING     *)
(* would restore each of the properties that overlapping runs break.       *)
THEOREM PostingOnceSuffices ==
    Spec /\ PostedOnce =>
        /\ [](PendingCovers /\ DebitedOnce /\ DriftIsInFlight)
        /\ []OnlyDepositsHide
        /\ ImplementsWithdrawal /\ ImplementsLedger
  BY AlwaysMoney, AlwaysSeen, AlwaysPromised, AlwaysLedger, PTL DEF MoneyInv
=============================================================================
