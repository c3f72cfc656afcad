--------------------------- MODULE PaymentsProofs ---------------------------
(***************************************************************************)
(* Proofs about Payments, for any wallets, deposits, transfers, servers    *)
(* and pools of connections: no wallet is overdrawn, and the ledger holds  *)
(* what the records say.  RequestsSound is what an open transaction knows  *)
(* of the request it serves; with it every step either leaves the money    *)
(* and the records alone, or records one deposit or one transfer and moves *)
(* its amount, as Money says.                                              *)
(***************************************************************************)
EXTENDS Payments, PostingLemmas, TLAPS

SoundDeposit(q)  == q \in Deposits /\ q.number \in Numbers
SoundTransfer(q) ==
    q \in Transfers /\ q.from \in Wallets /\ q.to \in Wallets /\ q.from # q.to

RequestsSound ==
    \A s \in Servers :
        /\ pc[s] \in Open => SoundDeposit(request[s]) \/ SoundTransfer(request[s])
        /\ pc[s] \in {"find", "create"} => SoundDeposit(request[s])

BaseInv == TypeOK /\ RequestsSound

StoresDeposit(q) ==
    /\ SoundDeposit(q)
    /\ deposits[q.reference] = NoRow
    /\ sums' = Added(sums, Inflow(q))
    /\ deposits' = [deposits EXCEPT ![q.reference] =
                       [wallet |-> WalletOfNumber[q.number], amount |-> q.amount]]
    /\ UNCHANGED transfers

StoresTransfer(q) ==
    /\ SoundTransfer(q)
    /\ transfers[q.key] = NoRow
    /\ Covered(q)
    /\ sums' = Added(sums, Movement(q))
    /\ transfers' = [transfers EXCEPT ![q.key] =
                        [from |-> q.from, to |-> q.to, amount |-> q.amount]]
    /\ UNCHANGED deposits

(* What a step may do to the ledger and the records.                       *)
Money ==
    \/ UNCHANGED <<sums, deposits, transfers>>
    \/ \E q : StoresDeposit(q) \/ StoresTransfer(q)
-----------------------------------------------------------------------------
LEMMA StepMoney == BaseInv /\ [Next]_vars => Money
<1> SUFFICES ASSUME BaseInv, [Next]_vars PROVE Money
  OBVIOUS
<1>1. CASE UNCHANGED vars
  BY <1>1 DEF vars, Money
<1>2. ASSUME NEW s \in Servers, PostDeposit(s)
      PROVE  Money
  <2>1. SoundDeposit(request[s])
    BY <1>2, RequestAssumption
       DEF PostDeposit, IsDeposit, BaseInv, RequestsSound, Open, SoundTransfer,
           SoundDeposit
  <2> QED
    BY <1>2, <2>1 DEF PostDeposit, Money, StoresDeposit, Unused
<1>3. ASSUME NEW s \in Servers, PostTransfer(s)
      PROVE  Money
  <2>1. SoundTransfer(request[s])
    BY <1>3 DEF PostTransfer, IsDeposit, BaseInv, RequestsSound, Open, SoundDeposit
  <2> QED
    BY <1>3, <2>1 DEF PostTransfer, Money, StoresTransfer, Unused
<1>4. ASSUME NEW s \in Servers,
             \/ \E q \in Deposits : Announce(s, q)
             \/ \E q \in Transfers : AskTransfer(s, q)
             \/ FindPool(s) \/ CreatePool(s) \/ LoseCreateRace(s)
             \/ PostThrows(s) \/ TimeOut(s) \/ Die(s)
      PROVE  Money
  <2>1. UNCHANGED records
    BY <1>4 DEF Announce, AskTransfer, Accept, FindPool, CreatePool,
                LoseCreateRace, PostThrows, TimeOut, Die, Rollback
  <2> QED
    BY <2>1 DEF records, Money
<1> QED
  BY <1>1, <1>2, <1>3, <1>4 DEF Next, Step

LEMMA Posts ==
    ASSUME sums \in [Accounts -> [Directions -> Nat]],
           NEW a, NEW b, NEW n \in Nat,
           NEW txn, txn = <<Debit(a, n, Currency), Credit(b, n, Currency)>>,
           NEW after, after = Added(sums, txn)
    PROVE  /\ after \in [Accounts -> [Directions -> Nat]]
           /\ \A x \in Accounts :
                 /\ after[x]["DEBIT"] = sums[x]["DEBIT"] + (IF x = a THEN n ELSE 0)
                 /\ after[x]["CREDIT"] = sums[x]["CREDIT"] + (IF x = b THEN n ELSE 0)
<1>1. after \in [Accounts -> [Directions -> Nat]]
  BY AddedMovement
<1>2. \A x \in Accounts :
          /\ after[x]["DEBIT"] = sums[x]["DEBIT"] + (IF x = a THEN n ELSE 0)
          /\ after[x]["CREDIT"] = sums[x]["CREDIT"] + (IF x = b THEN n ELSE 0)
  BY AddedMovement
<1> QED
  BY <1>1, <1>2

(* The records and the sums keep their types.                              *)
LEMMA InflowTyped ==
    ASSUME BaseInv, NEW q, StoresDeposit(q)
    PROVE  /\ q.reference \in References /\ q.amount \in Nat
           /\ WalletOfNumber[q.number] \in Wallets
           /\ deposits' \in [References -> DepositRows \cup {NoRow}]
           /\ sums' \in [Accounts -> [Directions -> Nat]]
           /\ \A x \in Accounts :
                 /\ Balance(x) \in Int
                 /\ Balance(x)' = IF x \in {Pool, WalletOfNumber[q.number]}
                                  THEN Balance(x) + q.amount ELSE Balance(x)
<1>1. /\ q.reference \in References /\ q.amount \in Nat
      /\ WalletOfNumber[q.number] \in Wallets
  BY RequestAssumption, PaymentAssumption DEF StoresDeposit, SoundDeposit
<1>2. deposits' \in [References -> DepositRows \cup {NoRow}]
  BY <1>1 DEF StoresDeposit, BaseInv, TypeOK, DepositRows
<1> PICK w \in Wallets : w = WalletOfNumber[q.number]
  BY <1>1
<1>3. PICK txn : txn = <<Debit(Pool, q.amount, Currency), Credit(w, q.amount, Currency)>>
  OBVIOUS
<1>4. sums' = Added(sums, txn) /\ sums \in [Accounts -> [Directions -> Nat]]
  BY <1>3 DEF StoresDeposit, Inflow, BaseInv, TypeOK
<1>5. /\ sums' \in [Accounts -> [Directions -> Nat]]
      /\ \A x \in Accounts :
            /\ sums'[x]["DEBIT"] = sums[x]["DEBIT"] + (IF x = Pool THEN q.amount ELSE 0)
            /\ sums'[x]["CREDIT"] = sums[x]["CREDIT"] + (IF x = w THEN q.amount ELSE 0)
  BY <1>1, <1>3, <1>4, Posts
<1>6. \A x \in Accounts : sums[x]["DEBIT"] \in Nat /\ sums[x]["CREDIT"] \in Nat
  BY <1>4 DEF Directions
<1>7. Pool \notin Wallets
  BY PaymentAssumption
<1>8. ASSUME NEW x \in Accounts
      PROVE  /\ Balance(x) \in Int
             /\ Balance(x)' = IF x \in {Pool, w}
                              THEN Balance(x) + q.amount ELSE Balance(x)
  BY <1>1, <1>5, <1>6, <1>7 DEF Balance, BalanceOf, Accounts
<1> QED
  BY <1>1, <1>2, <1>5, <1>8

LEMMA MovementTyped ==
    ASSUME BaseInv, NEW q, StoresTransfer(q)
    PROVE  /\ q.key \in Keys /\ q.amount \in Nat
           /\ transfers' \in [Keys -> TransferRows \cup {NoRow}]
           /\ sums' \in [Accounts -> [Directions -> Nat]]
           /\ Balance(q.from) >= q.amount
           /\ \A x \in Accounts :
                 /\ Balance(x) \in Int
                 /\ Balance(x)' = IF x = q.from THEN Balance(x) - q.amount
                                  ELSE IF x = q.to THEN Balance(x) + q.amount
                                  ELSE Balance(x)
<1>1. /\ q.key \in Keys /\ q.amount \in Nat
      /\ q.from \in Wallets /\ q.to \in Wallets /\ q.from # q.to
      /\ Balance(q.from) >= q.amount
  BY RequestAssumption DEF StoresTransfer, SoundTransfer, Covered
<1>2. transfers' \in [Keys -> TransferRows \cup {NoRow}]
  BY <1>1 DEF StoresTransfer, BaseInv, TypeOK, TransferRows
<1>3. PICK txn : txn = <<Debit(q.from, q.amount, Currency),
                         Credit(q.to, q.amount, Currency)>>
  OBVIOUS
<1>4. sums' = Added(sums, txn) /\ sums \in [Accounts -> [Directions -> Nat]]
  BY <1>3 DEF StoresTransfer, Movement, BaseInv, TypeOK
<1>5. /\ sums' \in [Accounts -> [Directions -> Nat]]
      /\ \A x \in Accounts :
            /\ sums'[x]["DEBIT"] = sums[x]["DEBIT"] + (IF x = q.from THEN q.amount ELSE 0)
            /\ sums'[x]["CREDIT"] = sums[x]["CREDIT"] + (IF x = q.to THEN q.amount ELSE 0)
  BY <1>1, <1>3, <1>4, Posts
<1>6. \A x \in Accounts : sums[x]["DEBIT"] \in Nat /\ sums[x]["CREDIT"] \in Nat
  BY <1>4 DEF Directions
<1>7. ASSUME NEW x \in Accounts
      PROVE  /\ Balance(x) \in Int
             /\ Balance(x)' = IF x = q.from THEN Balance(x) - q.amount
                              ELSE IF x = q.to THEN Balance(x) + q.amount
                              ELSE Balance(x)
  BY <1>1, <1>5, <1>6 DEF Balance, BalanceOf
<1> QED
  BY <1>1, <1>2, <1>5, <1>7
-----------------------------------------------------------------------------
LEMMA InitBase == Init => BaseInv
<1> SUFFICES ASSUME Init PROVE BaseInv
  OBVIOUS
<1>1. TypeOK
  <2>1. /\ sums \in [Accounts -> [Directions -> Nat]]
        /\ deposits \in [References -> DepositRows \cup {NoRow}]
        /\ transfers \in [Keys -> TransferRows \cup {NoRow}]
    BY DEF Init
  <2>2. deaths \in 0 .. MaxDeaths
    BY PaymentAssumption DEF Init
  <2> QED
    BY <2>1, <2>2 DEF Init, TypeOK, Resting
<1>2. RequestsSound
  BY DEF Init, RequestsSound, Open
<1> QED
  BY <1>1, <1>2 DEF BaseInv

LEMMA StepBase == BaseInv /\ [Next]_vars => BaseInv'
<1> SUFFICES ASSUME BaseInv, [Next]_vars PROVE BaseInv'
  OBVIOUS
<1>1. /\ sums' \in [Accounts -> [Directions -> Nat]]
      /\ deposits' \in [References -> DepositRows \cup {NoRow}]
      /\ transfers' \in [Keys -> TransferRows \cup {NoRow}]
  <2>1. CASE UNCHANGED <<sums, deposits, transfers>>
    BY <2>1 DEF BaseInv, TypeOK
  <2>2. ASSUME NEW q, StoresDeposit(q)
        PROVE  /\ sums' \in [Accounts -> [Directions -> Nat]]
               /\ deposits' \in [References -> DepositRows \cup {NoRow}]
               /\ transfers' \in [Keys -> TransferRows \cup {NoRow}]
    BY <2>2, InflowTyped DEF StoresDeposit, BaseInv, TypeOK
  <2>3. ASSUME NEW q, StoresTransfer(q)
        PROVE  /\ sums' \in [Accounts -> [Directions -> Nat]]
               /\ deposits' \in [References -> DepositRows \cup {NoRow}]
               /\ transfers' \in [Keys -> TransferRows \cup {NoRow}]
    BY <2>3, MovementTyped DEF StoresTransfer, BaseInv, TypeOK
  <2> QED
    BY <2>1, <2>2, <2>3, StepMoney DEF Money
<1>2. /\ pool \in BOOLEAN /\ creator \in Servers \cup {NoServer}
      /\ aborted \subseteq Servers /\ pc \in [Servers -> Resting \cup Open]
      /\ request \in [Servers -> Deposits \cup Transfers \cup {NoRequest}]
      /\ poolSize \in PoolSizes /\ deaths \in 0 .. MaxDeaths
      /\ RequestsSound
  BY DEF BaseInv, TypeOK
<1> DEFINE Rest == /\ pool' \in BOOLEAN /\ creator' \in Servers \cup {NoServer}
                   /\ aborted' \subseteq Servers
                   /\ pc' \in [Servers -> Resting \cup Open]
                   /\ request' \in [Servers -> Deposits \cup Transfers \cup {NoRequest}]
                   /\ poolSize' \in PoolSizes /\ deaths' \in 0 .. MaxDeaths
                   /\ RequestsSound'
<1>3. ASSUME UNCHANGED vars
      PROVE  Rest
  BY <1>2, <1>3 DEF vars, RequestsSound
<1>4. ASSUME NEW s \in Servers, NEW q \in Deposits \cup Transfers,
             NEW where \in {"done", "failed", "find", "post"}, Accept(s, q, where),
             where = "find" => SoundDeposit(q),
             where = "post" => SoundTransfer(q)
      PROVE  Rest
  <2>1. /\ pc' = [pc EXCEPT ![s] = where] /\ request' = [request EXCEPT ![s] = q]
        /\ UNCHANGED <<pool, poolSize, creator, aborted, deaths>>
    BY <1>4 DEF Accept, Goto, records
  <2>2. pc' \in [Servers -> Resting \cup Open]
    BY <1>2, <2>1 DEF Resting, Open
  <2>3. RequestsSound'
    BY <1>2, <1>4, <2>1 DEF RequestsSound, Open
  <2> QED
    BY <1>2, <2>1, <2>2, <2>3
<1>5. ASSUME NEW s \in Servers, NEW q \in Deposits, Announce(s, q)
      PROVE  Rest
  BY <1>4, <1>5 DEF Announce, SoundDeposit
<1>6. ASSUME NEW s \in Servers, NEW q \in Transfers, AskTransfer(s, q)
      PROVE  Rest
  BY <1>4, <1>6 DEF AskTransfer, SoundTransfer
<1>7. ASSUME NEW s \in Servers, NEW where \in Resting, Leave(s, where),
             pool' \in BOOLEAN, deaths' \in 0 .. MaxDeaths
      PROVE  Rest
  <2>1. /\ pc' = [pc EXCEPT ![s] = where]
        /\ creator' \in {creator, NoServer} /\ aborted' = aborted \ {s}
        /\ UNCHANGED <<request, poolSize>>
    BY <1>7 DEF Leave, Goto
  <2>2. RequestsSound'
    BY <1>2, <2>1 DEF RequestsSound, Open, Resting
  <2> QED
    BY <1>2, <1>7, <2>1, <2>2
<1>8. ASSUME NEW s \in Servers, FindPool(s) \/ CreatePool(s) \/ LoseCreateRace(s)
      PROVE  Rest
  <2>1. PICK where \in {"create", "post"} : pc' = [pc EXCEPT ![s] = where]
    BY <1>8 DEF FindPool, CreatePool, LoseCreateRace, Goto
  <2>2. /\ pc[s] \in {"find", "create"} /\ request' = request
        /\ UNCHANGED <<pool, poolSize, deaths>>
        /\ creator' \in Servers \cup {NoServer} /\ aborted' \subseteq Servers
    BY <1>2, <1>8 DEF FindPool, CreatePool, LoseCreateRace, records
  <2>3. pc' \in [Servers -> Resting \cup Open]
    BY <1>2, <2>1 DEF Open
  <2>4. RequestsSound'
    BY <1>2, <2>1, <2>2 DEF RequestsSound, Open
  <2> QED
    BY <1>2, <2>2, <2>3, <2>4
<1>9. ASSUME NEW s \in Servers,
             \/ PostDeposit(s) \/ PostTransfer(s) \/ PostThrows(s)
             \/ TimeOut(s) \/ Die(s)
      PROVE  Rest
  <2>1. CASE PostDeposit(s)
    BY <1>2, <1>7, <2>1 DEF PostDeposit, Resting
  <2>2. CASE PostTransfer(s)
    BY <1>2, <1>7, <2>2 DEF PostTransfer, Resting
  <2>3. CASE PostThrows(s) \/ TimeOut(s)
    BY <1>2, <1>7, <2>3 DEF PostThrows, TimeOut, Rollback, records, Resting
  <2>4. CASE Die(s)
    <3>1. deaths' \in 0 .. MaxDeaths
      BY <1>2, <2>4, PaymentAssumption DEF Die
    <3> QED
      BY <1>2, <1>7, <2>4, <3>1 DEF Die, Rollback, records, Resting
  <2> QED
    BY <1>9, <2>1, <2>2, <2>3, <2>4
<1>10. Rest
  <2> HIDE DEF Rest
  <2> QED
    BY <1>3, <1>5, <1>6, <1>8, <1>9 DEF Next, Step, Rest
<1> QED
  BY <1>1, <1>10 DEF BaseInv, TypeOK

LEMMA AlwaysBase == Spec => []BaseInv
  BY InitBase, StepBase, PTL DEF Spec

(* Payments.TypeOK: every variable keeps its type.                         *)
THEOREM PaymentsTypeCorrect == Spec => []TypeOK
  BY AlwaysBase, PTL DEF BaseInv
-----------------------------------------------------------------------------
(* Transfers that race for the same money leave no wallet below zero.      *)
NoOverdraft == \A w \in Wallets : Balance(w) >= 0

LEMMA AlwaysFunded == Spec => []NoOverdraft
<1>1. Init => NoOverdraft
  <2> SUFFICES ASSUME Init, NEW w \in Wallets PROVE Balance(w) >= 0
    BY DEF NoOverdraft
  <2>1. w \in Accounts /\ sums[w]["DEBIT"] = 0 /\ sums[w]["CREDIT"] = 0
    BY DEF Init, Accounts, Directions
  <2> QED
    BY <2>1 DEF Balance, BalanceOf
<1>2. BaseInv /\ NoOverdraft /\ [Next]_vars => NoOverdraft'
  <2> SUFFICES ASSUME BaseInv, NoOverdraft, Money, NEW w \in Wallets
               PROVE  Balance(w)' >= 0
    BY StepMoney DEF NoOverdraft
  <2>1. w \in Accounts /\ Balance(w) >= 0
    BY DEF Accounts, NoOverdraft
  <2>2. CASE UNCHANGED <<sums, deposits, transfers>>
    BY <2>1, <2>2 DEF Balance
  <2>3. ASSUME NEW q, StoresDeposit(q) PROVE Balance(w)' >= 0
    BY <2>1, <2>3, InflowTyped
  <2>4. ASSUME NEW q, StoresTransfer(q) PROVE Balance(w)' >= 0
    BY <2>1, <2>4, MovementTyped
  <2> QED
    BY <2>2, <2>3, <2>4 DEF Money
<1> QED
  BY <1>1, <1>2, AlwaysBase, PTL DEF Spec
-----------------------------------------------------------------------------
(* The promise is stated with the operators it takes from Postings.        *)
LEMMA SamePostings ==
    ASSUME NEW s, NEW t
    PROVE  /\ Promise!Balanced(t) = Balanced(t)
           /\ Promise!AccountsOf(t) = AccountsOf(t)
           /\ Promise!Added(s, t) = Added(s, t)
<1>1. \A f : Promise!SumFunction(f) = SumFunction(f)
  BY DEF Promise!SumFunction, SumFunction, Promise!SumFunctionOnSet,
         SumFunctionOnSet, Promise!FoldFunctionOnSet, FoldFunctionOnSet,
         Promise!MapThenFoldSet, MapThenFoldSet
<1>2. \A a, d : Promise!Posted(t, a, d) = Posted(t, a, d)
  BY <1>1 DEF Promise!Posted, Posted
<1>3. Promise!Balanced(t) = Balanced(t)
  BY <1>1 DEF Promise!Balanced, Balanced, Promise!SignedAmount, SignedAmount
<1>4. Promise!Added(s, t) = Added(s, t)
  BY <1>2 DEF Promise!Added, Added, Promise!Directions, Directions
<1> QED
  BY <1>3, <1>4 DEF Promise!AccountsOf, AccountsOf

Lists == {Inflow(q) : q \in {p \in Deposits : p.number \in Numbers}}
         \cup {Movement(q) : q \in Transfers}

(* A record that is stored answers one call, and its postings are covered. *)
LEMMA StoreAnswers ==
    ASSUME BaseInv', NoOverdraft',
           NEW c \in Calls, Answer[c] = "pending",
           Answer' = [Answer EXCEPT ![c] = "posted"],
           NEW a \in Accounts, NEW b \in Accounts, NEW n \in Nat,
           NEW t \in Lists, t = <<Debit(a, n, Currency), Credit(b, n, Currency)>>,
           sums' = Added(sums, t)
    PROVE  Promise!Next
<1>1. /\ Balanced(t) /\ DOMAIN t = {1, 2} /\ AccountsOf(t) = {a, b}
      /\ \A i \in DOMAIN t : t[i].currency = Currency
  BY MovementBalanced
<1>2. \A i \in DOMAIN t : t[i].account \in Accounts
  BY <1>1 DEF AccountsOf
<1>3. ASSUME NEW w \in Wallets PROVE Promise!Covers(sums', w)
  <2>1. sums'[w]["DEBIT"] \in Nat /\ sums'[w]["CREDIT"] \in Nat
    BY DEF BaseInv, TypeOK, Accounts, Directions
  <2>2. sums'[w]["CREDIT"] - sums'[w]["DEBIT"] >= 0
    BY DEF NoOverdraft, Balance, BalanceOf
  <2> QED
    BY <2>1, <2>2 DEF Promise!Covers
<1>4. \A i \in DOMAIN t :
          t[i].currency = [x \in Accounts |-> Currency][t[i].account]
  BY <1>1, <1>2
<1> QED
  BY <1>1, <1>2, <1>3, <1>4, SamePostings DEF Promise!Next, Promise!Post, Lists

LEMMA StepPromise ==
    BaseInv /\ BaseInv' /\ NoOverdraft' /\ [Next]_vars
        => [Promise!Next]_(<<sums, Answer>>)
<1> SUFFICES ASSUME BaseInv, BaseInv', NoOverdraft', Money
             PROVE  Promise!Next \/ UNCHANGED <<sums, Answer>>
  BY StepMoney
<1>1. CASE UNCHANGED <<sums, deposits, transfers>>
  BY <1>1 DEF Answer, TableOf
<1>2. ASSUME NEW q, StoresDeposit(q)
      PROVE  Promise!Next
  <2>1. PICK c \in Calls : c = <<"deposit", q.reference>>
    BY <1>2, InflowTyped DEF Calls
  <2>2. /\ deposits'[q.reference] # NoRow
        /\ \A r \in References : r # q.reference => deposits'[r] = deposits[r]
    <3>1. [wallet |-> WalletOfNumber[q.number], amount |-> q.amount] # NoRow
      BY <1>2, InflowTyped, RowAssumption DEF DepositRows
    <3> QED
      BY <1>2, <3>1, InflowTyped DEF StoresDeposit, BaseInv, TypeOK
  <2>3. Answer[c] = "pending" /\ Answer' = [Answer EXCEPT ![c] = "posted"]
    <3>1. Answer[c] = "pending" /\ TableOf(c)'[c[2]] # NoRow
      BY <1>2, <2>1, <2>2 DEF Answer, TableOf, StoresDeposit
    <3>2. \A e \in Calls : e # c => TableOf(e)'[e[2]] = TableOf(e)[e[2]]
      BY <1>2, <2>1, <2>2 DEF Calls, TableOf, StoresDeposit
    <3> QED
      BY <3>1, <3>2 DEF Answer
  <2>4. /\ Pool \in Accounts /\ WalletOfNumber[q.number] \in Accounts
        /\ q.amount \in Nat
    BY <1>2, InflowTyped DEF Accounts
  <2>5. PICK t \in Lists : t = Inflow(q)
    BY <1>2 DEF Lists, StoresDeposit, SoundDeposit
  <2>6. /\ t = <<Debit(Pool, q.amount, Currency),
                 Credit(WalletOfNumber[q.number], q.amount, Currency)>>
        /\ sums' = Added(sums, t)
    BY <1>2, <2>5 DEF Inflow, StoresDeposit
  <2> QED
    BY <2>3, <2>4, <2>6, StoreAnswers
<1>3. ASSUME NEW q, StoresTransfer(q)
      PROVE  Promise!Next
  <2>1. PICK c \in Calls : c = <<"transfer", q.key>>
    BY <1>3, MovementTyped DEF Calls
  <2>2. /\ transfers'[q.key] # NoRow
        /\ \A k \in Keys : k # q.key => transfers'[k] = transfers[k]
    <3>1. [from |-> q.from, to |-> q.to, amount |-> q.amount] # NoRow
      <4>1. q.from \in Wallets /\ q.to \in Wallets /\ q.amount \in Nat
        BY <1>3, MovementTyped DEF StoresTransfer, SoundTransfer
      <4> QED
        BY <4>1, RowAssumption DEF TransferRows
    <3> QED
      BY <1>3, <3>1, MovementTyped DEF StoresTransfer, BaseInv, TypeOK
  <2>3. Answer[c] = "pending" /\ Answer' = [Answer EXCEPT ![c] = "posted"]
    <3>1. Answer[c] = "pending" /\ TableOf(c)'[c[2]] # NoRow
      BY <1>3, <2>1, <2>2 DEF Answer, TableOf, StoresTransfer
    <3>2. \A e \in Calls : e # c => TableOf(e)'[e[2]] = TableOf(e)[e[2]]
      BY <1>3, <2>1, <2>2 DEF Calls, TableOf, StoresTransfer
    <3> QED
      BY <3>1, <3>2 DEF Answer
  <2>4. q.from \in Accounts /\ q.to \in Accounts /\ q.amount \in Nat
    BY <1>3, MovementTyped DEF Accounts, StoresTransfer, SoundTransfer
  <2>5. PICK t \in Lists : t = Movement(q)
    BY <1>3 DEF Lists, StoresTransfer, SoundTransfer
  <2>6. /\ t = <<Debit(q.from, q.amount, Currency), Credit(q.to, q.amount, Currency)>>
        /\ sums' = Added(sums, t)
    BY <1>3, <2>5 DEF Movement, StoresTransfer
  <2> QED
    BY <2>3, <2>4, <2>6, StoreAnswers
<1> QED
  BY <1>1, <1>2, <1>3 DEF Money

(* Payments.ImplementsLedger: records and money move together, by the      *)
(* steps AbstractLedger allows, for any servers, requests and lost races.  *)
THEOREM PaymentsKeepPromise == Spec => ImplementsLedger
<1>1. Init => Promise!Init
  BY DEF Init, Promise!Init, Answer, TableOf, Calls, Promise!Directions, Directions
<1> QED
  BY <1>1, StepPromise, AlwaysBase, AlwaysFunded, PTL
     DEF Spec, ImplementsLedger, Promise!Spec
-----------------------------------------------------------------------------
(* What storing one more summand, at x, does to a sum over S.              *)
Grows(f, g, S, x) ==
    /\ SumFunctionOnSet(f, S) \in Int
    /\ SumFunctionOnSet(g, S) = SumFunctionOnSet(f, S)
    /\ SumFunctionOnSet(g, S \cup {x}) = SumFunctionOnSet(f, S) + g[x]

LEMMA SumGrows ==
    ASSUME NEW f, NEW g, NEW S, IsFiniteSet(S),
           \A y \in S : f[y] \in Int /\ g[y] = f[y],
           NEW x, x \notin S, g[x] \in Int
    PROVE  Grows(f, g, S, x)
<1>1. SumFunctionOnSet(g, S) = SumFunctionOnSet(f, S)
  BY SumSame
<1> QED
  BY <1>1, SumWith DEF Grows

(* What becomes of a table and of the sums over it when the record row is  *)
(* stored under i.                                                         *)
Stores(old, new, i, row) ==
    /\ i \notin Recorded(old) /\ Recorded(new) = Recorded(old) \cup {i}
    /\ \A j \in Recorded(old) : new[j] = old[j]
    /\ new[i] = row
    /\ \A S \in SUBSET Recorded(old) :
          /\ Sum(old, S) \in Int
          /\ Sum(new, S) = Sum(old, S)
          /\ Sum(new, S \cup {i}) = Sum(old, S) + row.amount

LEMMA StoreRecord ==
    ASSUME NEW I, IsFiniteSet(I), NEW R, NoRow \notin R,
           \A row \in R : row.amount \in Nat,
           NEW old \in [I -> R \cup {NoRow}], NEW i \in I, old[i] = NoRow,
           NEW row \in R, NEW new, new = [old EXCEPT ![i] = row]
    PROVE  Stores(old, new, i, row)
<1>1. /\ i \notin Recorded(old) /\ Recorded(new) = Recorded(old) \cup {i}
      /\ \A j \in Recorded(old) : j \in I /\ old[j] \in R /\ new[j] = old[j]
      /\ new[i] = row /\ DOMAIN old = I /\ DOMAIN new = I
  BY DEF Recorded
<1>2. /\ \A j \in Recorded(old) : Amount(old)[j] \in Int
                                   /\ Amount(new)[j] = Amount(old)[j]
      /\ Amount(new)[i] = row.amount
  BY <1>1 DEF Amount
<1>3. ASSUME NEW S \in SUBSET Recorded(old)
      PROVE  /\ Sum(old, S) \in Int
             /\ Sum(new, S) = Sum(old, S)
             /\ Sum(new, S \cup {i}) = Sum(old, S) + row.amount
  <2>1. IsFiniteSet(S)
    <3>1. S \subseteq I
      BY <1>1
    <3> QED
      BY <3>1, FS_Subset
  <2>2. i \notin S /\ Amount(new)[i] = row.amount /\ Amount(new)[i] \in Int
    BY <1>1, <1>2
  <2>3. \A j \in S : Amount(old)[j] \in Int /\ Amount(new)[j] = Amount(old)[j]
    BY <1>2
  <2>4. Grows(Amount(old), Amount(new), S, i)
    BY <2>1, <2>2, <2>3, SumGrows
  <2> QED
    BY <2>2, <2>4 DEF Sum, Grows
<1> QED
  BY <1>1, <1>3 DEF Stores

LEMMA RecordTypes ==
    /\ NoRow \notin DepositRows /\ NoRow \notin TransferRows
    /\ \A row \in DepositRows : row.amount \in Nat
    /\ \A row \in TransferRows : row.amount \in Nat
    /\ IsFiniteSet(References) /\ IsFiniteSet(Keys)
  BY RowAssumption, PaymentAssumption DEF DepositRows, TransferRows

LEMMA SumsAreInts ==
    ASSUME BaseInv
    PROVE  /\ \A S \in SUBSET Recorded(deposits) : Sum(deposits, S) \in Int
           /\ \A S \in SUBSET Recorded(transfers) : Sum(transfers, S) \in Int
           /\ \A w : /\ DepositsTo(w) \subseteq Recorded(deposits)
                     /\ TransfersTo(w) \subseteq Recorded(transfers)
                     /\ TransfersFrom(w) \subseteq Recorded(transfers)
<1>1. ASSUME NEW I, IsFiniteSet(I), NEW R, \A row \in R : row.amount \in Nat,
             NEW table \in [I -> R \cup {NoRow}], NEW S \in SUBSET Recorded(table)
      PROVE  Sum(table, S) \in Int
  <2>1. \A j \in S : Amount(table)[j] \in Int
    BY <1>1 DEF Recorded, Amount
  <2>2. IsFiniteSet(S)
    <3>1. S \subseteq I
      BY <1>1 DEF Recorded
    <3> QED
      BY <1>1, <3>1, FS_Subset
  <2> QED
    BY <2>1, <2>2, SumInt DEF Sum
<1>2. /\ deposits \in [References -> DepositRows \cup {NoRow}]
      /\ transfers \in [Keys -> TransferRows \cup {NoRow}]
  BY DEF BaseInv, TypeOK
<1>3. \A S \in SUBSET Recorded(deposits) : Sum(deposits, S) \in Int
  BY <1>1, <1>2, RecordTypes
<1>4. \A S \in SUBSET Recorded(transfers) : Sum(transfers, S) \in Int
  BY <1>1, <1>2, RecordTypes
<1> QED
  BY <1>3, <1>4 DEF DepositsTo, TransfersTo, TransfersFrom

LEMMA DepositMatches ==
    ASSUME BaseInv, LedgerMatchesRecords, NEW q, StoresDeposit(q)
    PROVE  LedgerMatchesRecords'
<1> PICK i, v, n : i = q.reference /\ v = WalletOfNumber[q.number] /\ n = q.amount
  OBVIOUS
<1> PICK row : row = [wallet |-> v, amount |-> n]
  OBVIOUS
<1>1. /\ i \in References /\ n \in Nat /\ v \in Wallets
      /\ row \in DepositRows /\ row.amount = n /\ row.wallet = v
      /\ deposits \in [References -> DepositRows \cup {NoRow}]
      /\ deposits[i] = NoRow /\ deposits' = [deposits EXCEPT ![i] = row]
      /\ transfers' = transfers
  BY InflowTyped DEF StoresDeposit, BaseInv, TypeOK, DepositRows
<1>2. /\ i \notin Recorded(deposits)
      /\ Recorded(deposits') = Recorded(deposits) \cup {i}
      /\ \A j \in Recorded(deposits) : deposits'[j] = deposits[j]
      /\ deposits'[i] = row
      /\ \A S \in SUBSET Recorded(deposits) :
            /\ Sum(deposits, S) \in Int
            /\ Sum(deposits', S) = Sum(deposits, S)
            /\ Sum(deposits', S \cup {i}) = Sum(deposits, S) + n
  <2>1. Stores(deposits, deposits', i, row)
    BY <1>1, StoreRecord, RecordTypes
  <2> QED
    BY <1>1, <2>1 DEF Stores
<1>3. \A x \in Accounts : /\ Balance(x) \in Int
                          /\ Balance(x)' = IF x \in {Pool, v}
                                           THEN Balance(x) + n ELSE Balance(x)
  BY InflowTyped
<1>4. Balance(Pool)' = Sum(deposits', Recorded(deposits'))
  <2>1. Pool \in Accounts
    BY DEF Accounts
  <2>2. Balance(Pool)' = Balance(Pool) + n
    BY <1>3, <2>1
  <2>3. Sum(deposits', Recorded(deposits) \cup {i})
            = Sum(deposits, Recorded(deposits)) + n
    BY <1>2
  <2> QED
    BY <1>2, <2>2, <2>3 DEF LedgerMatchesRecords
<1>5. ASSUME NEW w \in Wallets
      PROVE  Balance(w)' = Sum(deposits', DepositsTo(w)')
                           + Sum(transfers', TransfersTo(w)')
                           - Sum(transfers', TransfersFrom(w)')
  <2>1. /\ DepositsTo(w)' = IF w = v THEN DepositsTo(w) \cup {i} ELSE DepositsTo(w)
        /\ TransfersTo(w)' = TransfersTo(w) /\ TransfersFrom(w)' = TransfersFrom(w)
    BY <1>1, <1>2 DEF DepositsTo, TransfersTo, TransfersFrom
  <2>2. /\ Sum(deposits', DepositsTo(w)) = Sum(deposits, DepositsTo(w))
        /\ Sum(deposits', DepositsTo(w) \cup {i}) = Sum(deposits, DepositsTo(w)) + n
        /\ Sum(deposits, DepositsTo(w)) \in Int
        /\ Sum(transfers, TransfersTo(w)) \in Int
        /\ Sum(transfers, TransfersFrom(w)) \in Int
    BY <1>2, SumsAreInts
  <2>3. Balance(w) = Sum(deposits, DepositsTo(w)) + Sum(transfers, TransfersTo(w))
                     - Sum(transfers, TransfersFrom(w))
    BY DEF LedgerMatchesRecords
  <2>4. w \in Accounts /\ w # Pool
    BY PaymentAssumption DEF Accounts
  <2>5. CASE w = v
    BY <1>1, <1>3, <2>1, <2>2, <2>3, <2>4, <2>5
  <2>6. CASE w # v
    BY <1>1, <1>3, <2>1, <2>2, <2>3, <2>4, <2>6
  <2> QED
    BY <2>5, <2>6
<1> QED
  BY <1>4, <1>5 DEF LedgerMatchesRecords

LEMMA TransferMatches ==
    ASSUME BaseInv, LedgerMatchesRecords, NEW q, StoresTransfer(q)
    PROVE  LedgerMatchesRecords'
<1> PICK i, u, v, n : i = q.key /\ u = q.from /\ v = q.to /\ n = q.amount
  OBVIOUS
<1> PICK row : row = [from |-> u, to |-> v, amount |-> n]
  OBVIOUS
<1>1. /\ i \in Keys /\ n \in Nat /\ u \in Wallets /\ v \in Wallets /\ u # v
      /\ row \in TransferRows /\ row.amount = n /\ row.from = u /\ row.to = v
      /\ transfers \in [Keys -> TransferRows \cup {NoRow}]
      /\ transfers[i] = NoRow /\ transfers' = [transfers EXCEPT ![i] = row]
      /\ deposits' = deposits
  BY MovementTyped DEF StoresTransfer, SoundTransfer, BaseInv, TypeOK, TransferRows
<1>2. /\ i \notin Recorded(transfers)
      /\ Recorded(transfers') = Recorded(transfers) \cup {i}
      /\ \A j \in Recorded(transfers) : transfers'[j] = transfers[j]
      /\ transfers'[i] = row
      /\ \A S \in SUBSET Recorded(transfers) :
            /\ Sum(transfers, S) \in Int
            /\ Sum(transfers', S) = Sum(transfers, S)
            /\ Sum(transfers', S \cup {i}) = Sum(transfers, S) + n
  <2>1. Stores(transfers, transfers', i, row)
    BY <1>1, StoreRecord, RecordTypes
  <2> QED
    BY <1>1, <2>1 DEF Stores
<1>3. \A x \in Accounts : /\ Balance(x) \in Int
                          /\ Balance(x)' = IF x = u THEN Balance(x) - n
                                           ELSE IF x = v THEN Balance(x) + n
                                           ELSE Balance(x)
  BY MovementTyped
<1>4. Balance(Pool)' = Sum(deposits', Recorded(deposits'))
  <2>1. Pool \in Accounts /\ Pool # u /\ Pool # v
    BY <1>1, PaymentAssumption DEF Accounts
  <2> QED
    BY <1>1, <1>3, <2>1 DEF LedgerMatchesRecords
<1>5. ASSUME NEW w \in Wallets
      PROVE  Balance(w)' = Sum(deposits', DepositsTo(w)')
                           + Sum(transfers', TransfersTo(w)')
                           - Sum(transfers', TransfersFrom(w)')
  <2>1. /\ DepositsTo(w)' = DepositsTo(w)
        /\ TransfersTo(w)' = IF w = v THEN TransfersTo(w) \cup {i} ELSE TransfersTo(w)
        /\ TransfersFrom(w)' = IF w = u THEN TransfersFrom(w) \cup {i}
                                        ELSE TransfersFrom(w)
    <3>1. DepositsTo(w)' = DepositsTo(w)
      BY <1>1 DEF DepositsTo
    <3>2. TransfersTo(w)' = IF w = v THEN TransfersTo(w) \cup {i} ELSE TransfersTo(w)
      BY <1>1, <1>2 DEF TransfersTo
    <3>3. TransfersFrom(w)' = IF w = u THEN TransfersFrom(w) \cup {i}
                                       ELSE TransfersFrom(w)
      BY <1>1, <1>2 DEF TransfersFrom
    <3> QED
      BY <3>1, <3>2, <3>3
  <2>2. /\ Sum(transfers', TransfersTo(w)) = Sum(transfers, TransfersTo(w))
        /\ Sum(transfers', TransfersTo(w) \cup {i}) = Sum(transfers, TransfersTo(w)) + n
        /\ Sum(transfers', TransfersFrom(w)) = Sum(transfers, TransfersFrom(w))
        /\ Sum(transfers', TransfersFrom(w) \cup {i}) = Sum(transfers, TransfersFrom(w)) + n
        /\ Sum(deposits, DepositsTo(w)) \in Int
        /\ Sum(transfers, TransfersTo(w)) \in Int
        /\ Sum(transfers, TransfersFrom(w)) \in Int
    BY <1>2, SumsAreInts
  <2>3. Balance(w) = Sum(deposits, DepositsTo(w)) + Sum(transfers, TransfersTo(w))
                     - Sum(transfers, TransfersFrom(w))
    BY DEF LedgerMatchesRecords
  <2>4. w \in Accounts
    BY DEF Accounts
  <2>5. CASE w = u
    BY <1>1, <1>3, <2>1, <2>2, <2>3, <2>4, <2>5
  <2>6. CASE w = v
    BY <1>1, <1>3, <2>1, <2>2, <2>3, <2>4, <2>6
  <2>7. CASE w # u /\ w # v
    BY <1>1, <1>3, <2>1, <2>2, <2>3, <2>4, <2>7
  <2> QED
    BY <2>5, <2>6, <2>7
<1> QED
  BY <1>4, <1>5 DEF LedgerMatchesRecords

(* Payments.LedgerMatchesRecords: the balances are what the deposits and   *)
(* transfers on record say, for any number of servers, requests, crashes   *)
(* and lost races.                                                         *)
THEOREM LedgerSaysWhatRecordsSay == Spec => []LedgerMatchesRecords
<1>1. Init => LedgerMatchesRecords
  <2> SUFFICES ASSUME Init PROVE LedgerMatchesRecords
    OBVIOUS
  <2>1. \A x \in Accounts : Balance(x) = 0
    BY DEF Init, Balance, BalanceOf, Directions
  <2>2. Recorded(deposits) = {} /\ Recorded(transfers) = {}
    BY DEF Init, Recorded
  <2>3. \A w : DepositsTo(w) = {} /\ TransfersTo(w) = {} /\ TransfersFrom(w) = {}
    BY <2>2 DEF DepositsTo, TransfersTo, TransfersFrom
  <2>4. \A table : Sum(table, {}) = 0
    BY SumEmpty DEF Sum
  <2> QED
    BY <2>1, <2>2, <2>3, <2>4 DEF LedgerMatchesRecords, Accounts
<1>2. BaseInv /\ LedgerMatchesRecords /\ [Next]_vars => LedgerMatchesRecords'
  <2> SUFFICES ASSUME BaseInv, LedgerMatchesRecords, Money
               PROVE  LedgerMatchesRecords'
    BY StepMoney
  <2>1. CASE UNCHANGED <<sums, deposits, transfers>>
    BY <2>1 DEF LedgerMatchesRecords, Balance, DepositsTo, TransfersTo, TransfersFrom
  <2> QED
    BY <2>1, DepositMatches, TransferMatches DEF Money
<1> QED
  BY <1>1, <1>2, AlwaysBase, PTL DEF Spec
=============================================================================
