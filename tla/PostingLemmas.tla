--------------------------- MODULE PostingLemmas ---------------------------
(***************************************************************************)
(* What the use cases rely on when they post: the list of two postings     *)
(* that moves an amount from one account to another changes the sums of    *)
(* these two accounts, and of no other.                                    *)
(***************************************************************************)
EXTENDS Postings, SumLemmas, TLAPS

(* What one posting adds to an account in a direction.                     *)
Part(p, a, d) == IF p.account = a /\ p.direction = d THEN p.amount ELSE 0

LEMMA SumPair ==
    ASSUME NEW f, DOMAIN f = {1, 2}, f[1] \in Int, f[2] \in Int
    PROVE  SumFunction(f) = f[1] + f[2]
<1>1. SumFunctionOnSet(f, {}) = 0 /\ IsFiniteSet({}) /\ IsFiniteSet({1})
  BY SumEmpty, FS_EmptySet, FS_Singleton
<1>2. SumFunctionOnSet(f, {} \cup {1}) = f[1] + SumFunctionOnSet(f, {})
  <2>1. 1 \notin {} /\ \A y \in {} \cup {1} : f[y] \in Int
    OBVIOUS
  <2> QED
    BY <1>1, <2>1, SumAdd
<1>3. SumFunctionOnSet(f, {1} \cup {2}) = f[2] + SumFunctionOnSet(f, {1})
  <2>1. 2 \notin {1} /\ \A y \in {1} \cup {2} : f[y] \in Int
    OBVIOUS
  <2> QED
    BY <1>1, <2>1, SumAdd
<1>4. {} \cup {1} = {1} /\ {1} \cup {2} = {1, 2}
  OBVIOUS
<1>5. SumFunctionOnSet(f, {1, 2}) = f[1] + f[2]
  BY <1>1, <1>2, <1>3, <1>4
<1> QED
  BY <1>5 DEF SumFunction

LEMMA PostedPair ==
    ASSUME NEW p, NEW q, p.amount \in Int, q.amount \in Int, NEW a, NEW d
    PROVE  Posted(<<p, q>>, a, d) = Part(p, a, d) + Part(q, a, d)
<1> DEFINE f == [i \in DOMAIN <<p, q>> |->
                    IF <<p, q>>[i].account = a /\ <<p, q>>[i].direction = d
                    THEN <<p, q>>[i].amount ELSE 0]
<1>1. DOMAIN f = {1, 2} /\ f[1] = Part(p, a, d) /\ f[2] = Part(q, a, d)
  BY DEF Part
<1>2. Posted(<<p, q>>, a, d) = SumFunction(f)
  BY DEF Posted
<1>3. Part(p, a, d) \in Int /\ Part(q, a, d) \in Int
  BY DEF Part
<1> HIDE DEF f
<1> QED
  BY <1>1, <1>2, <1>3, SumPair

(* LedgerTransaction.balanced accepts the lists that move an amount.       *)
LEMMA MovementBalanced ==
    ASSUME NEW a, NEW b, NEW n \in Nat, NEW c,
           NEW txn, txn = <<Debit(a, n, c), Credit(b, n, c)>>
    PROVE  /\ Balanced(txn) /\ DOMAIN txn = {1, 2} /\ AccountsOf(txn) = {a, b}
           /\ \A i \in DOMAIN txn : txn[i].currency = c
<1> DEFINE f == [i \in DOMAIN txn |-> SignedAmount(txn[i])]
<1>1. /\ DOMAIN txn = {1, 2} /\ Len(txn) = 2
      /\ txn[1] = Debit(a, n, c) /\ txn[2] = Credit(b, n, c)
  OBVIOUS
<1>2. DOMAIN f = {1, 2} /\ f[1] = n /\ f[2] = -n
  BY <1>1 DEF SignedAmount, Debit, Credit
<1>3. SumFunction(f) = 0
  <2> HIDE DEF f
  <2> QED
    BY <1>2, SumPair
<1>4. AccountsOf(txn) = {a, b} /\ \A i \in DOMAIN txn : txn[i].currency = c
  BY <1>1 DEF AccountsOf, Debit, Credit
<1> QED
  BY <1>1, <1>3, <1>4 DEF Balanced

(* An amount moves from one account to another.                            *)
LEMMA AddedMovement ==
    ASSUME NEW accounts, NEW sums \in [accounts -> [Directions -> Nat]],
           NEW a, NEW b, NEW n \in Nat, NEW c,
           NEW txn, txn = <<Debit(a, n, c), Credit(b, n, c)>>,
           NEW after, after = Added(sums, txn)
    PROVE  /\ after \in [accounts -> [Directions -> Nat]]
           /\ \A x \in accounts :
                 /\ after[x]["DEBIT"] =
                        sums[x]["DEBIT"] + (IF x = a THEN n ELSE 0)
                 /\ after[x]["CREDIT"] =
                        sums[x]["CREDIT"] + (IF x = b THEN n ELSE 0)
<1>1. Debit(a, n, c).amount \in Int /\ Credit(b, n, c).amount \in Int
  BY DEF Debit, Credit
<1>2. \A x, d : Posted(txn, x, d) = Part(Debit(a, n, c), x, d)
                                  + Part(Credit(b, n, c), x, d)
  BY <1>1, PostedPair
<1>3. \A x : /\ Posted(txn, x, "DEBIT") = IF x = a THEN n ELSE 0
             /\ Posted(txn, x, "CREDIT") = IF x = b THEN n ELSE 0
  BY <1>2 DEF Part, Debit, Credit
<1>4. \A x \in accounts, d \in Directions :
          Added(sums, txn)[x][d] = sums[x][d] + Posted(txn, x, d)
  BY DEF Added
<1>5. \A x, d : d \in Directions => Posted(txn, x, d) \in Nat
  BY <1>3 DEF Directions
<1>6. Added(sums, txn) \in [accounts -> [Directions -> Nat]]
  <2>1. \A x \in accounts, d \in Directions : sums[x][d] + Posted(txn, x, d) \in Nat
    BY <1>5
  <2>2. Added(sums, txn) = [x \in accounts |-> [d \in Directions |->
                                sums[x][d] + Posted(txn, x, d)]]
    BY DEF Added
  <2> QED
    BY <2>1, <2>2
<1> QED
  BY <1>3, <1>4, <1>6 DEF Directions
=============================================================================
