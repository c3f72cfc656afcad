--------------------------- MODULE AbstractLedger ---------------------------
(***************************************************************************)
(* What the ledger promises its callers: a call either posts a whole       *)
(* balanced transaction at one instant, each posting in its account's own  *)
(* currency and no LIABILITY account left below zero, or it posts nothing. *)
(* The use cases of the wallet module are modelled on this promise.        *)
(***************************************************************************)
EXTENDS Postings

CONSTANTS Accounts, Liability, CurrencyOf, Calls, Transactions, OpeningSums

VARIABLES sums, answer

Covers(s, a) == s[a]["DEBIT"] <= s[a]["CREDIT"]

Init == sums = OpeningSums /\ answer = [c \in Calls |-> "pending"]

Post(c) ==
    /\ answer[c] = "pending"
    /\ answer' = [answer EXCEPT ![c] = "posted"]
    /\ \E t \in Transactions :
          /\ Balanced(t)
          /\ \A i \in DOMAIN t : /\ t[i].account \in Accounts
                                 /\ t[i].currency = CurrencyOf[t[i].account]
          /\ sums' = Added(sums, t)
          /\ \A a \in AccountsOf(t) \cap Liability : Covers(sums', a)

Fail(c) ==
    /\ answer[c] = "pending"
    /\ answer' = [answer EXCEPT ![c] = "failed"]
    /\ UNCHANGED sums

Next == \E c \in Calls : Post(c) \/ Fail(c)

Spec == Init /\ [][Next]_<<sums, answer>>
=============================================================================
