------------------------- MODULE AbstractWithdrawal -------------------------
(***************************************************************************)
(* What the owner of a wallet is promised of a withdrawal, with neither    *)
(* ledger, requests nor runs: its money is held, once and if there is      *)
(* enough of it; the partner sends it or refuses to; and then it is gone   *)
(* for good or back in the wallet.  A deposit adds to a wallet once, and   *)
(* nothing else moves money available in a wallet.                         *)
(***************************************************************************)
EXTENDS Integers

CONSTANTS Keys,         \* one withdrawal for each idempotency key
          Wallets,
          Deposits,
          DepositOf,    \* the wallet and the amount of each
          NoTerms

VARIABLES stage,        \* how far each withdrawal is
          terms,        \* the wallet it draws on and its amount
          available,    \* what each wallet can spend
          credited      \* the deposits it has been given

vars == <<stage, terms, available, credited>>

Terms == [wallet : Wallets, amount : Nat]

Init ==
    /\ stage = [k \in Keys |-> "none"]
    /\ terms = [k \in Keys |-> NoTerms]
    /\ available \in [Wallets -> Nat]
    /\ credited = {}

Move(k, from, to) ==
    /\ stage[k] = from
    /\ stage' = [stage EXCEPT ![k] = to]

Hold(k, w, n) ==
    /\ Move(k, "none", "held")
    /\ terms' = [terms EXCEPT ![k] = [wallet |-> w, amount |-> n]]
    /\ available' = [available EXCEPT ![w] = @ - n]

(* The partner answers at once, or says that it does not know yet.         *)
Ask(k) ==
    /\ \E answer \in {"undecided", "sent", "refused"} : Move(k, "held", answer)
    /\ UNCHANGED <<terms, available>>

Decide(k) ==
    /\ \E answer \in {"sent", "refused"} : Move(k, "undecided", answer)
    /\ UNCHANGED <<terms, available>>

Settle(k) ==
    /\ Move(k, "sent", "settled")
    /\ UNCHANGED <<terms, available>>

GiveBack(k) ==
    /\ Move(k, "refused", "returned")
    /\ available' = [available EXCEPT ![terms[k].wallet] = @ + terms[k].amount]
    /\ UNCHANGED terms

WithdrawalStep ==
    \E k \in Keys :
        \/ \E w \in Wallets : \E n \in 0 .. available[w] : Hold(k, w, n)
        \/ Ask(k)
        \/ Decide(k)
        \/ Settle(k)
        \/ GiveBack(k)

Fund(d) ==
    /\ d \notin credited
    /\ credited' = credited \cup {d}
    /\ available' = [available EXCEPT ![DepositOf[d].wallet] =
                         @ + DepositOf[d].amount]
    /\ UNCHANGED <<stage, terms>>

Next ==
    \/ WithdrawalStep /\ UNCHANGED credited
    \/ \E d \in Deposits : Fund(d)

Spec == Init /\ [][Next]_vars
=============================================================================
