---------------------------- MODULE MCWithdrawals ----------------------------
(***************************************************************************)
(* Instances of Withdrawals and Reconciliation: two customers with a       *)
(* wallet and one without, and requests that repeat a key, reuse a key for *)
(* something else, and ask for more than the wallet holds.                 *)
(***************************************************************************)
EXTENDS Reconciliation, TLC

CONSTANTS u1, u2, nobody, w1, w2, k1, k2, h1, h2, r1, r2, d1

MCUsers   == {u1, u2, nobody}
MCWallets == {w1, w2}
MCKeys    == {k1, k2}
MCOwnerOf == (w1 :> u1) @@ (w2 :> u2)
MCOpeningBalance == (w1 :> 2) @@ (w2 :> 1)

(* One deposit, of as much as the first wallet's withdrawal takes, to the  *)
(* second wallet, which holds nothing before; or none.                     *)
OneDeposit  == {d1}
MCDepositOf == (d1 :> [wallet |-> w2, amount |-> 2])
SecondEmpty == (w1 :> 2) @@ (w2 :> 0)
NoDeposits  == {}
NoDepositOf == <<>>

Ask(u, k, n) == [user |-> u, key |-> k, amount |-> n]

(* Two withdrawals of two customers, for runs that go on for ever.         *)
TwoRequests == {Ask(u1, k1, 2), Ask(u2, k2, 1)}

(* The first wallet has the id of its owner, so that the lookup of         *)
(* ReleaseWithdrawalUseCase finds it, and the second has an id of its own. *)
(* The second and the third want all their wallet holds, the fourth has no *)
(* wallet, and each key is wanted by two.                                  *)
MixedUsers     == {w1, u2, nobody}
MixedOwnerOf   == (w1 :> w1) @@ (w2 :> u2)
MixedRequests  == {Ask(w1, k1, 2), Ask(u2, k1, 1), Ask(u2, k2, 1),
                   Ask(nobody, k2, 1)}

(* One withdrawal of each customer who has a wallet, each of which may be  *)
(* asked for twice: few enough for liveness beside runs and a deposit.     *)
FewRequests == {Ask(w1, k1, 2), Ask(u2, k2, 1)}

AllOutcomes == {"SUCCESSFUL", "FAILED", "UNKNOWN"}
NoFailures  == {"SUCCESSFUL", "UNKNOWN"}

TwoHandlers == {h1, h2}
OneRunner   == {r1}
TwoRunners  == {r1, r2}
=============================================================================
