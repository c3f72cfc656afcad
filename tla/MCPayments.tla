----------------------------- MODULE MCPayments -----------------------------
(***************************************************************************)
(* Instances of Payments: two wallets, duplicate references and keys, a    *)
(* transfer larger than what has arrived, and one to the sender itself.    *)
(***************************************************************************)
EXTENDS Payments, TLC

CONSTANTS s1, s2, w1, w2, stranger, n1, n2, n9, e1, e2, k1, k2

MCWallets        == {w1, w2}
MCNumbers        == {n1, n2}
MCWalletOfNumber == (n1 :> w1) @@ (n2 :> w2)
MCReferences     == {e1, e2}
MCKeys           == {k1, k2}

Arrived(n, e, x) == [number |-> n, reference |-> e, amount |-> x]
Send(v, w, k, x) == [from |-> v, to |-> w, key |-> k, amount |-> x]

MCDeposits  == {Arrived(n1, e1, 2), Arrived(n2, e2, 1), Arrived(n9, e2, 1)}
MCTransfers == {Send(w1, w2, k1, 2), Send(w1, w2, k2, 1), Send(w2, w1, k2, 3),
                Send(w1, w1, k1, 1), Send(w1, stranger, k1, 1)}

TwoServers == {s1, s2}
=============================================================================
