------------------------------ MODULE MCSessions ------------------------------
(***************************************************************************)
(* Instances of Sessions: enough tokens for two logins and for a refresh   *)
(* of each, or for two refreshes of one.                                   *)
(***************************************************************************)
EXTENDS Sessions, TLC

CONSTANTS u1, u2, t1, t2, t3, t4, h1, h2, h3

OneUser       == {u1}
TwoUsers      == {u1, u2}
MCTokens      == {t1, t2, t3, t4}
MCHandlers    == {h1, h2, h3}

MCSymmetry == Permutations(MCTokens) \cup Permutations(MCHandlers)
                  \cup Permutations({u1, u2})
=============================================================================
