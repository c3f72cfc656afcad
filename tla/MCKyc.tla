-------------------------------- MODULE MCKyc --------------------------------
(***************************************************************************)
(* Instances of Kyc: one applicant, and two or three requests at the       *)
(* the same time (two of one user, or two administrators and a user).      *)
(***************************************************************************)
EXTENDS Kyc, TLC

CONSTANTS u1, h1, h2, h3

OneUser       == {u1}
TwoHandlers   == {h1, h2}
ThreeHandlers == {h1, h2, h3}
=============================================================================
