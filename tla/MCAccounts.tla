----------------------------- MODULE MCAccounts -----------------------------
(***************************************************************************)
(* An instance of Accounts: two users at first, one with a profile, and an *)
(* e-mail that is free, in two spellings.                                  *)
(***************************************************************************)
EXTENDS Accounts

CONSTANTS h1, h2, ada, bayo, adaMail, bayoMail, newMail, newMAIL

MCIds       == {h1, h2, ada, bayo}
MCHandlers  == {h1, h2}
MCEmails    == {adaMail, bayoMail, newMail}
MCSpellings == {adaMail, newMail, newMAIL}
MCNormal    == [s \in MCSpellings |-> IF s = newMAIL THEN newMail ELSE s]
MCExisting  == {[id |-> ada, email |-> adaMail],
                [id |-> bayo, email |-> bayoMail]}
MCProfiled  == {ada}

Everything == [actor |-> Any, action |-> Any, from |-> 0, to |-> MaxTime]
Failures   == [actor |-> Any, action |-> "USER_LOGIN_FAILED",
               from |-> 1, to |-> MaxTime]
MCFilters  == {Everything, Failures}
=============================================================================
