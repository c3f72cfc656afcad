-------------------------- MODULE AbstractSession --------------------------
(***************************************************************************)
(* What a user is promised of a login, with neither transactions nor       *)
(* locks: the session it begins is held, by one token, until it ends for   *)
(* good.  While a token is exchanged for the next, the session has none.   *)
(* A login ends the user's other sessions that are held.                   *)
(***************************************************************************)
CONSTANTS Sessions, Users

VARIABLES stage,    \* of each session: new, held, exchanging or over
          holders   \* the users who can use it: none or one

vars == <<stage, holders>>

Init ==
    /\ stage = [s \in Sessions |-> "new"]
    /\ holders = [s \in Sessions |-> {}]

Ended(u) == {s \in Sessions : stage[s] = "held" /\ holders[s] = {u}}

Begin(s, u) ==
    /\ stage[s] = "new"
    /\ stage' = [r \in Sessions |-> CASE r = s -> "held"
                                      [] r \in Ended(u) -> "over"
                                      [] OTHER -> stage[r]]
    /\ holders' = [r \in Sessions |-> CASE r = s -> {u}
                                        [] r \in Ended(u) -> {}
                                        [] OTHER -> holders[r]]

Move(s, from, to) ==
    /\ stage[s] = from
    /\ stage' = [stage EXCEPT ![s] = to]

(* A valid token is presented, and replaced.                               *)
Present(s) == Move(s, "held", "exchanging") /\ UNCHANGED holders
Replace(s) == Move(s, "exchanging", "held") /\ UNCHANGED holders

(* A logout, a token that is too old, or a login or an exchange cut short. *)
End(s) ==
    /\ \E from \in {"new", "held", "exchanging"} : Move(s, from, "over")
    /\ holders' = [holders EXCEPT ![s] = {}]

Next ==
    \E s \in Sessions :
        \/ \E u \in Users : Begin(s, u)
        \/ Present(s) \/ Replace(s) \/ End(s)

Spec == Init /\ [][Next]_vars
=============================================================================
