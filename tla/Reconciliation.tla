--------------------------- MODULE Reconciliation ---------------------------
(***************************************************************************)
(* Reconciliation runs (POST /admin/reconciliation/run) beside the         *)
(* withdrawal requests of module Withdrawals.  A run takes a snapshot of   *)
(* the withdrawals that are PROCESSING, asks the partner about each, and   *)
(* settles or releases those it has an answer for, with the use cases the  *)
(* request handlers use.  It then compares the pooled account with the     *)
(* cash at the partner, completes its record, and writes the audit log.    *)
(* Deposits arrive and are posted at any time beside it.                   *)
(***************************************************************************)
EXTENDS Withdrawals

CONSTANTS Runners,      \* processes that execute one run after the other
          Overlap,      \* may a snapshot hold what others are at work on?
          MaxDeaths,    \* bound: how many runs are killed
          NoKey

ASSUME RunnerAssumption ==
    Overlap \in BOOLEAN /\ MaxDeaths \in Nat /\ NoKey \notin Keys

VARIABLES
    rpc,            \* how far each runner is with its run
    todo,           \* the rest of its snapshot
    current,        \* the withdrawal it resolves
    internal,       \* the pooled balance it has read
    seen,           \* history: the deposits in the ledger when it read it
    run,            \* the record of its latest run
    discrepancies,  \* the discrepancy table, over all runs
    byRuns,         \* history: the withdrawals that runs have resolved
    deaths

runVars == <<rpc, todo, current, internal, seen, run, discrepancies, byRuns,
             deaths>>
vars == <<sagaVars, deposits, runVars>>

Mismatch == "BALANCE_MISMATCH"
Resting  == {"idle", "threw", "killed"}
Running  == {"snapshot", "requery", "settle", "release", "record",
             "balance", "compare", "complete", "audit"}

RunInit ==
    /\ rpc = [r \in Runners |-> "idle"]
    /\ todo = [r \in Runners |-> {}]
    /\ current = [r \in Runners |-> NoKey]
    /\ internal = [r \in Runners |-> 0]
    /\ seen = [r \in Runners |-> {}]
    /\ run = [r \in Runners |-> "none"]
    /\ discrepancies = {}
    /\ byRuns = {}
    /\ deaths = 0

Init == SagaInit /\ RunInit

Proceed(r, where) == rpc' = [rpc EXCEPT ![r] = where]

(* A run's local variables go with it.                                     *)
EndRun(r, where) ==
    /\ Proceed(r, where)
    /\ todo' = [todo EXCEPT ![r] = {}]
    /\ current' = [current EXCEPT ![r] = NoKey]
    /\ internal' = [internal EXCEPT ![r] = 0]
    /\ seen' = [seen EXCEPT ![r] = {}]

(* The withdrawals that are PROCESSING have neither a live handler nor     *)
(* another run at work on them.                                            *)
Quiet ==
    /\ \A h \in Handlers : pc[h] \notin {"send", "settle", "release"}
    /\ \A r \in Runners : rpc[r] \in Resting \cup {"snapshot"}

(* An administrator triggers a run; createRun stores its record.           *)
StartRun(r) ==
    /\ rpc[r] \in Resting
    /\ run' = [run EXCEPT ![r] = "started"]
    /\ Proceed(r, "snapshot")
    /\ UNCHANGED <<sagaVars, todo, current, internal, seen, discrepancies,
                   byRuns, deaths>>

SnapshotPending(r) ==               \* mutant: the wrong status is selected
    /\ rpc[r] = "snapshot"
    /\ Overlap \/ Quiet
    /\ todo' = [todo EXCEPT ![r] = KeysWith({"PENDING"})]
    /\ Proceed(r, "requery")
    /\ UNCHANGED <<sagaVars, current, internal, seen, run, discrepancies,
                   byRuns, deaths>>

(* findAllProcessing                                                       *)
Snapshot(r) ==
    /\ rpc[r] = "snapshot"
    /\ Overlap \/ Quiet
    /\ todo' = [todo EXCEPT ![r] = KeysWith({"PROCESSING"})]
    /\ Proceed(r, "requery")
    /\ UNCHANGED <<sagaVars, current, internal, seen, run, discrepancies,
                   byRuns, deaths>>

(* checkTransferStatus for the next one; UNKNOWN leaves it as it is.       *)
Requery(r) ==
    /\ rpc[r] = "requery"
    /\ \E k \in todo[r] :
          /\ todo' = [todo EXCEPT ![r] = @ \ {k}]
          /\ current' = [current EXCEPT ![r] = k]
          /\ Proceed(r, AfterVerdict(VerdictOf(rail[k]), "requery"))
    /\ UNCHANGED <<sagaVars, internal, seen, run, discrepancies, byRuns, deaths>>

SettleSilently(r) ==                \* mutant: the discrepancy is forgotten
    /\ rpc[r] = "settle"
    /\ SettleTx(current[r])
    /\ byRuns' = byRuns \cup {current[r]}
    /\ Proceed(r, "requery")
    /\ UNCHANGED <<rail, calls, pc, request>>
    /\ UNCHANGED <<todo, current, internal, seen, run, discrepancies, deaths>>

SettleStuck(r) ==
    /\ rpc[r] = "settle"
    /\ SettleTx(current[r])
    /\ byRuns' = byRuns \cup {current[r]}
    /\ Proceed(r, "record")
    /\ UNCHANGED <<rail, calls, pc, request>>
    /\ UNCHANGED <<todo, current, internal, seen, run, discrepancies, deaths>>

ReleaseStuck(r) ==
    /\ rpc[r] = "release"
    /\ ReleaseTx(current[r])
    /\ byRuns' = byRuns \cup {current[r]}
    /\ Proceed(r, "record")
    /\ UNCHANGED <<rail, calls, pc, request>>
    /\ UNCHANGED <<todo, current, internal, seen, run, discrepancies, deaths>>

(* An error in the loop ends the run: nothing catches it.                  *)
RunThrows(r) ==
    /\ \/ rpc[r] = "settle" /\ CannotSettle(current[r])
       \/ rpc[r] = "release" /\ CannotRelease(current[r])
    /\ EndRun(r, "threw")
    /\ UNCHANGED <<sagaVars, run, discrepancies, byRuns, deaths>>

Record(r) ==
    /\ rpc[r] = "record"
    /\ discrepancies' = discrepancies \cup {current[r]}
    /\ Proceed(r, "requery")
    /\ UNCHANGED <<sagaVars, todo, current, internal, seen, run, byRuns, deaths>>

ReadPending(r) ==                   \* mutant: the wrong account is read
    /\ rpc[r] = "requery"
    /\ todo[r] = {}
    /\ internal' = [internal EXCEPT ![r] = Balance(Pending)]
    /\ seen' = [seen EXCEPT ![r] = Entered]
    /\ Proceed(r, "compare")
    /\ UNCHANGED <<sagaVars, todo, current, run, discrepancies,
                   byRuns, deaths>>

(* ReconcileBalanceUseCase reads the ledger first, then the partner.       *)
ReadInternal(r) ==
    /\ rpc[r] = "requery"
    /\ todo[r] = {}
    /\ internal' = [internal EXCEPT ![r] = Balance(Pool)]
    /\ seen' = [seen EXCEPT ![r] = Entered]
    /\ Proceed(r, "compare")
    /\ UNCHANGED <<sagaVars, todo, current, run, discrepancies,
                   byRuns, deaths>>

CompareExternal(r) ==
    /\ rpc[r] = "compare"
    /\ discrepancies' = IF internal[r] = Cash THEN discrepancies
                        ELSE discrepancies \cup {Mismatch}
    /\ Proceed(r, "complete")
    /\ UNCHANGED <<sagaVars, todo, current, internal, seen, run, byRuns, deaths>>

CompleteRun(r) ==
    /\ rpc[r] = "complete"
    /\ run' = [run EXCEPT ![r] = "completed"]
    /\ Proceed(r, "audit")
    /\ UNCHANGED <<sagaVars, todo, current, internal, seen, discrepancies,
                   byRuns, deaths>>

AuditRun(r) ==
    /\ rpc[r] = "audit"
    /\ run' = [run EXCEPT ![r] = "audited"]
    /\ EndRun(r, "idle")
    /\ UNCHANGED <<sagaVars, discrepancies, byRuns, deaths>>

(* The process dies with the run in it.                                    *)
KillRun(r) ==
    /\ rpc[r] \in Running
    /\ deaths < MaxDeaths
    /\ deaths' = deaths + 1
    /\ EndRun(r, "killed")
    /\ UNCHANGED <<sagaVars, run, discrepancies, byRuns>>

RunStep(r) ==
    \/ Snapshot(r) \/ Requery(r) \/ SettleStuck(r) \/ ReleaseStuck(r)
    \/ RunThrows(r) \/ Record(r) \/ ReadInternal(r) \/ CompareExternal(r)
    \/ CompleteRun(r) \/ AuditRun(r)

Next ==
    \/ SagaStep /\ UNCHANGED <<deposits, runVars>>
    \/ DepositStep /\ UNCHANGED runVars
    \/ \E r \in Runners : /\ StartRun(r) \/ RunStep(r) \/ KillRun(r)
                         /\ UNCHANGED deposits

Spec == Init /\ [][Next]_vars

(* A request handler and a run keep going unless they are killed.  That a  *)
(* run is triggered again and again is the operators' part: the code has   *)
(* no schedule.  Nothing says that a deposit comes, or is announced.       *)
FairSpec ==
    /\ Spec
    /\ \A h \in Handlers :
          WF_vars(HandlerStep(h) /\ UNCHANGED <<deposits, runVars>>)
    /\ \A r \in Runners : /\ WF_vars(StartRun(r) /\ UNCHANGED deposits)
                          /\ WF_vars(RunStep(r) /\ UNCHANGED deposits)
-----------------------------------------------------------------------------
RunsTypeOK ==
    /\ SagaTypeOK
    /\ rpc \in [Runners -> Resting \cup Running]
    /\ todo \in [Runners -> SUBSET Keys]
    /\ current \in [Runners -> Keys \cup {NoKey}]
    /\ internal \in [Runners -> Int]
    /\ run \in [Runners -> {"none", "started", "completed", "audited"}]
    /\ discrepancies \subseteq Keys \cup {Mismatch} /\ byRuns \subseteq Keys
    /\ deaths \in 0 .. MaxDeaths

(* Each variable holds what it is meant to.                                *)
TypeOK ==
    /\ RunsTypeOK
    /\ DepositsTypeOK
    /\ seen \in [Runners -> SUBSET Deposits]

(* What the partner has decided about is resolved accordingly, whatever    *)
(* died on the way, as long as runs keep being triggered: unless the       *)
(* refund of one that was rejected finds no wallet, on which every run     *)
(* throws before it may have come to this one.                             *)
DecidedIsResolved ==
    \A k \in Keys :
        rail[k] \in {"sent", "rejected"} ~>
            \/ HasStatus(k, {VerdictOf(rail[k])})
            \/ \E j \in Keys : rail[j] = "rejected" /\ WalletToRefund(j) = {}

(* The ledger is read before the partner.  Therefore whatever is sent or   *)
(* settled between the two, the difference a run computes falls short of   *)
(* what is in flight only by deposits: those the partner has received and  *)
(* the ledger did not have when the run read it.  The check may cry wolf,  *)
(* and such a deposit may hide money in flight from it, or be taken for a  *)
(* mismatch; but no withdrawal hides another.                              *)
OnlyDepositsHide ==
    \A r \in Runners : rpc[r] = "compare" =>
        internal[r] - Cash >= AmountOf(InFlight) - Received(Arrived \ seen[r])

(* What runs have resolved and neither have recorded nor are about to.     *)
Unreported ==
    byRuns \ (discrepancies \cup
              {current[r] : r \in {p \in Runners : rpc[p] = "record"}})

(* The discrepancy table tells what runs have done: what is in it a run    *)
(* has resolved, for good, and of what runs have resolved it misses at     *)
(* most one withdrawal for each run that was killed.  A run killed between *)
(* a settlement and its record loses that one for ever: no later run will  *)
(* see it PROCESSING.                                                      *)
ReportedByRuns ==
    /\ discrepancies \ {Mismatch} \subseteq byRuns
    /\ \A k \in byRuns : HasStatus(k, {"SUCCESSFUL", "FAILED"})
    /\ Cardinality(Unreported) <= deaths

(* Once the partner has rejected the transfer, the withdrawal ends FAILED  *)
(* and its money is back in the wallet.                                    *)
RejectedIsReleased ==
    \A k \in Keys : rail[k] = "rejected" ~> HasStatus(k, {"FAILED"})
=============================================================================
