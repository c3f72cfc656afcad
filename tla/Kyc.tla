-------------------------------- MODULE Kyc --------------------------------
(***************************************************************************)
(* Profiles, compliance cases, and the wallets and virtual accounts that   *)
(* depend on them: POST /identity/profile, PATCH .../tier2 and /tier3,     *)
(* PATCH .../compliance-cases/:id/resolve and POST                         *)
(* /wallets/me/virtual-account, handled at the same time.                  *)
(*                                                                         *)
(* Every use case reads what it needs outside its database transaction.    *)
(* Inside, only creating a profile and claiming a case touch rows others   *)
(* compete for, so that a database transaction is one step, apart from the *)
(* resolution of a case, which reads the profile between claiming the case *)
(* and writing.  A profile is created once for a user, and a case only     *)
(* with it, so that a case is known by its user.  Names, numbers and their *)
(* uniqueness are left out: Fail stands for the errors they cause.         *)
(***************************************************************************)
EXTENDS Naturals, Sequences

CONSTANTS Users,
          Handlers,         \* the HTTP requests being handled
          MaxFailures,      \* bound: how many requests fail or die
          NoUser, NoProfile

Tiers        == {"TIER_1", "TIER_2", "TIER_3"}
Statuses     == {"CLEARED", "FLAGGED", "BLOCKED"}
Dispositions == {"CLEARED", "CONFIRMED_BLOCK"}
Profiles     == [tier : Tiers, screeningStatus : Statuses]

ASSUME KycAssumption ==
    NoUser \notin Users /\ NoProfile \notin Profiles /\ MaxFailures \in Nat

VARIABLES
    profiles,   \* the Profile table, by user
    cases,      \* the user's compliance case: none, OPEN or RESOLVED
    hits,       \* the users whose case lists watchlist hits
    wallets,    \* the users who have a wallet
    accounts,   \* the users whose wallet has a virtual account
    resolved,   \* audit entries COMPLIANCE_CASE_RESOLVED: the dispositions
    upgraded,   \* audit entries KYC_TIER_UPGRADED: to which tiers, by user
    opened,     \* audit entries VIRTUAL_ACCOUNT_CREATED: how many, by user
    pc, user,
    copy,       \* the profile a request has read
    verdict,    \* the disposition a request applies
    failures,
    unaudited   \* history: the users whose request failed after the account
                \* was opened and before its entry was written

faults == <<failures, unaudited>>
tables == <<profiles, cases, hits, wallets, accounts, resolved, upgraded, opened>>
vars == <<tables, pc, user, copy, verdict, faults>>

(* The screening gateway's answer decides (Profile.resolveScreeningStatus) *)
(* between a watchlist hit, a low score, and neither.                      *)
Screenings == [watchlistHit : BOOLEAN, lowScore : BOOLEAN]

ScoreFirst(s) ==                    \* mutant: the tests are swapped
    CASE s.lowScore -> "FLAGGED"
      [] ~s.lowScore /\ s.watchlistHit -> "BLOCKED"
      [] OTHER -> "CLEARED"

ResolveScreeningStatus(s) ==
    CASE s.watchlistHit -> "BLOCKED"
      [] ~s.watchlistHit /\ s.lowScore -> "FLAGGED"
      [] OTHER -> "CLEARED"
-----------------------------------------------------------------------------
Init ==
    /\ profiles = [u \in Users |-> NoProfile]
    /\ cases = [u \in Users |-> "none"]
    /\ hits = {}
    /\ wallets = {}
    /\ accounts = {}
    /\ resolved = [u \in Users |-> <<>>]
    /\ upgraded = [u \in Users |-> {}]
    /\ opened = [u \in Users |-> 0]
    /\ pc = [h \in Handlers |-> "idle"]
    /\ user = [h \in Handlers |-> NoUser]
    /\ copy = [h \in Handlers |-> NoProfile]
    /\ verdict = [h \in Handlers |-> "none"]
    /\ failures = 0
    /\ unaudited = {}

Goto(h, where) == pc' = [pc EXCEPT ![h] = where]

Start(h, u, where) ==
    /\ pc[h] = "idle"
    /\ user' = [user EXCEPT ![h] = u]
    /\ Goto(h, where)

Leave(h) ==
    /\ Goto(h, "idle")
    /\ user' = [user EXCEPT ![h] = NoUser]
    /\ copy' = [copy EXCEPT ![h] = NoProfile]
    /\ verdict' = [verdict EXCEPT ![h] = "none"]

(* CreateProfileUseCase: no profile yet, so screen the applicant.          *)
BeginProfile(h, u) ==
    /\ profiles[u] = NoProfile
    /\ Start(h, u, "create")
    /\ UNCHANGED <<tables, copy, verdict, faults>>

(* The database transaction: profile, case and wallet, or nothing when the *)
(* user has got a profile meanwhile.                                       *)
CreateProfile(h) ==
    LET u == user[h]
    IN  /\ pc[h] = "create"
        /\ profiles[u] = NoProfile
        /\ \E s \in Screenings :
              LET status == ResolveScreeningStatus(s)
              IN  /\ profiles' = [profiles EXCEPT ![u] =
                         [tier |-> "TIER_1", screeningStatus |-> status]]
                  /\ cases' = IF status = "CLEARED" THEN cases
                              ELSE [cases EXCEPT ![u] = "OPEN"]
                  /\ hits' = IF s.watchlistHit THEN hits \cup {u} ELSE hits
                  /\ IF status = "BLOCKED"
                     THEN UNCHANGED wallets /\ Leave(h)
                     ELSE /\ wallets' = wallets \cup {u}
                          /\ Goto(h, "provision")
                          /\ UNCHANGED <<user, copy, verdict>>
        /\ UNCHANGED <<accounts, resolved, upgraded, opened, faults>>

RefuseProfile(h) ==
    /\ pc[h] = "create"
    /\ profiles[user[h]] # NoProfile
    /\ Leave(h)
    /\ UNCHANGED <<tables, faults>>

RetryAnyone(h, u) ==                \* mutant: the wallet is not looked up
    /\ Start(h, u, "provision")
    /\ UNCHANGED <<tables, copy, verdict, faults>>

(* POST /wallets/me/virtual-account.                                       *)
RetryProvisioning(h, u) ==
    /\ u \in wallets
    /\ Start(h, u, "provision")
    /\ UNCHANGED <<tables, copy, verdict, faults>>

FindInverted(h) ==                  \* mutant: the test is inverted
    /\ pc[h] = "provision"
    /\ IF user[h] \notin accounts
       THEN Leave(h)
       ELSE Goto(h, "open") /\ UNCHANGED <<user, copy, verdict>>
    /\ UNCHANGED <<tables, faults>>

(* CreateVirtualAccountUseCase: return the one there is, or ask the        *)
(* partner for one.                                                        *)
FindVirtualAccount(h) ==
    /\ pc[h] = "provision"
    /\ IF user[h] \in accounts
       THEN Leave(h)
       ELSE Goto(h, "open") /\ UNCHANGED <<user, copy, verdict>>
    /\ UNCHANGED <<tables, faults>>

OpenTwice(h) ==                     \* mutant: the second insert succeeds
    /\ pc[h] = "open"
    /\ accounts' = accounts \cup {user[h]}
    /\ Goto(h, "audit")
    /\ UNCHANGED <<profiles, cases, hits, wallets, resolved, upgraded, opened,
                   faults, user, copy, verdict>>

(* The wallet's id is unique in the table: a second insert throws.         *)
OpenVirtualAccount(h) ==
    /\ pc[h] = "open"
    /\ accounts' = accounts \cup {user[h]}
    /\ IF user[h] \in accounts
       THEN Leave(h)
       ELSE Goto(h, "audit") /\ UNCHANGED <<user, copy, verdict>>
    /\ UNCHANGED <<profiles, cases, hits, wallets, resolved, upgraded, opened,
                   faults>>

(* The audit entry is committed on its own, after the account.             *)
AuditVirtualAccount(h) ==
    /\ pc[h] = "audit"
    /\ opened' = [opened EXCEPT ![user[h]] = @ + 1]
    /\ Leave(h)
    /\ UNCHANGED <<profiles, cases, hits, wallets, accounts, resolved, upgraded,
                   faults>>

TopTier(tier) == "TIER_3"           \* mutant: whatever the tier was

(* UpgradeToTier2UseCase and UpgradeToTier3UseCase: read the profile...    *)
NextTier(tier) == CASE tier = "TIER_1" -> "TIER_2"
                    [] tier = "TIER_2" -> "TIER_3"

BeginUpgrade(h, u) ==
    /\ profiles[u] # NoProfile
    /\ profiles[u].tier # "TIER_3"
    /\ Start(h, u, "upgrade")
    /\ copy' = [copy EXCEPT ![h] = profiles[u]]
    /\ UNCHANGED <<tables, verdict, faults>>

(* ... and write the copy back with the next tier, and the audit entry.    *)
Upgrade(h) ==
    LET u    == user[h]
        tier == NextTier(copy[h].tier)
    IN  /\ pc[h] = "upgrade"
        /\ profiles' = [profiles EXCEPT ![u] = [copy[h] EXCEPT !.tier = tier]]
        /\ upgraded' = [upgraded EXCEPT ![u] = @ \cup {tier}]
        /\ Leave(h)
        /\ UNCHANGED <<cases, hits, wallets, accounts, resolved, opened, faults>>

ClaimedNever(u) == FALSE            \* mutant: find, then update

(* resolveIfOpen: the update locks the case until the transaction ends;    *)
(* another one for the same case waits, and then finds it resolved.        *)
Claimed(u) == \E h \in Handlers : pc[h] \in {"read", "resolve"} /\ user[h] = u

ClaimCase(h, u) ==
    /\ cases[u] = "OPEN"
    /\ ~Claimed(u)
    /\ Start(h, u, "read")
    /\ \E d \in Dispositions : verdict' = [verdict EXCEPT ![h] = d]
    /\ UNCHANGED <<tables, copy, faults>>

(* The profile is read on another connection, without a lock.              *)
ReadProfile(h) ==
    /\ pc[h] = "read"
    /\ copy' = [copy EXCEPT ![h] = profiles[user[h]]]
    /\ Goto(h, "resolve")
    /\ UNCHANGED <<tables, user, verdict, faults>>

ScreenedSwapped(profile, d) ==      \* mutant: the branches are swapped
    [profile EXCEPT !.screeningStatus =
                        IF d = "CLEARED" THEN "BLOCKED" ELSE "CLEARED"]

(* clearScreening or confirmBlock on the copy.                             *)
Screened(profile, d) ==
    [profile EXCEPT !.screeningStatus =
                        IF d = "CLEARED" THEN "CLEARED" ELSE "BLOCKED"]

(* The profile is written, a cleared user without a wallet gets one, and   *)
(* the audit entry is committed with the resolution of the case.           *)
ResolveCase(h) ==
    LET u == user[h]
    IN  /\ pc[h] = "resolve"
        /\ profiles' = [profiles EXCEPT ![u] = Screened(copy[h], verdict[h])]
        /\ wallets' = IF verdict[h] = "CLEARED" THEN wallets \cup {u}
                      ELSE wallets
        /\ cases' = [cases EXCEPT ![u] = "RESOLVED"]
        /\ resolved' = [resolved EXCEPT ![u] = Append(@, verdict[h])]
        /\ Leave(h)
        /\ UNCHANGED <<hits, accounts, upgraded, opened, faults>>

(* The process dies, the partner or the database answers with an error, or *)
(* a number is taken by another user: what is not committed is undone.     *)
Fail(h) ==
    /\ pc[h] # "idle"
    /\ failures < MaxFailures
    /\ failures' = failures + 1
    /\ unaudited' = IF pc[h] = "audit" THEN unaudited \cup {user[h]} ELSE unaudited
    /\ Leave(h)
    /\ UNCHANGED tables

Step(h) ==
    \/ CreateProfile(h) \/ RefuseProfile(h)
    \/ FindVirtualAccount(h) \/ OpenVirtualAccount(h) \/ AuditVirtualAccount(h)
    \/ Upgrade(h)
    \/ ReadProfile(h) \/ ResolveCase(h)

(* A request that is refused at once, or only reads, changes nothing.      *)
Refuse(h) == pc[h] = "idle" /\ UNCHANGED vars

Next ==
    \E h \in Handlers :
        \/ \E u \in Users : \/ BeginProfile(h, u)
                            \/ RetryProvisioning(h, u)
                            \/ BeginUpgrade(h, u)
                            \/ ClaimCase(h, u)
        \/ Step(h)
        \/ Fail(h)
        \/ Refuse(h)

Spec == Init /\ [][Next]_vars

(* A request that has been received is handled to its end.                 *)
FairSpec == Spec /\ \A h \in Handlers : WF_vars(Step(h))

(* Users without a virtual account ask for one until they have it.         *)
RetryingSpec ==
    FairSpec /\ \A u \in Users : SF_vars(/\ u \notin accounts
                                         /\ \E h \in Handlers :
                                               RetryProvisioning(h, u))
-----------------------------------------------------------------------------
(* Each variable holds what it is meant to.                                *)
TypeOK ==
    /\ profiles \in [Users -> Profiles \cup {NoProfile}]
    /\ cases \in [Users -> {"none", "OPEN", "RESOLVED"}]
    /\ accounts \subseteq wallets /\ wallets \subseteq Users
    /\ hits \subseteq Users /\ opened \in [Users -> Nat]
    /\ resolved \in [Users -> Seq(Dispositions)]
    /\ upgraded \in [Users -> SUBSET Tiers]
    /\ pc \in [Handlers -> {"idle", "create", "provision", "open", "audit",
                            "upgrade", "read", "resolve"}]
    /\ user \in [Handlers -> Users \cup {NoUser}]
    /\ copy \in [Handlers -> Profiles \cup {NoProfile}]
    /\ verdict \in [Handlers -> Dispositions \cup {"none"}]
    /\ failures \in 0 .. MaxFailures /\ unaudited \subseteq Users

Cleared(u) == resolved[u] = <<"CLEARED">>

(* A user has a wallet exactly when the profile was created without a      *)
(* watchlist hit or an administrator has cleared the case, whatever failed *)
(* or was repeated on the way.                                             *)
WalletIffAllowed ==
    \A u \in Users :
        u \in wallets <=> profiles[u] # NoProfile
                          /\ (u \notin hits \/ Cleared(u))

(* A case is resolved once: two administrators who decide it at the same   *)
(* time do not both leave a determination, and a determination is recorded *)
(* just when the case is closed.                                           *)
ResolvedOnce ==
    \A u \in Users :
        Len(resolved[u]) = IF cases[u] = "RESOLVED" THEN 1 ELSE 0

(* Nobody passes the screening without a decision: a profile is not        *)
(* CLEARED while its case is open, and has a case unless it is CLEARED,    *)
(* even though upgrades write back the status they have read.              *)
ClearedByDecision ==
    \A u \in Users : profiles[u] # NoProfile =>
        IF profiles[u].screeningStatus = "CLEARED"
        THEN cases[u] = "none" \/ Cleared(u)
        ELSE cases[u] # "none"

(* A case's resolution and the status of its profile go together.          *)
DispositionHolds ==
    \A u \in Users : cases[u] = "RESOLVED" =>
        (profiles[u].screeningStatus = "CLEARED") = Cleared(u)

(* Nobody has a tier without the upgrades that lead to it in the audit     *)
(* log, and TIER_3 comes after TIER_2, whatever stale copies of a profile  *)
(* upgrades and resolutions write back: they may lose an upgrade, but they *)
(* invent none.                                                            *)
Earned(u, tier) ==
    /\ tier # "TIER_1" => "TIER_2" \in upgraded[u]
    /\ tier = "TIER_3" => "TIER_3" \in upgraded[u]

TiersAreEarned ==
    \A u \in Users :
        /\ profiles[u] # NoProfile => Earned(u, profiles[u].tier)
        /\ "TIER_3" \in upgraded[u] => "TIER_2" \in upgraded[u]

(* A virtual account is audited once: however many retries overlap, there  *)
(* is one entry at most and none for an account that does not exist.  The  *)
(* entry is missing while the one request that opened the account has yet  *)
(* to write it, and for ever if that request failed in between: no retry   *)
(* writes it.  No other failure loses an entry.                            *)
Auditing(u) == {h \in Handlers : pc[h] = "audit" /\ user[h] = u}

AccountAuditedOnce ==
    \A u \in Users :
        /\ opened[u] <= IF u \in accounts THEN 1 ELSE 0
        /\ u \in accounts /\ opened[u] = 0 => Auditing(u) # {} \/ u \in unaudited
        /\ opened[u] = 1 => Auditing(u) = {} /\ u \notin unaudited

(* Every wallet gets its virtual account, although provisioning fails, as  *)
(* long as an owner without one keeps asking for it.                       *)
EveryWalletGetsAccount == \A u \in Users : u \in wallets ~> u \in accounts
=============================================================================
