------------------------------ MODULE KycProofs ------------------------------
(***************************************************************************)
(* Proofs about Kyc, for any users, requests and number of failures: who   *)
(* has a wallet, how often a case is resolved, and who counts as CLEARED.  *)
(*                                                                         *)
(* Requests write back profiles they read long ago.  What saves the        *)
(* properties is in CopiesDecided: a copy that says CLEARED was taken of a *)
(* profile that no open case can be about any more.                        *)
(***************************************************************************)
EXTENDS Kyc, TLAPS

USE DEF faults

(* What the audit log says of the case: nothing, or one disposition.       *)
Decided ==
    \A u \in Users :
        IF cases[u] = "RESOLVED"
        THEN \E d \in Dispositions : resolved[u] = <<d>>
        ELSE resolved[u] = <<>>

(* Only profiles have cases, and only cases list hits.                     *)
CasesOfProfiles ==
    \A u \in Users : /\ cases[u] # "none" => profiles[u] # NoProfile
                     /\ u \in hits => cases[u] # "none"

(* The case a request has claimed is open, and claimed by it alone.        *)
Claiming(h) == pc[h] \in {"read", "resolve"}

ClaimsOpen ==
    /\ \A h \in Handlers : Claiming(h) => /\ cases[user[h]] = "OPEN"
                                          /\ verdict[h] \in Dispositions
    /\ \A g, h \in Handlers : Claiming(g) /\ Claiming(h) /\ user[g] = user[h]
                                => g = h

(* Requests that change a profile hold a copy of one.                      *)
Copying(h) == pc[h] \in {"upgrade", "resolve"}

CopiesReal ==
    \A h \in Handlers : Copying(h) => /\ copy[h] \in Profiles
                                      /\ profiles[user[h]] # NoProfile

(* A profile passes the screening only without a case or by its decision.  *)
Justified(u, p) ==
    IF p.screeningStatus = "CLEARED" THEN cases[u] = "none" \/ Cleared(u)
                                     ELSE cases[u] # "none"

CopiesDecided ==
    \A h \in Handlers : Copying(h) => Justified(user[h], copy[h])

(* A request is about a user with what it needs.                           *)
RequestsSound ==
    \A h \in Handlers :
        /\ pc[h] # "idle" => user[h] \in Users
        /\ pc[h] \in {"provision", "open", "audit"} => user[h] \in wallets
        /\ pc[h] = "audit" => user[h] \in accounts
        /\ pc[h] = "upgrade" => copy[h].tier # "TIER_3"

KycInv ==
    /\ TypeOK /\ RequestsSound
    /\ Decided /\ CasesOfProfiles /\ ClaimsOpen /\ CopiesReal
    /\ CopiesDecided /\ ClearedByDecision /\ WalletIffAllowed
(* One request at most has opened the account of a user and not yet        *)
(* audited it: the unique index stops the others.                          *)
OneAuditor ==
    \A g, h \in Handlers :
        pc[g] = "audit" /\ pc[h] = "audit" /\ user[g] = user[h] => g = h

(* An entry that is lost is that of an account, and nobody will write it.  *)
LostForGood == \A u \in unaudited : u \in accounts /\ Auditing(u) = {}

AuditInv == OneAuditor /\ LostForGood /\ AccountAuditedOnce
-----------------------------------------------------------------------------
(* Resolving a case makes a profile CLEARED just when it says so.          *)
LEMMA ScreenedType ==
    ASSUME NEW p \in Profiles, NEW d \in Dispositions
    PROVE  /\ Screened(p, d) \in Profiles
           /\ Screened(p, d).screeningStatus = "CLEARED" <=> d = "CLEARED"
BY DEF Profiles, Screened, Tiers, Statuses, Dispositions

(* An upgrade leaves the screening status of the copy alone.               *)
LEMMA NextTierType ==
    ASSUME NEW p \in Profiles, p.tier # "TIER_3"
    PROVE  /\ [p EXCEPT !.tier = NextTier(p.tier)] \in Profiles
           /\ [p EXCEPT !.tier = NextTier(p.tier)].screeningStatus
                = p.screeningStatus
BY DEF Profiles, NextTier, Tiers, Statuses

(* Steps that leave the tables alone but for virtual accounts and their    *)
(* audit entries keep what KycInv says of profiles, cases and wallets.     *)
LEMMA TablesKept ==
    ASSUME KycInv,
           UNCHANGED <<profiles, cases, hits, wallets, resolved>>
    PROVE  /\ Decided' /\ CasesOfProfiles'
           /\ ClearedByDecision' /\ WalletIffAllowed'
BY DEF KycInv, Decided, CasesOfProfiles, ClearedByDecision, WalletIffAllowed,
       Cleared

(* Requests that neither claim a case nor copy a profile do not disturb    *)
(* those that do.                                                          *)
LEMMA CopiesKept ==
    ASSUME KycInv,
           UNCHANGED <<profiles, cases, resolved>>,
           \A h \in Handlers :
              \/ ~Claiming(h)' /\ ~Copying(h)'
              \/ /\ pc'[h] = pc[h] /\ user'[h] = user[h]
                 /\ copy'[h] = copy[h] /\ verdict'[h] = verdict[h]
    PROVE  ClaimsOpen' /\ CopiesReal' /\ CopiesDecided'
<1>1. ClaimsOpen'
  BY DEF KycInv, ClaimsOpen, Claiming
<1>2. CopiesReal'
  BY DEF KycInv, CopiesReal, Copying
<1>3. CopiesDecided'
  BY DEF KycInv, CopiesDecided, Copying, Justified, Cleared
<1>. QED BY <1>1, <1>2, <1>3

(* Every step keeps KycInv.                                                *)
LEMMA StepKycInv ==
    ASSUME KycInv, [Next]_vars
    PROVE  KycInv'
<1> USE KycAssumption
    DEF KycInv, TypeOK, RequestsSound, ClaimsOpen, CopiesReal, CopiesDecided,
        Justified, Claiming, Copying, Cleared, Goto, Start, Leave
<1>1. ASSUME NEW h \in Handlers, NEW u \in Users, BeginProfile(h, u)
      PROVE  KycInv'
  BY <1>1, TablesKept DEF BeginProfile, tables
<1>2. ASSUME NEW h \in Handlers, NEW u \in Users, RetryProvisioning(h, u)
      PROVE  KycInv'
  BY <1>2, TablesKept DEF RetryProvisioning, tables
<1>3. ASSUME NEW h \in Handlers, NEW u \in Users, BeginUpgrade(h, u)
      PROVE  KycInv'
  BY <1>3, TablesKept DEF BeginUpgrade, tables, ClearedByDecision
<1>4. ASSUME NEW h \in Handlers, NEW u \in Users, ClaimCase(h, u)
      PROVE  KycInv'
  BY <1>4, TablesKept DEF ClaimCase, Claimed, tables
<1>5. ASSUME NEW h \in Handlers, CreateProfile(h) PROVE KycInv'
  <2> DEFINE u == user[h]
  <2>1. PICK s \in Screenings :
          LET status == ResolveScreeningStatus(s)
          IN  /\ profiles' = [profiles EXCEPT ![u] =
                     [tier |-> "TIER_1", screeningStatus |-> status]]
              /\ cases' = IF status = "CLEARED" THEN cases
                          ELSE [cases EXCEPT ![u] = "OPEN"]
              /\ hits' = IF s.watchlistHit THEN hits \cup {u} ELSE hits
              /\ IF status = "BLOCKED"
                 THEN UNCHANGED wallets /\ Leave(h)
                 ELSE /\ wallets' = wallets \cup {u}
                      /\ Goto(h, "provision")
                      /\ UNCHANGED <<user, copy, verdict>>
    BY <1>5 DEF CreateProfile
  <2>2. /\ pc[h] = "create" /\ u \in Users /\ profiles[u] = NoProfile
        /\ UNCHANGED <<accounts, resolved, upgraded, opened, faults>>
        /\ cases[u] = "none" /\ u \notin hits /\ resolved[u] = <<>>
        /\ u \notin wallets /\ <<>> # <<"CLEARED">>
    BY <1>5 DEF CreateProfile, CasesOfProfiles, Decided, WalletIffAllowed
  <2>3. \A g \in Handlers : Copying(g) \/ Claiming(g) => user[g] # u
    BY <2>2 DEF CasesOfProfiles
  <2>4. /\ ResolveScreeningStatus(s) \in Statuses
        /\ ResolveScreeningStatus(s) = "BLOCKED" <=> s.watchlistHit
    BY DEF Screenings, ResolveScreeningStatus, Statuses
  <2>5. [tier |-> "TIER_1", screeningStatus |-> ResolveScreeningStatus(s)]
            \in Profiles
    BY <2>4 DEF Profiles, Tiers
  <2>6. TypeOK'
    <3>1. CASE ResolveScreeningStatus(s) = "BLOCKED"
      BY ZenonT(40), <2>1, <2>2, <2>5, <3>1
    <3>2. CASE ResolveScreeningStatus(s) # "BLOCKED"
      <4>1. /\ Goto(h, "provision") /\ UNCHANGED <<user, copy, verdict>>
            /\ wallets' = wallets \cup {u}
        BY <2>1, <3>2
      <4>2. hits' \subseteq hits \cup {u}
        BY <2>1
      <4>3. cases' \in [Users -> {"none", "OPEN", "RESOLVED"}]
        BY <2>1
      <4>4. profiles' \in [Users -> Profiles \cup {NoProfile}]
        BY <2>1, <2>5
      <4>. QED BY <2>2, <4>1, <4>2, <4>3, <4>4
    <3>. QED BY <3>1, <3>2
  <2>7. RequestsSound'
    BY <2>1, <2>2
  <2>8. ClaimsOpen'
    <3>1. \A g \in Handlers :
             Claiming(g)' => /\ g # h /\ Claiming(g)
                             /\ user'[g] = user[g] /\ verdict'[g] = verdict[g]
      BY <2>1, <2>2
    <3>2. \A w \in Users \ {u} : cases'[w] = cases[w]
      BY <2>1
    <3>3. \A g \in Handlers : Claiming(g) => user[g] \in Users \ {u}
      BY <2>3
    <3>4. \A g \in Handlers : Claiming(g)' => /\ cases'[user'[g]] = "OPEN"
                                              /\ verdict'[g] \in Dispositions
      <4> HIDE DEF Claiming
      <4>. QED BY <3>1, <3>2, <3>3
    <3>5. \A f, g \in Handlers :
             Claiming(f)' /\ Claiming(g)' /\ user'[f] = user'[g] => f = g
      <4> HIDE DEF Claiming
      <4>. QED BY <3>1
    <3>6. ClaimsOpen'
      <4> HIDE DEF Claiming
      <4>. QED BY <3>4, <3>5
    <3>. QED BY <3>6
  <2>9. CopiesReal'
    BY <2>1, <2>2, <2>3
  <2>10. CopiesDecided'
    BY <2>1, <2>2, <2>3
  <2>11. Decided' /\ CasesOfProfiles'
    BY <2>1, <2>2, <2>4, <2>5 DEF Decided, CasesOfProfiles
  <2>12. ClearedByDecision'
    BY <2>1, <2>2, <2>4, <2>5 DEF ClearedByDecision
  <2>13. WalletIffAllowed'
    <3>1. SUFFICES ASSUME NEW w \in Users
                   PROVE  w \in wallets' <=>
                             /\ profiles'[w] # NoProfile
                             /\ w \notin hits' \/ resolved[w] = <<"CLEARED">>
      BY <2>2 DEF WalletIffAllowed
    <3>2. CASE w = u
      BY <2>1, <2>2, <2>4, <2>5, <3>2
    <3>3. CASE w # u
      BY <2>1, <3>3 DEF WalletIffAllowed
    <3>. QED BY <3>2, <3>3
  <2> HIDE DEF TypeOK, RequestsSound, ClaimsOpen, CopiesReal, CopiesDecided
  <2>. QED BY <2>6, <2>7, <2>8, <2>9, <2>10, <2>11, <2>12, <2>13
<1>6. ASSUME NEW h \in Handlers, RefuseProfile(h) PROVE KycInv'
  BY <1>6, TablesKept DEF RefuseProfile, tables
<1>7. ASSUME NEW h \in Handlers, FindVirtualAccount(h) PROVE KycInv'
  <2>1. /\ pc[h] = "provision"
        /\ UNCHANGED <<tables, faults>>
        /\ \/ Leave(h)
           \/ Goto(h, "open") /\ UNCHANGED <<user, copy, verdict>>
    BY <1>7 DEF FindVirtualAccount
  <2>2. \A g \in Handlers :
           \/ ~Claiming(g)' /\ ~Copying(g)'
           \/ /\ pc'[g] = pc[g] /\ user'[g] = user[g]
              /\ copy'[g] = copy[g] /\ verdict'[g] = verdict[g]
    BY <2>1
  <2>3. ClaimsOpen' /\ CopiesReal' /\ CopiesDecided'
    <3> HIDE DEF KycInv, ClaimsOpen, CopiesReal, CopiesDecided, Claiming,
                 Copying
    <3>. QED BY <2>1, <2>2, CopiesKept DEF tables
  <2>4. TypeOK'
    <3>1. CASE Leave(h)
      BY <2>1, <3>1 DEF tables
    <3>2. CASE Goto(h, "open") /\ UNCHANGED <<user, copy, verdict>>
      BY <2>1, <3>2 DEF tables
    <3>. QED BY <2>1, <3>1, <3>2
  <2>5. RequestsSound'
    BY <2>1 DEF tables
  <2> HIDE DEF TypeOK, RequestsSound, ClaimsOpen, CopiesReal, CopiesDecided
  <2>. QED BY <2>1, <2>3, <2>4, <2>5, TablesKept DEF tables
<1>8. ASSUME NEW h \in Handlers, OpenVirtualAccount(h) PROVE KycInv'
  <2>1. /\ pc[h] = "open" /\ user[h] \in wallets /\ user[h] \in Users
        /\ accounts' = accounts \cup {user[h]}
        /\ UNCHANGED <<profiles, cases, hits, wallets, resolved, upgraded,
                       opened, faults>>
        /\ \/ Leave(h)
           \/ Goto(h, "audit") /\ UNCHANGED <<user, copy, verdict>>
    BY <1>8 DEF OpenVirtualAccount
  <2>2. \A g \in Handlers :
           \/ ~Claiming(g)' /\ ~Copying(g)'
           \/ /\ pc'[g] = pc[g] /\ user'[g] = user[g]
              /\ copy'[g] = copy[g] /\ verdict'[g] = verdict[g]
    BY <2>1
  <2>3. ClaimsOpen' /\ CopiesReal' /\ CopiesDecided'
    <3> HIDE DEF KycInv, ClaimsOpen, CopiesReal, CopiesDecided, Claiming,
                 Copying
    <3>. QED BY <2>1, <2>2, CopiesKept
  <2>4. TypeOK'
    <3>1. CASE Leave(h)
      BY <2>1, <3>1
    <3>2. CASE Goto(h, "audit") /\ UNCHANGED <<user, copy, verdict>>
      BY <2>1, <3>2
    <3>. QED BY <2>1, <3>1, <3>2
  <2>5. RequestsSound'
    <3>1. CASE Leave(h)
      BY <2>1, <3>1
    <3>2. CASE Goto(h, "audit") /\ UNCHANGED <<user, copy, verdict>>
      BY <2>1, <3>2
    <3>. QED BY <2>1, <3>1, <3>2
  <2> HIDE DEF TypeOK, RequestsSound, ClaimsOpen, CopiesReal, CopiesDecided
  <2>. QED BY <2>1, <2>3, <2>4, <2>5, TablesKept
<1>9. ASSUME NEW h \in Handlers, AuditVirtualAccount(h) PROVE KycInv'
  BY <1>9, TablesKept DEF AuditVirtualAccount
<1>10. ASSUME NEW h \in Handlers, Upgrade(h) PROVE KycInv'
  <2> DEFINE u == user[h]
             p == [copy[h] EXCEPT !.tier = NextTier(copy[h].tier)]
  <2>1. /\ pc[h] = "upgrade" /\ u \in Users
        /\ copy[h] \in Profiles /\ copy[h].tier # "TIER_3"
        /\ profiles[u] # NoProfile /\ Justified(u, copy[h])
    BY <1>10 DEF Upgrade
  <2>2. p \in Profiles /\ p.screeningStatus = copy[h].screeningStatus
    BY <2>1, NextTierType
  <2>3. /\ profiles' = [profiles EXCEPT ![u] = p]
        /\ upgraded' = [upgraded EXCEPT ![u] = @ \cup {NextTier(copy[h].tier)}]
        /\ NextTier(copy[h].tier) \in Tiers
        /\ UNCHANGED <<cases, hits, wallets, accounts, resolved, opened,
                       faults>>
    BY <1>10, <2>1 DEF Upgrade, NextTier, Tiers, Profiles
  <2>4. TypeOK' /\ RequestsSound'
    BY <1>10, <2>2, <2>3 DEF Upgrade
  <2>5. CopiesReal'
    <3>1. \A g \in Handlers :
             Copying(g)' => /\ g # h /\ Copying(g)
                            /\ user'[g] = user[g] /\ copy'[g] = copy[g]
      BY <1>10 DEF Upgrade
    <3>2. \A w \in Users : profiles[w] # NoProfile => profiles'[w] # NoProfile
      BY ZenonT(40), <2>2, <2>3
    <3>. QED BY <3>1, <3>2
  <2>6. ClaimsOpen'
    BY <1>10, <2>3 DEF Upgrade
  <2>7. CopiesDecided'
    BY <1>10, <2>3 DEF Upgrade
  <2>8. Decided' /\ CasesOfProfiles'
    BY <2>1, <2>2, <2>3 DEF Decided, CasesOfProfiles
  <2>9. ClearedByDecision'
    BY <2>1, <2>2, <2>3 DEF ClearedByDecision
  <2>10. WalletIffAllowed'
    BY <2>1, <2>2, <2>3 DEF WalletIffAllowed
  <2> HIDE DEF TypeOK, RequestsSound, ClaimsOpen, CopiesReal, CopiesDecided
  <2>. QED BY <2>4, <2>5, <2>6, <2>7, <2>8, <2>9, <2>10
<1>11. ASSUME NEW h \in Handlers, ReadProfile(h) PROVE KycInv'
  BY <1>11, TablesKept
  DEF ReadProfile, tables, ClearedByDecision, CasesOfProfiles
<1>12. ASSUME NEW h \in Handlers, ResolveCase(h) PROVE KycInv'
  <2> DEFINE u == user[h]
             d == verdict[h]
             p == Screened(copy[h], d)
  <2>1. /\ pc[h] = "resolve" /\ u \in Users
        /\ copy[h] \in Profiles /\ d \in Dispositions
        /\ profiles[u] # NoProfile
        /\ cases[u] = "OPEN" /\ resolved[u] = <<>>
    BY <1>12 DEF ResolveCase, Decided
  <2>2. p \in Profiles /\ (p.screeningStatus = "CLEARED" <=> d = "CLEARED")
    BY <2>1, ScreenedType
  <2>3. /\ profiles' = [profiles EXCEPT ![u] = p]
        /\ wallets' = IF d = "CLEARED" THEN wallets \cup {u} ELSE wallets
        /\ cases' = [cases EXCEPT ![u] = "RESOLVED"]
        /\ resolved' = [resolved EXCEPT ![u] = Append(@, d)]
        /\ UNCHANGED <<hits, accounts, upgraded, opened, faults>>
    BY <1>12 DEF ResolveCase
  <2>4. resolved' = [resolved EXCEPT ![u] = <<d>>] /\ <<d>> \in Seq(Dispositions)
    BY <2>1, <2>3
  <2>5. TypeOK' /\ RequestsSound'
    BY <1>12, <2>1, <2>2, <2>3, <2>4 DEF ResolveCase
  <2>6. ClaimsOpen' /\ CopiesReal'
    BY <1>12, <2>1, <2>2, <2>3 DEF ResolveCase
  <2>7. CopiesDecided'
    BY <1>12, <2>1, <2>2, <2>3, <2>4 DEF ResolveCase
  <2>8. Decided' /\ CasesOfProfiles'
    BY <2>1, <2>2, <2>3, <2>4 DEF Decided, CasesOfProfiles
  <2>9. ClearedByDecision'
    BY <2>1, <2>2, <2>3, <2>4 DEF ClearedByDecision
  <2>10. WalletIffAllowed'
    <3>1. /\ <<d>> = <<"CLEARED">> <=> d = "CLEARED"
          /\ <<>> # <<"CLEARED">>
      OBVIOUS
    <3>2. u \in wallets' <=> u \in wallets \/ resolved'[u] = <<"CLEARED">>
      BY <2>1, <2>3, <2>4, <3>1
    <3>3. u \in wallets <=> u \notin hits
      BY <2>1, <3>1 DEF WalletIffAllowed
    <3>4. \A v \in Users : v # u =>
             /\ profiles'[v] = profiles[v] /\ resolved'[v] = resolved[v]
             /\ v \in wallets' <=> v \in wallets
      BY <2>1, <2>2, <2>3, <2>4
    <3> HIDE DEF TypeOK
    <3>. QED BY <2>1, <2>2, <2>3, <2>4, <3>2, <3>3, <3>4 DEF WalletIffAllowed
  <2> HIDE DEF TypeOK, RequestsSound, ClaimsOpen, CopiesReal, CopiesDecided
  <2>. QED BY <2>5, <2>6, <2>7, <2>8, <2>9, <2>10
<1>13. ASSUME NEW h \in Handlers, Fail(h) PROVE KycInv'
  BY <1>13, TablesKept DEF Fail, tables
<1>14. CASE UNCHANGED vars
  BY <1>14, TablesKept DEF vars, tables
<1>. QED
  BY <1>1, <1>2, <1>3, <1>4, <1>5, <1>6, <1>7, <1>8, <1>9, <1>10, <1>11,
     <1>12, <1>13, <1>14
  DEF Next, Step, Refuse

(* At first there are no profiles and no requests.                         *)
LEMMA InitKycInv == Init => KycInv
BY KycAssumption
DEF Init, KycInv, TypeOK, RequestsSound, Decided, CasesOfProfiles, ClaimsOpen,
    CopiesReal, CopiesDecided, ClearedByDecision, WalletIffAllowed, Claiming,
    Copying

(* KycInv holds at all times.                                              *)
LEMMA KycInvariant == Spec => []KycInv
<1>1. KycInv /\ [Next]_vars => KycInv'
  BY StepKycInv
<1>. QED BY <1>1, InitKycInv, PTL DEF Spec

(* A wallet is there for exactly those without a watchlist hit and those   *)
(* whose case was cleared, however profiles, resolutions and failures      *)
(* interleave.                                                             *)
THEOREM WalletsFollowDecisions == Spec => []WalletIffAllowed
<1>1. KycInv => WalletIffAllowed
  BY DEF KycInv
<1>. QED BY <1>1, KycInvariant, PTL

(* Two administrators never both resolve a case: resolveIfOpen lets the    *)
(* second find it resolved.                                                *)
THEOREM CasesResolvedOnce == Spec => []ResolvedOnce
<1>1. ASSUME KycInv, NEW u \in Users
      PROVE  Len(resolved[u]) = IF cases[u] = "RESOLVED" THEN 1 ELSE 0
  <2>1. CASE cases[u] = "RESOLVED"
    <3>1. PICK d \in Dispositions : resolved[u] = <<d>>
      BY <1>1, <2>1 DEF KycInv, Decided
    <3>. QED BY <2>1, <3>1
  <2>2. CASE cases[u] # "RESOLVED"
    BY <1>1, <2>2 DEF KycInv, Decided
  <2>. QED BY <2>1, <2>2
<1>2. KycInv => ResolvedOnce
  BY <1>1 DEF ResolvedOnce
<1>. QED BY <1>2, KycInvariant, PTL

(* Nobody is CLEARED whose case is open or was decided otherwise, although *)
(* upgrades write back the screening status they have read before.         *)
THEOREM NobodyClearedUndecided == Spec => []ClearedByDecision
<1>1. KycInv => ClearedByDecision
  BY DEF KycInv
<1>. QED BY <1>1, KycInvariant, PTL

(* Steps that neither open nor audit an account, and move no request to or *)
(* from the audit of one but by failing, keep AuditInv.                    *)
LEMMA AuditsKept ==
    ASSUME KycInv, AuditInv,
           UNCHANGED <<accounts, opened>>,
           unaudited \subseteq unaudited',
           \A u \in unaudited' \ unaudited : /\ u \in accounts
                                            /\ Auditing(u) # {}
                                            /\ Auditing(u)' = {},
           \A h \in Handlers :
              \/ pc'[h] # "audit" /\ (pc[h] # "audit" \/ user[h] \in unaudited')
              \/ pc'[h] = pc[h] /\ user'[h] = user[h]
    PROVE  AuditInv'
<1>1. \A u \in Users :
         /\ Auditing(u)' \subseteq Auditing(u)
         /\ Auditing(u)' # Auditing(u) => u \in unaudited'
  BY DEF Auditing
<1>2. OneAuditor'
  BY DEF AuditInv, OneAuditor
<1>3. unaudited \subseteq Users /\ accounts \subseteq Users
  BY DEF KycInv, TypeOK
<1>4. LostForGood'
  BY <1>1, <1>3 DEF AuditInv, LostForGood
<1>5. AccountAuditedOnce'
  BY <1>1 DEF AuditInv, AccountAuditedOnce
<1>. QED BY <1>2, <1>4, <1>5 DEF AuditInv

(* Every step keeps AuditInv.                                              *)
LEMMA StepAuditInv ==
    ASSUME KycInv, AuditInv, [Next]_vars
    PROVE  AuditInv'
<1> USE KycAssumption DEF KycInv, TypeOK, Goto, Start, Leave
<1>1. ASSUME NEW h \in Handlers, OpenVirtualAccount(h) PROVE AuditInv'
  <2>1. CASE user[h] \in accounts
    BY <1>1, <2>1, AuditsKept DEF OpenVirtualAccount
  <2>2. CASE user[h] \notin accounts
    <3> DEFINE u == user[h]
    <3>1. /\ pc[h] = "open" /\ u \in Users
          /\ accounts' = accounts \cup {u}
          /\ pc' = [pc EXCEPT ![h] = "audit"]
          /\ UNCHANGED <<user, opened, unaudited>>
      BY <1>1, <2>2 DEF OpenVirtualAccount, RequestsSound
    <3>2. \A g \in Handlers : pc[g] = "audit" => user[g] # u
      BY <2>2 DEF RequestsSound
    <3>3. OneAuditor'
      BY <3>1, <3>2 DEF AuditInv, OneAuditor
    <3>4. \A w \in Users : Auditing(w)' = IF w = u THEN {h} ELSE Auditing(w)
      BY <3>1, <3>2 DEF Auditing
    <3>5. opened[u] = 0
      BY <2>2, <3>1 DEF AuditInv, AccountAuditedOnce
    <3>8. u \notin unaudited
      BY <2>2 DEF AuditInv, LostForGood
    <3>6. ASSUME NEW w \in Users
          PROVE  /\ opened'[w] <= IF w \in accounts' THEN 1 ELSE 0
                 /\ w \in accounts' /\ opened'[w] = 0
                      => Auditing(w)' # {} \/ w \in unaudited'
                 /\ opened'[w] = 1 => Auditing(w)' = {} /\ w \notin unaudited'
      <4>1. CASE w = u
        <5>1. Auditing(w)' = {h}
          BY <3>4, <4>1
        <5>2. opened'[w] = 0 /\ w \in accounts'
          BY <3>1, <3>5, <4>1
        <5>. QED BY <5>1, <5>2
      <4>2. CASE w # u
        <5>1. Auditing(w)' = Auditing(w) /\ (w \in accounts' <=> w \in accounts)
          BY <3>1, <3>4, <4>2
        <5>. QED BY <3>1, <5>1 DEF AuditInv, AccountAuditedOnce
      <4>. QED BY <4>1, <4>2
    <3>7. AccountAuditedOnce'
      BY <3>6 DEF AccountAuditedOnce
    <3>9. LostForGood'
      BY <3>1, <3>4, <3>8 DEF AuditInv, LostForGood
    <3>. QED BY <3>3, <3>7, <3>9 DEF AuditInv
  <2>. QED BY <2>1, <2>2
<1>2. ASSUME NEW h \in Handlers, AuditVirtualAccount(h) PROVE AuditInv'
  <2> DEFINE u == user[h]
  <2>1. /\ pc[h] = "audit" /\ u \in Users /\ u \in accounts
        /\ opened' = [opened EXCEPT ![u] = @ + 1]
        /\ pc' = [pc EXCEPT ![h] = "idle"]
        /\ user' = [user EXCEPT ![h] = NoUser]
        /\ UNCHANGED <<accounts, unaudited>>
    BY <1>2 DEF AuditVirtualAccount, RequestsSound
  <2>2. OneAuditor'
    BY <2>1 DEF AuditInv, OneAuditor
  <2>3. \A w \in Users : Auditing(w)' = IF w = u THEN {} ELSE Auditing(w)
    BY <2>1 DEF AuditInv, OneAuditor, Auditing
  <2>4. h \in Auditing(u)
    BY <2>1 DEF Auditing
  <2>5. opened[u] = 0
    BY <2>1, <2>4 DEF AuditInv, AccountAuditedOnce
  <2>6. u \notin unaudited
    BY <2>4 DEF AuditInv, LostForGood
  <2>7. AccountAuditedOnce'
    BY <2>1, <2>3, <2>5, <2>6 DEF AuditInv, AccountAuditedOnce
  <2>8. LostForGood'
    BY <2>1, <2>3, <2>6 DEF AuditInv, LostForGood
  <2>. QED BY <2>2, <2>7, <2>8 DEF AuditInv
<1>3. ASSUME NEW h \in Handlers, Fail(h) PROVE AuditInv'
  <2>1. /\ UNCHANGED <<accounts, opened>>
        /\ pc'[h] = "idle"
        /\ \A g \in Handlers \ {h} : pc'[g] = pc[g] /\ user'[g] = user[g]
    BY <1>3 DEF Fail, tables
  <2>2. CASE pc[h] = "audit"
    <3>1. PICK u \in Users : /\ u = user[h] /\ u \in accounts
                             /\ unaudited' = unaudited \cup {u}
      BY <1>3, <2>2 DEF Fail, RequestsSound
    <3>2. h \in Auditing(u)
      BY <2>2, <3>1 DEF Auditing
    <3>3. \A g \in Handlers : ~(pc'[g] = "audit" /\ user'[g] = u)
      BY <2>1, <2>2, <3>1 DEF AuditInv, OneAuditor
    <3>4. Auditing(u)' = {}
      BY <3>3 DEF Auditing
    <3> HIDE DEF KycInv, TypeOK
    <3>. QED BY <2>1, <3>1, <3>2, <3>4, AuditsKept
  <2>3. CASE pc[h] # "audit"
    BY <1>3, <2>1, <2>3, AuditsKept DEF Fail
  <2>. QED BY <2>2, <2>3
<1>4. ASSUME NEW h \in Handlers, NEW u \in Users,
             \/ BeginProfile(h, u) \/ RetryProvisioning(h, u)
             \/ BeginUpgrade(h, u) \/ ClaimCase(h, u)
      PROVE  AuditInv'
  BY <1>4, AuditsKept
  DEF BeginProfile, RetryProvisioning, BeginUpgrade, ClaimCase, tables
<1>5. ASSUME NEW h \in Handlers,
             \/ CreateProfile(h) \/ RefuseProfile(h)
             \/ FindVirtualAccount(h) \/ Upgrade(h)
             \/ ReadProfile(h) \/ ResolveCase(h)
      PROVE  AuditInv'
  <2>1. UNCHANGED <<accounts, opened, unaudited>>
    BY <1>5
    DEF CreateProfile, RefuseProfile, FindVirtualAccount, Upgrade,
        ReadProfile, ResolveCase, tables
  <2>2. /\ pc[h] # "audit" /\ pc'[h] # "audit"
        /\ \A g \in Handlers \ {h} : pc'[g] = pc[g] /\ user'[g] = user[g]
    BY <1>5
    DEF CreateProfile, RefuseProfile, FindVirtualAccount, Upgrade,
        ReadProfile, ResolveCase
  <2>. QED BY <2>1, <2>2, AuditsKept
<1>6. CASE UNCHANGED vars
  BY <1>6, AuditsKept DEF vars, tables
<1>. QED BY <1>1, <1>2, <1>3, <1>4, <1>5, <1>6 DEF Next, Step, Refuse

(* However many requests open the virtual account of a user at once, it is *)
(* audited once, and an entry is missing for ever only if the request that *)
(* opened the account failed before it wrote the entry.                    *)
THEOREM AccountsAuditedOnce == Spec => []AccountAuditedOnce
<1>1. Init => AuditInv
  BY DEF Init, AuditInv, OneAuditor, LostForGood, AccountAuditedOnce
<1>2. KycInv /\ AuditInv /\ [Next]_vars => AuditInv'
  BY StepAuditInv
<1>3. AuditInv => AccountAuditedOnce
  BY DEF AuditInv
<1>. QED BY <1>1, <1>2, <1>3, KycInvariant, PTL DEF Spec

(* A copy of a profile has a tier that was earned before.                  *)
CopiesEarned ==
    \A h \in Handlers : Copying(h) => Earned(user[h], copy[h].tier)

TierInv == TiersAreEarned /\ CopiesEarned

(* Steps that write no profile, and at most copy one, keep TierInv.        *)
LEMMA TiersKept ==
    ASSUME KycInv, TierInv,
           UNCHANGED <<profiles, upgraded>>,
           \A h \in Handlers : Copying(h)' =>
              \/ Copying(h) /\ user'[h] = user[h] /\ copy'[h] = copy[h]
              \/ /\ user'[h] \in Users /\ profiles[user'[h]] # NoProfile
                 /\ copy'[h] = profiles[user'[h]]
    PROVE  TierInv'
<1>1. TiersAreEarned'
  BY DEF TierInv, TiersAreEarned, Earned
<1>2. CopiesEarned'
  BY DEF TierInv, TiersAreEarned, CopiesEarned, Earned
<1>. QED BY <1>1, <1>2 DEF TierInv

(* Every step keeps TierInv.                                               *)
LEMMA StepTierInv ==
    ASSUME KycInv, TierInv, [Next]_vars
    PROVE  TierInv'
<1> USE KycAssumption DEF KycInv, TypeOK, Copying, Goto, Start, Leave
<1>1. ASSUME NEW h \in Handlers, CreateProfile(h) PROVE TierInv'
  <2>1. /\ user[h] \in Users /\ profiles[user[h]] = NoProfile
        /\ UNCHANGED upgraded
        /\ \E status : profiles' = [profiles EXCEPT ![user[h]] =
                           [tier |-> "TIER_1", screeningStatus |-> status]]
    BY <1>1 DEF CreateProfile, RequestsSound
  <2>2. \A g \in Handlers : Copying(g)' => /\ Copying(g) /\ user'[g] = user[g]
                                           /\ copy'[g] = copy[g]
    BY <1>1 DEF CreateProfile
  <2>3. TiersAreEarned'
    BY <2>1 DEF TierInv, TiersAreEarned, Earned
  <2>4. CopiesEarned'
    BY <2>1, <2>2 DEF TierInv, CopiesEarned, Earned
  <2>. QED BY <2>3, <2>4 DEF TierInv
<1>2. ASSUME NEW h \in Handlers, Upgrade(h) PROVE TierInv'
  <2> DEFINE u == user[h]
             tier == NextTier(copy[h].tier)
  <2>1. /\ u \in Users /\ copy[h] \in Profiles /\ copy[h].tier # "TIER_3"
        /\ Earned(u, copy[h].tier)
        /\ profiles' = [profiles EXCEPT ![u] = [copy[h] EXCEPT !.tier = tier]]
        /\ upgraded' = [upgraded EXCEPT ![u] = @ \cup {tier}]
    BY <1>2 DEF Upgrade, RequestsSound, CopiesReal, TierInv, CopiesEarned
  <2>2. \A w \in Users : /\ upgraded[w] \subseteq upgraded'[w]
                         /\ w # u => upgraded'[w] = upgraded[w]
    BY <2>1
  <2>3. \/ tier = "TIER_2"
        \/ tier = "TIER_3" /\ "TIER_2" \in upgraded[u]
    BY <2>1 DEF NextTier, Profiles, Tiers, Earned
  <2>4. upgraded'[u] = upgraded[u] \cup {tier} /\ profiles'[u].tier = tier
    BY <2>1 DEF Profiles
  <2>5. TiersAreEarned'
    <3>1. SUFFICES ASSUME NEW w \in Users
                   PROVE  /\ profiles'[w] # NoProfile =>
                                /\ profiles'[w].tier # "TIER_1"
                                      => "TIER_2" \in upgraded'[w]
                                /\ profiles'[w].tier = "TIER_3"
                                      => "TIER_3" \in upgraded'[w]
                          /\ "TIER_3" \in upgraded'[w] => "TIER_2" \in upgraded'[w]
      BY DEF TiersAreEarned, Earned
    <3>2. CASE w = u
      BY <2>3, <2>4, <3>2 DEF TierInv, TiersAreEarned
    <3>3. CASE w # u
      <4>1. profiles'[w] = profiles[w] /\ upgraded'[w] = upgraded[w]
        BY <2>1, <3>3
      <4>. QED BY <4>1 DEF TierInv, TiersAreEarned, Earned
    <3>. QED BY <3>2, <3>3
  <2>6. \A g \in Handlers : Copying(g)' => /\ Copying(g) /\ user'[g] = user[g]
                                           /\ copy'[g] = copy[g]
    BY <1>2 DEF Upgrade
  <2>7. CopiesEarned'
    <3>1. \A g \in Handlers : Copying(g) => user[g] \in Users
      BY DEF RequestsSound
    <3>. QED BY <2>2, <2>6, <3>1 DEF TierInv, CopiesEarned, Earned
  <2>. QED BY <2>5, <2>7 DEF TierInv
<1>3. ASSUME NEW h \in Handlers, ResolveCase(h) PROVE TierInv'
  <2> DEFINE u == user[h]
  <2>1. /\ u \in Users /\ copy[h] \in Profiles
        /\ Earned(u, copy[h].tier) /\ UNCHANGED upgraded
        /\ profiles' = [profiles EXCEPT ![u] = Screened(copy[h], verdict[h])]
    BY <1>3 DEF ResolveCase, RequestsSound, CopiesReal, TierInv, CopiesEarned
  <2>2. Screened(copy[h], verdict[h]).tier = copy[h].tier
    BY <2>1 DEF Screened, Profiles
  <2>3. TiersAreEarned'
    BY <2>1, <2>2 DEF TierInv, TiersAreEarned, Earned
  <2>4. \A g \in Handlers : Copying(g)' => /\ Copying(g) /\ user'[g] = user[g]
                                           /\ copy'[g] = copy[g]
    BY <1>3 DEF ResolveCase
  <2>5. CopiesEarned'
    BY <2>1, <2>4 DEF TierInv, CopiesEarned, Earned
  <2>. QED BY <2>3, <2>5 DEF TierInv
<1>4. ASSUME NEW h \in Handlers, NEW u \in Users,
             \/ BeginProfile(h, u) \/ RetryProvisioning(h, u)
             \/ BeginUpgrade(h, u) \/ ClaimCase(h, u)
      PROVE  TierInv'
  BY <1>4, TiersKept
  DEF BeginProfile, RetryProvisioning, BeginUpgrade, ClaimCase, tables
<1>5. ASSUME NEW h \in Handlers,
             \/ RefuseProfile(h) \/ FindVirtualAccount(h)
             \/ OpenVirtualAccount(h) \/ AuditVirtualAccount(h)
             \/ Fail(h)
      PROVE  TierInv'
  <2>1. UNCHANGED <<profiles, upgraded>>
    BY <1>5 DEF RefuseProfile, FindVirtualAccount, OpenVirtualAccount,
                AuditVirtualAccount, Fail, tables
  <2>2. \A g \in Handlers : Copying(g)' => /\ Copying(g) /\ user'[g] = user[g]
                                           /\ copy'[g] = copy[g]
    BY <1>5 DEF RefuseProfile, FindVirtualAccount, OpenVirtualAccount,
                AuditVirtualAccount, Fail
  <2>. QED BY <2>1, <2>2, TiersKept
<1>6. ASSUME NEW h \in Handlers, ReadProfile(h) PROVE TierInv'
  <2>1. /\ user[h] \in Users /\ profiles[user[h]] # NoProfile
        /\ UNCHANGED <<profiles, upgraded, user>>
        /\ copy' = [copy EXCEPT ![h] = profiles[user[h]]]
        /\ pc' = [pc EXCEPT ![h] = "resolve"]
    BY <1>6
    DEF ReadProfile, RequestsSound, ClaimsOpen, Claiming, CasesOfProfiles, tables
  <2>. QED BY <2>1, TiersKept
<1>7. CASE UNCHANGED vars
  BY <1>7, TiersKept DEF vars, tables
<1>. QED
  BY <1>1, <1>2, <1>3, <1>4, <1>5, <1>6, <1>7 DEF Next, Step, Refuse

(* Nobody has a tier whose upgrades are not in the audit log, although     *)
(* upgrades and resolutions write back profiles they read long ago.        *)
THEOREM TiersEarned == Spec => []TiersAreEarned
<1>1. Init => TierInv
  BY DEF Init, TierInv, TiersAreEarned, CopiesEarned, Copying
<1>2. KycInv /\ TierInv /\ [Next]_vars => TierInv'
  BY StepTierInv
<1>3. TierInv => TiersAreEarned
  BY DEF TierInv
<1>. QED BY <1>1, <1>2, <1>3, KycInvariant, PTL DEF Spec

(* Upgrades and resolutions write back profiles that have not changed      *)
(* since they were read.                                                   *)
CopyIsFresh(h) == copy[h] = profiles[user[h]]
WritesFresh ==
    \A h \in Handlers : Upgrade(h) \/ ResolveCase(h) => CopyIsFresh(h)
NoneStale == [][WritesFresh]_vars

(* The audit log tells the tier of a profile, and that it is CLEARED.      *)
UpTo(tier) == CASE tier = "TIER_1" -> {}
                [] tier = "TIER_2" -> {"TIER_2"}
                [] tier = "TIER_3" -> {"TIER_2", "TIER_3"}

ProfilesFollowLog ==
    \A u \in Users :
        /\ upgraded[u] = IF profiles[u] = NoProfile THEN {}
                         ELSE UpTo(profiles[u].tier)
        /\ Cleared(u) => profiles[u].screeningStatus = "CLEARED"

LEMMA StepFollowLog ==
    ASSUME KycInv, ProfilesFollowLog, [Next]_vars, [WritesFresh]_vars
    PROVE  ProfilesFollowLog'
<1> USE KycAssumption DEF KycInv, TypeOK, Cleared
<1>1. ASSUME UNCHANGED <<profiles, upgraded, resolved>> PROVE ProfilesFollowLog'
  BY <1>1 DEF ProfilesFollowLog
<1>2. ASSUME NEW h \in Handlers, CreateProfile(h) PROVE ProfilesFollowLog'
  <2>1. /\ user[h] \in Users /\ profiles[user[h]] = NoProfile
        /\ UNCHANGED <<upgraded, resolved>>
    BY <1>2 DEF CreateProfile, RequestsSound
  <2>2. PICK s \in Screenings : profiles' = [profiles EXCEPT ![user[h]] =
            [tier |-> "TIER_1", screeningStatus |-> ResolveScreeningStatus(s)]]
    BY <1>2 DEF CreateProfile
  <2>3. resolved[user[h]] = <<>>
    BY <2>1 DEF Decided, CasesOfProfiles
  <2>4. [tier |-> "TIER_1", screeningStatus |-> ResolveScreeningStatus(s)] # NoProfile
    BY DEF Profiles, Tiers, Statuses, ResolveScreeningStatus
  <2>5. /\ profiles'[user[h]] # NoProfile /\ profiles'[user[h]].tier = "TIER_1"
        /\ \A w \in Users : w # user[h] => profiles'[w] = profiles[w]
    BY <2>1, <2>2, <2>4
  <2>6. upgraded[user[h]] = UpTo("TIER_1") /\ ~Cleared(user[h])
    <3>1. <<>> # <<"CLEARED">>
      OBVIOUS
    <3>. QED BY <2>1, <2>3, <3>1 DEF ProfilesFollowLog, UpTo
  <2> HIDE DEF TypeOK, KycInv
  <2>. QED BY <2>1, <2>5, <2>6 DEF ProfilesFollowLog
<1>3. ASSUME NEW h \in Handlers, Upgrade(h), CopyIsFresh(h) PROVE ProfilesFollowLog'
  <2> DEFINE u == user[h]
             tier == NextTier(copy[h].tier)
  <2>1. /\ u \in Users /\ copy[h] \in Profiles /\ copy[h] # NoProfile
        /\ copy[h].tier \in {"TIER_1", "TIER_2"} /\ copy[h] = profiles[u]
        /\ profiles' = [profiles EXCEPT ![u] = [copy[h] EXCEPT !.tier = tier]]
        /\ upgraded' = [upgraded EXCEPT ![u] = @ \cup {tier}]
        /\ UNCHANGED resolved
    BY <1>3
    DEF Upgrade, RequestsSound, CopiesReal, Copying, CopyIsFresh, Profiles, Tiers
  <2>2. /\ profiles'[u] \in Profiles /\ profiles'[u] # NoProfile
        /\ profiles'[u].tier = tier
        /\ profiles'[u].screeningStatus = profiles[u].screeningStatus
    BY <2>1, NextTierType DEF Profiles
  <2>3. upgraded'[u] = UpTo(tier)
    BY ZenonT(40), <2>1 DEF ProfilesFollowLog, UpTo, NextTier
  <2>. QED BY <2>1, <2>2, <2>3 DEF ProfilesFollowLog
<1>4. ASSUME NEW h \in Handlers, ResolveCase(h), CopyIsFresh(h)
      PROVE  ProfilesFollowLog'
  <2> DEFINE p == Screened(copy[h], verdict[h])
  <2> PICK u \in Users : u = user[h]
    BY <1>4 DEF ResolveCase, RequestsSound
  <2>1. /\ copy[h] \in Profiles /\ copy[h] # NoProfile
        /\ copy[h] = profiles[u] /\ verdict[h] \in Dispositions
        /\ cases[u] = "OPEN"
        /\ profiles' = [profiles EXCEPT ![u] = p]
        /\ resolved' = [resolved EXCEPT ![u] = Append(@, verdict[h])]
        /\ UNCHANGED upgraded
    BY <1>4
    DEF ResolveCase, RequestsSound, CopiesReal, Copying, CopyIsFresh,
        ClaimsOpen, Claiming
  <2>2. /\ p \in Profiles /\ p # NoProfile /\ p.tier = profiles[u].tier
        /\ verdict[h] = "CLEARED" => p.screeningStatus = "CLEARED"
    BY <2>1 DEF Screened, Profiles, Statuses
  <2>3. resolved'[u] = <<verdict[h]>>
    <3>1. resolved[u] = <<>>
      BY <2>1 DEF Decided
    <3>2. resolved'[u] = Append(resolved[u], verdict[h])
      BY <2>1
    <3>. QED BY <3>1, <3>2
  <2>4. ASSUME NEW w \in Users, w # u
        PROVE  /\ profiles'[w] = profiles[w] /\ upgraded'[w] = upgraded[w]
               /\ resolved'[w] = resolved[w]
    BY <2>1, <2>4
  <2>5. profiles'[u] = p /\ upgraded'[u] = upgraded[u] /\ profiles[u] # NoProfile
    BY <2>1
  <2>6. Cleared(u)' => profiles'[u].screeningStatus = "CLEARED"
    <3>1. <<verdict[h]>> = <<"CLEARED">> => verdict[h] = "CLEARED"
      OBVIOUS
    <3>. QED BY <2>2, <2>3, <2>5, <3>1
  <2>7. upgraded'[u] = UpTo(profiles'[u].tier) /\ profiles'[u] # NoProfile
    BY <2>1, <2>2, <2>5 DEF ProfilesFollowLog
  <2>. QED BY <2>4, <2>6, <2>7 DEF ProfilesFollowLog
<1>5. ASSUME NEW h \in Handlers, Upgrade(h) \/ ResolveCase(h)
      PROVE  CopyIsFresh(h) \/ UNCHANGED vars
  BY <1>5 DEF WritesFresh
<1>6. ASSUME NEW h \in Handlers, NEW u \in Users,
             \/ BeginProfile(h, u) \/ RetryProvisioning(h, u)
             \/ BeginUpgrade(h, u) \/ ClaimCase(h, u)
      PROVE  ProfilesFollowLog'
  BY <1>1, <1>6
  DEF BeginProfile, RetryProvisioning, BeginUpgrade, ClaimCase, tables
<1>7. ASSUME NEW h \in Handlers,
             \/ RefuseProfile(h) \/ FindVirtualAccount(h) \/ ReadProfile(h)
             \/ OpenVirtualAccount(h) \/ AuditVirtualAccount(h) \/ Fail(h)
      PROVE  ProfilesFollowLog'
  BY <1>1, <1>7
  DEF RefuseProfile, FindVirtualAccount, ReadProfile, OpenVirtualAccount,
      AuditVirtualAccount, Fail, tables
<1>8. CASE UNCHANGED vars
  BY <1>1, <1>8 DEF vars, tables
<1>. QED
  BY <1>2, <1>3, <1>4, <1>5, <1>6, <1>7, <1>8 DEF Next, Step, Refuse

(* Kyc.DispositionHolds, and more: copies that are stale when they are     *)
(* written back are all that parts a profile from what was decided about   *)
(* it.  If an update required the profile to be as it was read, the status *)
(* and the tier of a profile would always be those of the audit log.       *)
THEOREM FreshCopiesSuffice ==
    Spec /\ NoneStale => [](DispositionHolds /\ ProfilesFollowLog)
<1>1. Init => ProfilesFollowLog
  <2>1. <<>> # <<"CLEARED">>
    OBVIOUS
  <2>2. ASSUME Init, NEW u \in Users
        PROVE  profiles[u] = NoProfile /\ upgraded[u] = {} /\ ~Cleared(u)
    BY <2>1, <2>2 DEF Init, Cleared
  <2>. QED BY <2>2 DEF ProfilesFollowLog
<1>2. KycInv /\ ProfilesFollowLog /\ [Next]_vars /\ [WritesFresh]_vars
        => ProfilesFollowLog'
  BY StepFollowLog
<1>3. KycInv /\ ProfilesFollowLog => DispositionHolds
  <2> SUFFICES ASSUME KycInv, ProfilesFollowLog, NEW u \in Users,
                      cases[u] = "RESOLVED"
               PROVE  (profiles[u].screeningStatus = "CLEARED") = Cleared(u)
    BY DEF DispositionHolds
  <2>1. profiles[u].screeningStatus = "CLEARED" => Cleared(u)
    BY DEF KycInv, ClearedByDecision, CasesOfProfiles
  <2>2. Cleared(u) => profiles[u].screeningStatus = "CLEARED"
    BY DEF ProfilesFollowLog
  <2>. QED BY <2>1, <2>2 DEF Cleared
<1>. QED
  BY <1>1, <1>2, <1>3, KycInvariant, PTL DEF Spec, NoneStale

(* Each variable of Kyc keeps its type.                                    *)
THEOREM KycTypeCorrect == Spec => []TypeOK
<1>1. KycInv => TypeOK
  BY DEF KycInv
<1>. QED BY <1>1, KycInvariant, PTL
=============================================================================
