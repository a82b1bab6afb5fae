--------------------------- MODULE AccountsProofs ---------------------------
(***************************************************************************)
(* Lemmas about the steps of Accounts, for any users, passwords, secrets   *)
(* and tokens; ManagementProofs makes theorems about the panel of them.    *)
(***************************************************************************)
EXTENDS Accounts, TLAPS

(* What happens to the accounts in one step of the panel.                  *)
AccountsStep ==
  \/ \E t \in Tokens, u \in Users, p \in Passwords : Login(t, u, p)
  \/ \E t \in Tokens : Logout(t) \/ Expire(t)
  \/ Prune
  \/ \E u \in Users, p \in Passwords, may \in Grants : CreateAdmin(u, p, may)
  \/ \E i \in 1..MaxAdmins, body \in AdminBodies : UpdateAdmin(i, body)
  \/ \E i \in 1..MaxAdmins : DeleteAdmin(i)
  \/ \E t \in Tokens, u \in Users, p, q \in Passwords : ChangePassword(t, u, p, q)
  \/ \E s \in Secrets : BootAccounts(s)
  \/ UNCHANGED accountVars

(* Ids are below the next one.                                             *)
AccountsInv ==
  /\ AccountsTypeOK
  /\ \A u \in DOMAIN admins : admins[u].id < nextAdmin

LEMMA HashType ==
  ASSUME AccountsTypeOK, NEW p \in Passwords
  PROVE  Hash(p) \in Hashes
BY DEF AccountsTypeOK, Hash, Hashes

LEMMA GrantType == Grants \subseteq SUBSET Permissions
BY AccountsAssumption

LEMMA AccountsInit == InitAccounts => AccountsInv
<1>. SUFFICES ASSUME InitAccounts PROVE AccountsInv
  OBVIOUS
<1>. USE AccountsAssumption
<1>1. secret \in Secrets /\ master \in Hashes
  BY DEF InitAccounts, Hash, Hashes
<1>2. [id |-> 1, hash |-> master, may |-> All, active |-> TRUE] \in Accounts
  BY <1>1 DEF Accounts, All, Permissions
<1>3. /\ DOMAIN admins = {Root}
      /\ admins[Root] = [id |-> 1, hash |-> master, may |-> All, active |-> TRUE]
  BY DEF InitAccounts, Insert, NoRows
<1>4. IsTable(admins, Users, Accounts) /\ Root \in DOMAIN admins
  BY <1>2, <1>3 DEF IsTable
<1>5. AccountsTypeOK
  <2>1. nextAdmin \in 2..(MaxAdmins + 1) /\ drawn \subseteq Tokens
    BY DEF InitAccounts
  <2>2. IsTable(sessions, drawn, Sessions)
    BY DEF InitAccounts, IsTable, NoRows
  <2>. QED
    BY <1>1, <1>4, <2>1, <2>2 DEF AccountsTypeOK
<1>6. admins[Root].id < nextAdmin
  BY <1>3 DEF InitAccounts
<1>. QED
  BY <1>3, <1>5, <1>6 DEF AccountsInv

-----------------------------------------------------------------------------
(* The table of sessions.                                                  *)

LEMMA PrunedTable ==
  ASSUME NEW D, IsTable(sessions, D, Sessions)
  PROVE  IsTable(Pruned, D, Sessions)
BY DEF Pruned, Remove, IsTable

LEMMA SessionSteps ==
  ASSUME AccountsInv,
         \/ \E t \in Tokens, u \in Users, p \in Passwords : Login(t, u, p)
         \/ \E t \in Tokens : Logout(t) \/ Expire(t)
         \/ Prune
  PROVE  AccountsInv'
<1>. USE DEF AccountsInv, AccountsTypeOK
<1>1. UNCHANGED <<admins, nextAdmin, master, secret>>
  BY DEF Login, Logout, Expire, Prune
<1>2. drawn' \subseteq Tokens /\ IsTable(sessions', drawn', Sessions)
  <2>1. ASSUME NEW t \in Tokens, NEW u \in Users, NEW p \in Passwords, Login(t, u, p)
        PROVE  drawn' \subseteq Tokens /\ IsTable(sessions', drawn', Sessions)
    <3>1. admins[u] \in Accounts
      BY <2>1 DEF Login, IsTable
    <3>2. [user |-> u, may |-> admins[u].may, expired |-> FALSE,
           hash |-> admins[u].hash] \in Sessions
      BY <3>1 DEF Accounts, Sessions
    <3>3. IsTable(Pruned, drawn, Sessions)
      BY PrunedTable
    <3>. QED
      BY <2>1, <3>2, <3>3 DEF Login, IsTable, Insert
  <2>2. ASSUME NEW t \in Tokens, Logout(t)
        PROVE  drawn' \subseteq Tokens /\ IsTable(sessions', drawn', Sessions)
    BY <2>2 DEF Logout, Remove, IsTable
  <2>3. ASSUME NEW t \in Tokens, Expire(t)
        PROVE  drawn' \subseteq Tokens /\ IsTable(sessions', drawn', Sessions)
    <3>1. [sessions[t] EXCEPT !.expired = TRUE] \in Sessions
      BY <2>3 DEF Expire, Live, LiveIn, IsTable, Sessions
    <3>. QED
      BY <2>3, <3>1 DEF Expire, IsTable
  <2>4. CASE Prune
    BY <2>4, PrunedTable DEF Prune
  <2>. QED
    BY <2>1, <2>2, <2>3, <2>4
<1>. QED
  BY <1>1, <1>2

-----------------------------------------------------------------------------
(* The table of accounts.                                                  *)

LEMMA CreateAdminKeeps ==
  ASSUME AccountsInv, NEW u \in Users, NEW p \in Passwords, NEW may \in Grants,
         CreateAdmin(u, p, may)
  PROVE  AccountsInv'
<1>. USE AccountsAssumption DEF AccountsInv, AccountsTypeOK
<1>. DEFINE row == [id |-> nextAdmin, hash |-> Hash(p), may |-> may, active |-> TRUE]
<1>1. nextAdmin \in 1..MaxAdmins /\ nextAdmin' = nextAdmin + 1
  BY DEF CreateAdmin
<1>2. row \in Accounts
  BY <1>1, HashType, GrantType DEF Accounts
<1>3. /\ DOMAIN admins' = DOMAIN admins \cup {u} /\ admins'[u] = row
      /\ \A v \in DOMAIN admins : admins'[v] = admins[v]
  BY DEF CreateAdmin, Insert
<1>4. IsTable(admins', Users, Accounts) /\ Root \in DOMAIN admins'
  BY <1>2, <1>3 DEF IsTable
<1>5. ASSUME NEW v \in DOMAIN admins' PROVE admins'[v].id < nextAdmin'
  <2>1. CASE v = u
    BY <1>1, <1>3, <2>1
  <2>2. CASE v # u
    <3>1. v \in DOMAIN admins /\ admins[v] \in Accounts
      BY <1>3, <2>2 DEF IsTable
    <3>2. admins[v].id \in 1..MaxAdmins /\ admins'[v].id = admins[v].id
      BY <1>3, <3>1 DEF Accounts
    <3>. QED
      BY <1>1, <3>1, <3>2
  <2>. QED
    BY <2>1, <2>2
<1>6. nextAdmin' \in 2..(MaxAdmins + 1)
  BY <1>1
<1>. QED
  BY <1>4, <1>5, <1>6 DEF CreateAdmin

LEMMA ChangedAccount ==
  ASSUME AccountsTypeOK, NEW row \in Accounts, NEW body \in AdminBodies
  PROVE  Change(row, body) \in Accounts /\ Change(row, body).id = row.id
<1>1. \/ \E p \in Passwords : body = [hash |-> Hash(p)]
      \/ \E g \in Grants : body = [may |-> g]
      \/ \E b \in BOOLEAN : body = [active |-> b]
  BY DEF AdminBodies
<1>2. ASSUME NEW p \in Passwords, body = [hash |-> Hash(p)]
      PROVE  Change(row, body) \in Accounts /\ Change(row, body).id = row.id
  BY <1>2, HashType DEF Change, Accounts
<1>3. ASSUME NEW g \in Grants, body = [may |-> g]
      PROVE  Change(row, body) \in Accounts /\ Change(row, body).id = row.id
  BY <1>3, GrantType DEF Change, Accounts
<1>4. ASSUME NEW b \in BOOLEAN, body = [active |-> b]
      PROVE  Change(row, body) \in Accounts /\ Change(row, body).id = row.id
  BY <1>4 DEF Change, Accounts
<1>. QED
  BY <1>1, <1>2, <1>3, <1>4

LEMMA UpdateAdminKeeps ==
  ASSUME AccountsInv, NEW i \in 1..MaxAdmins, NEW body \in AdminBodies,
         UpdateAdmin(i, body)
  PROVE  AccountsInv'
<1>. USE DEF AccountsInv, AccountsTypeOK
<1>1. DOMAIN admins' = DOMAIN admins
  BY DEF UpdateAdmin
<1>2. ASSUME NEW u \in DOMAIN admins
      PROVE  admins'[u] \in Accounts /\ admins'[u].id = admins[u].id
  <2>1. admins[u] \in Accounts
    BY DEF IsTable
  <2>2. admins'[u] = Change(admins[u], body) \/ admins'[u] = admins[u]
    BY DEF UpdateAdmin
  <2>. QED
    BY <2>1, <2>2, ChangedAccount
<1>3. IsTable(admins', Users, Accounts)
  BY <1>1, <1>2 DEF IsTable
<1>. QED
  BY <1>1, <1>2, <1>3 DEF UpdateAdmin

LEMMA DeleteAdminKeeps ==
  ASSUME AccountsInv, NEW i \in 1..MaxAdmins, DeleteAdmin(i)
  PROVE  AccountsInv'
<1>. USE DEF AccountsInv, AccountsTypeOK
<1>1. /\ DOMAIN admins' = DOMAIN admins \ Named(i)
      /\ \A u \in DOMAIN admins' : admins'[u] = admins[u]
  BY DEF DeleteAdmin, Remove
<1>. QED
  BY <1>1 DEF DeleteAdmin, IsTable

LEMMA ChangePasswordKeeps ==
  ASSUME AccountsInv, NEW t \in Tokens, NEW u \in Users, NEW p \in Passwords,
         NEW q \in Passwords, ChangePassword(t, u, p, q)
  PROVE  AccountsInv'
<1>. USE DEF AccountsInv, AccountsTypeOK
<1>1. Hash(q) \in Hashes
  BY HashType
<1>2. /\ DOMAIN admins' = DOMAIN admins /\ master' \in Hashes
      /\ \A v \in DOMAIN admins :
           \/ admins'[v] = admins[v]
           \/ admins'[v] = [admins[v] EXCEPT !.hash = Hash(q)]
  BY <1>1 DEF ChangePassword, Repassword
<1>3. ASSUME NEW v \in DOMAIN admins
      PROVE  admins'[v] \in Accounts /\ admins'[v].id = admins[v].id
  <2>1. admins[v] \in Accounts
    BY DEF IsTable
  <2>2. CASE admins'[v] = [admins[v] EXCEPT !.hash = Hash(q)]
    BY <1>1, <2>1, <2>2 DEF Accounts
  <2>. QED
    BY <1>2, <2>1, <2>2
<1>4. IsTable(admins', Users, Accounts)
  BY <1>2, <1>3 DEF IsTable
<1>5. IsTable(sessions', drawn, Sessions)
  <2>1. ASSUME NEW x \in DOMAIN sessions
        PROVE  [sessions[x] EXCEPT !.expired = FALSE, !.hash = Hash(q)] \in Sessions
    BY <1>1 DEF IsTable, Sessions
  <2>. QED
    BY <2>1 DEF ChangePassword, Others, IsTable
<1>. QED
  BY <1>2, <1>3, <1>4, <1>5 DEF ChangePassword

(* AccountsInv is inductive.                                               *)
LEMMA AccountsKeep ==
  ASSUME AccountsInv, AccountsStep
  PROVE  AccountsInv'
<1>1. ASSUME NEW s \in Secrets, BootAccounts(s) PROVE AccountsInv'
  BY <1>1 DEF BootAccounts, AccountsInv, AccountsTypeOK, IsTable, NoRows
<1>2. CASE UNCHANGED accountVars
  BY <1>2 DEF accountVars, AccountsInv, AccountsTypeOK
<1>. QED
  BY <1>1, <1>2, SessionSteps, CreateAdminKeeps, UpdateAdminKeeps,
     DeleteAdminKeeps, ChangePasswordKeeps
  DEF AccountsStep
=============================================================================
