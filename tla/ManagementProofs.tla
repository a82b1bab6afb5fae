-------------------------- MODULE ManagementProofs --------------------------
(***************************************************************************)
(* Theorems about Management, for any number of users, links, categories,  *)
(* updates, requests at a time, starts, and whatever the loads are: the    *)
(* properties of the run, except CommandsHandled, which is liveness.       *)
(***************************************************************************)
EXTENDS Management, AccountsProofs, CatalogProofs, BotProofs, FiniteSetTheorems

-----------------------------------------------------------------------------
(* What a step of the panel is for each of its parts.                      *)

LEMMA AccountRequestSteps ==
  ASSUME \/ \E r \in Requests : CreatesAdmin(r) \/ UpdatesAdmin(r)
         \/ \E t \in Tokens, i \in 1..MaxAdmins : DeletesAdmin(t, i)
  PROVE  AccountsStep /\ UNCHANGED catalogVars /\ UNCHANGED botVars
BY DEF CreatesAdmin, UpdatesAdmin, DeletesAdmin, Served, AtOnce, AccountsStep

LEMMA PasswordSteps ==
  ASSUME requests \in [Requests -> Pending \cup {Idle}],
         NEW r \in Requests, ChangesPassword(r)
  PROVE  AccountsStep /\ UNCHANGED catalogVars /\ UNCHANGED botVars
<1>1. requests[r].token \in Tokens /\ requests[r].user \in Users
  BY DEF ChangesPassword, Pending
<1>. QED
  BY <1>1 DEF ChangesPassword, Served, AccountsStep

LEMMA CatalogRequestSteps ==
  ASSUME \/ \E r \in Requests : \/ ManagesLinks(r) \/ CreatesCategory(r)
                                \/ Restores(r) \/ CreatesNotice(r) \/ TogglesNotice(r)
         \/ \E t \in Tokens : \/ \E u \in Uuids : DeletesLink(t, u)
                              \/ \E c \in Groups : DeletesCategory(t, c)
                              \/ Downloads(t)
                              \/ \E i \in 1..MaxNotice : DeletesNotice(t, i)
  PROVE  CatalogStep /\ UNCHANGED accountVars /\ UNCHANGED botVars
<1>1. UNCHANGED accountVars /\ UNCHANGED botVars
  BY DEF ManagesLinks, CreatesCategory, Restores, CreatesNotice, TogglesNotice,
     DeletesLink, DeletesCategory, Downloads, DeletesNotice, Served, AtOnce
<1>2. CatalogStep
  BY DEF ManagesLinks, CreatesCategory, Restores, CreatesNotice, TogglesNotice,
     DeletesLink, DeletesCategory, Downloads, DeletesNotice, CatalogStep
<1>. QED
  BY <1>1, <1>2

LEMMA ExpirySteps ==
  ASSUME NEW u \in Uuids, LinkExpires(u)
  PROVE  CatalogStep /\ UNCHANGED accountVars /\ UNCHANGED botVars
BY DEF LinkExpires, CatalogStep

LEMMA SessionOnlySteps ==
  ASSUME \/ \E t \in Tokens, u \in Users, p \in Passwords : LogsIn(t, u, p)
         \/ \E t \in Tokens : Ends(t)
         \/ Prunes
  PROVE  AccountsStep /\ UNCHANGED catalogVars /\ UNCHANGED botVars
BY DEF LogsIn, Ends, Prunes, OnSessions, AccountsStep

LEMMA WaitingSteps ==
  ASSUME NEW r \in Requests,
         Refuse(r) \/ \E t \in Tokens, for \in Endpoints : Admit(r, t, for)
  PROVE  UNCHANGED accountVars /\ UNCHANGED catalogVars /\ UNCHANGED botVars
BY DEF Refuse, Admit

LEMMA RobotSteps ==
  ASSUME BotInv, Robot
  PROVE  UNCHANGED accountVars /\ CatalogStep /\ BotStep
<1>1. CASE Asks \/ Polls \/ PollsInVain \/ Fails
  BY <1>1 DEF Asks, Polls, PollsInVain, Fails, OnBot, CatalogStep, BotStep
<1>2. CASE Obeys
  <2>1. Commands[Head(tasks)] \in {"new"} \cup Uuids
    BY <1>2, Taken, ManagementAssumption DEF Obeys, Handled
  <2>2. CatalogStep
    BY <1>2, <2>1 DEF Obeys, CatalogStep
  <2>. QED
    BY <1>2, <2>2 DEF Obeys, BotStep
<1>. QED
  BY <1>1, <1>2 DEF Robot

(* A step of the panel within the life of a process, and a new start.      *)
LEMMA PartSteps ==
  ASSUME BotInv, requests \in [Requests -> Pending \cup {Idle}],
         [Next]_vars, \A s \in Secrets : ~ Restart(s)
  PROVE  AccountsStep /\ CatalogStep /\ BotStep
<1>1. UNCHANGED accountVars => AccountsStep
  BY DEF AccountsStep
<1>2. UNCHANGED catalogVars => CatalogStep
  BY DEF CatalogStep
<1>3. UNCHANGED botVars => BotStep
  BY DEF BotStep
<1>4. CASE UNCHANGED vars
  BY <1>1, <1>2, <1>3, <1>4 DEF vars
<1>5. CASE \E r \in Requests : Request(r)
  BY <1>1, <1>2, <1>3, <1>5, AccountRequestSteps, PasswordSteps,
     CatalogRequestSteps, WaitingSteps DEF Request
<1>6. CASE \E t \in Tokens : Visit(t)
  BY <1>1, <1>2, <1>3, <1>6, AccountRequestSteps, CatalogRequestSteps,
     SessionOnlySteps DEF Visit
<1>7. CASE \E u \in Uuids : LinkExpires(u)
  BY <1>1, <1>3, <1>7, ExpirySteps
<1>8. CASE Prunes
  BY <1>2, <1>3, <1>8, SessionOnlySteps
<1>9. CASE Robot
  BY <1>1, <1>9, RobotSteps
<1>. QED
  BY <1>4, <1>5, <1>6, <1>7, <1>8, <1>9 DEF Next

LEMMA RestartSteps ==
  ASSUME NEW s \in Secrets, Restart(s)
  PROVE  AccountsStep /\ CatalogStep /\ BootBot
BY DEF Restart, AccountsStep, CatalogStep

-----------------------------------------------------------------------------
(* Requests and sessions.                                                  *)

RequestsType == requests \in [Requests -> Pending \cup {Idle}]

(* What a step is for the requests under way.                              *)
LEMMA RequestCases ==
  ASSUME [Next]_vars
  PROVE  \/ \E r \in Requests, t \in Tokens, for \in Endpoints : Admit(r, t, for)
         \/ \E r \in Requests : Refuse(r)
         \/ \E r \in Requests, for \in Endpoints :
              Served(r, for) /\ (UNCHANGED accountVars \/ UNCHANGED <<sessions, drawn>>)
         \/ \E r \in Requests : ChangesPassword(r)
         \/ UNCHANGED <<requests, late, sessions, drawn>>
         \/ /\ UNCHANGED <<requests, late>>
            /\ \/ \E t \in Tokens, u \in Users, p \in Passwords : Login(t, u, p)
               \/ \E t \in Tokens : Logout(t) \/ Expire(t)
               \/ Prune
         \/ \E s \in Secrets : Restart(s)
<1>1. CASE UNCHANGED vars
  BY <1>1 DEF vars, accountVars, requestVars
<1>2. CASE \E r \in Requests : Request(r)
  <2>1. ASSUME NEW r \in Requests, CreatesAdmin(r) \/ UpdatesAdmin(r)
        PROVE  \E for \in Endpoints : Served(r, for) /\ UNCHANGED <<sessions, drawn>>
    BY <2>1 DEF CreatesAdmin, UpdatesAdmin, CreateAdmin, UpdateAdmin, Endpoints
  <2>2. ASSUME NEW r \in Requests,
               \/ ManagesLinks(r) \/ CreatesCategory(r) \/ Restores(r)
               \/ CreatesNotice(r) \/ TogglesNotice(r)
        PROVE  \E for \in Endpoints : Served(r, for) /\ UNCHANGED accountVars
    BY <2>2 DEF ManagesLinks, CreatesCategory, Restores, CreatesNotice,
       TogglesNotice, Endpoints
  <2>. QED
    BY <1>2, <2>1, <2>2 DEF Request
<1>3. CASE \E t \in Tokens : Visit(t)
  <2>1. ASSUME NEW t \in Tokens, NEW i \in 1..MaxAdmins, DeletesAdmin(t, i)
        PROVE  UNCHANGED <<requests, late, sessions, drawn>>
    BY <2>1 DEF DeletesAdmin, DeleteAdmin, AtOnce
  <2>2. ASSUME NEW t \in Tokens,
               \/ \E u \in Uuids : DeletesLink(t, u)
               \/ \E c \in Groups : DeletesCategory(t, c)
               \/ Downloads(t)
               \/ \E i \in 1..MaxNotice : DeletesNotice(t, i)
        PROVE  UNCHANGED <<requests, late, sessions, drawn>>
    BY <2>2 DEF DeletesLink, DeletesCategory, Downloads, DeletesNotice, AtOnce,
       accountVars
  <2>3. ASSUME NEW t \in Tokens,
               Ends(t) \/ \E u \in Users, p \in Passwords : LogsIn(t, u, p)
        PROVE  /\ UNCHANGED <<requests, late>>
               /\ \/ \E u \in Users, p \in Passwords : Login(t, u, p)
                  \/ Logout(t) \/ Expire(t)
    BY <2>3 DEF Ends, LogsIn, OnSessions, requestVars
  <2>. QED
    BY <1>3, <2>1, <2>2, <2>3 DEF Visit
<1>4. CASE \E u \in Uuids : LinkExpires(u)
  BY <1>4 DEF LinkExpires, requestVars, accountVars
<1>5. CASE Prunes
  BY <1>5 DEF Prunes, OnSessions, requestVars
<1>6. CASE Robot
  BY <1>6 DEF Robot, Asks, Polls, PollsInVain, Obeys, Fails, OnBot, requestVars,
     accountVars
<1>. QED
  BY <1>1, <1>2, <1>3, <1>4, <1>5, <1>6 DEF Next

LEMMA RequestsKeepType ==
  ASSUME RequestsType, AccountsInv, [Next]_vars
  PROVE  RequestsType'
<1>. USE DEF RequestsType
<1>1. ASSUME NEW r \in Requests, NEW t \in Tokens, NEW for \in Endpoints,
             Admit(r, t, for)
      PROVE  RequestsType'
  <2>1. sessions[t] \in Sessions
    BY <1>1 DEF Admit, Authorised, Live, LiveIn, AccountsInv, AccountsTypeOK, IsTable
  <2>2. [at |-> "body", token |-> t, user |-> sessions[t].user,
         may |-> sessions[t].may, for |-> for] \in Pending
    BY <2>1 DEF Pending, Sessions
  <2>. QED
    BY <1>1, <2>2 DEF Admit
<1>2. ASSUME NEW r \in Requests, Refuse(r) \/ ChangesPassword(r)
                                  \/ \E for \in Endpoints : Served(r, for)
      PROVE  RequestsType'
  BY <1>2 DEF Refuse, ChangesPassword, Served
<1>3. ASSUME NEW s \in Secrets, Restart(s) PROVE RequestsType'
  BY <1>3 DEF Restart
<1>. QED
  BY <1>1, <1>2, <1>3, RequestCases

-----------------------------------------------------------------------------
(* Types.                                                                  *)

Entries == [created : SUBSET Kinds, deleted : SUBSET (Kinds \X Nat)]

OtherTypes ==
  /\ running \in BOOLEAN
  /\ audit \in Logs /\ unlogged \in Logs
  /\ late \in [Tokens -> Nat]
  /\ crashes \in Nat
  /\ load \in LoadSet

LEMMA EntryTypes ==
  /\ Other \in Entries
  /\ \A k \in Kinds : Creation(k) \in Entries
  /\ \A k \in Kinds, i \in Nat : Deletion(k, i) \in Entries
BY DEF Other, Creation, Deletion, Entries

LEMMA WithEntryType ==
  ASSUME NEW log \in Logs, NEW e \in Entries
  PROVE  WithEntry(log, e) \in Logs
<1>1. \A k \in Kinds : log.created[k] + (IF k \in e.created THEN 1 ELSE 0) \in Nat
  BY DEF Logs
<1>2. log.deleted \cup e.deleted \in SUBSET (Kinds \X Nat)
  BY DEF Logs, Entries
<1>. QED
  BY <1>1, <1>2 DEF WithEntry, Logs

Creates(k) ==
  \E r \in Requests :
    \/ k = "admin" /\ CreatesAdmin(r)
    \/ k = "category" /\ CreatesCategory(r)
    \/ k = "notice" /\ CreatesNotice(r)

(* A step writes an entry or loses it, a creation's when it creates.       *)
LEMMA EntryCases ==
  ASSUME AccountsInv, CatalogInv, [Next]_vars
  PROVE  \/ UNCHANGED <<audit, unlogged>>
         \/ Audited(Other)
         \/ \E k \in Kinds : Creates(k) /\ Audited(Creation(k))
         \/ \E k \in Kinds, i \in Nat : Audited(Deletion(k, i))
<1>. USE AccountsAssumption, CatalogAssumption
<1>1. 1..MaxAdmins \subseteq Nat /\ Groups \subseteq Nat /\ 1..MaxNotice \subseteq Nat
  BY DEF Groups
<1>2. "admin" \in Kinds /\ "category" \in Kinds /\ "notice" \in Kinds
  BY DEF Kinds
<1>. DEFINE Goal == \/ UNCHANGED <<audit, unlogged>>
                    \/ Audited(Other)
                    \/ \E k \in Kinds : Creates(k) /\ Audited(Creation(k))
                    \/ \E k \in Kinds, i \in Nat : Audited(Deletion(k, i))
<1>3. CASE UNCHANGED vars
  BY <1>3 DEF vars, auditVars
<1>4. ASSUME NEW r \in Requests, Request(r) PROVE Goal
  <2>1. CASE CreatesAdmin(r)
    <3>1. Creates("admin")
      BY <2>1 DEF Creates
    <3>2. Audited(Creation("admin"))
      BY <2>1 DEF CreatesAdmin
    <3>. QED
      BY <1>2, <3>1, <3>2
  <2>2. CASE CreatesCategory(r)
    <3>1. Creates("category")
      BY <2>2 DEF Creates
    <3>2. Audited(Creation("category"))
      BY <2>2 DEF CreatesCategory
    <3>. QED
      BY <1>2, <3>1, <3>2
  <2>3. CASE CreatesNotice(r)
    <3>1. Creates("notice")
      BY <2>3 DEF Creates
    <3>2. Audited(Creation("notice"))
      BY <2>3 DEF CreatesNotice
    <3>. QED
      BY <1>2, <3>1, <3>2
  <2>4. CASE UpdatesAdmin(r) \/ ChangesPassword(r) \/ ManagesLinks(r) \/ Restores(r)
    BY <2>4 DEF UpdatesAdmin, ChangesPassword, ManagesLinks, Restores
  <2>5. CASE Refuse(r) \/ TogglesNotice(r)
             \/ \E t \in Tokens, for \in Endpoints : Admit(r, t, for)
    BY <2>5 DEF Refuse, TogglesNotice, Admit, auditVars
  <2>. QED
    BY <1>4, <2>1, <2>2, <2>3, <2>4, <2>5 DEF Request
<1>5. ASSUME NEW t \in Tokens, Visit(t) PROVE Goal
  <2>1. ASSUME NEW i \in 1..MaxAdmins, DeletesAdmin(t, i) PROVE Goal
    BY <1>1, <1>2, <2>1 DEF DeletesAdmin
  <2>2. ASSUME NEW c \in Groups, DeletesCategory(t, c) PROVE Goal
    BY <1>1, <1>2, <2>2 DEF DeletesCategory
  <2>3. ASSUME NEW i \in 1..MaxNotice, DeletesNotice(t, i) PROVE Goal
    BY <1>1, <1>2, <2>3 DEF DeletesNotice
  <2>4. ASSUME NEW u \in Uuids, DeletesLink(t, u) PROVE Goal
    BY <2>4 DEF DeletesLink
  <2>5. CASE Downloads(t) \/ Ends(t)
             \/ \E u \in Users, p \in Passwords : LogsIn(t, u, p)
    BY <2>5 DEF Downloads, Ends, LogsIn, OnSessions, auditVars
  <2>. QED
    BY <1>5, <2>1, <2>2, <2>3, <2>4, <2>5 DEF Visit
<1>6. CASE \/ \E u \in Uuids : LinkExpires(u)
           \/ Prunes \/ Robot \/ \E s \in Secrets : Restart(s)
  BY <1>6 DEF LinkExpires, Prunes, OnSessions, Robot, Asks, Polls, PollsInVain,
     Obeys, Fails, OnBot, Restart, auditVars
<1>. QED
  BY <1>3, <1>4, <1>5, <1>6 DEF Next

LEMMA LateType ==
  ASSUME RequestsType, late \in [Tokens -> Nat], [Next]_vars
  PROVE  late' \in [Tokens -> Nat]
<1>1. ASSUME NEW r \in Requests, NEW for \in Endpoints, Served(r, for)
      PROVE  late' \in [Tokens -> Nat]
  <2>1. requests[r].token \in Tokens
    BY <1>1 DEF Served, RequestsType, Pending
  <2>. QED
    BY <1>1, <2>1 DEF Served
<1>2. ASSUME NEW r \in Requests, ChangesPassword(r) PROVE late' \in [Tokens -> Nat]
  BY <1>1, <1>2 DEF ChangesPassword, Endpoints
<1>. QED
  BY <1>1, <1>2, RequestCases DEF Admit, Refuse, Restart

LEMMA LoadCases ==
  ASSUME [Next]_vars
  PROVE  \/ load' = load
         \/ load.ops > 0 /\ load' = [load EXCEPT !.ops = @ - 1]
         \/ load.restarts > 0 /\ load' = [load EXCEPT !.restarts = @ - 1]
BY DEF Next, vars, Request, Visit, Robot, Admit, Refuse, CreatesAdmin,
   UpdatesAdmin, ChangesPassword, ManagesLinks, CreatesCategory, Restores,
   CreatesNotice, TogglesNotice, LogsIn, Ends, OnSessions, DeletesAdmin,
   DeletesLink, DeletesCategory, Downloads, DeletesNotice, LinkExpires, Prunes,
   Asks, Polls, PollsInVain, Obeys, Fails, OnBot, Restart, Served, AtOnce, Spend

LEMMA LoadType ==
  ASSUME load \in LoadSet, [Next]_vars
  PROVE  load' \in LoadSet
<1>1. ASSUME load.ops > 0 PROVE [load EXCEPT !.ops = @ - 1] \in LoadSet
  <2>1. load.ops - 1 \in Nat
    BY <1>1 DEF LoadSet
  <2>. QED
    BY <2>1 DEF LoadSet
<1>2. ASSUME load.restarts > 0 PROVE [load EXCEPT !.restarts = @ - 1] \in LoadSet
  <2>1. load.restarts - 1 \in Nat
    BY <1>2 DEF LoadSet
  <2>. QED
    BY <2>1 DEF LoadSet
<1>. QED
  BY <1>1, <1>2, LoadCases

LEMMA RunningCases ==
  ASSUME running \in BOOLEAN, [Next]_vars
  PROVE  running' \in BOOLEAN
BY DEF Next, vars, Request, Visit, Robot, Admit, Refuse, CreatesAdmin,
   UpdatesAdmin, ChangesPassword, ManagesLinks, CreatesCategory, Restores,
   CreatesNotice, TogglesNotice, LogsIn, Ends, OnSessions, DeletesAdmin,
   DeletesLink, DeletesCategory, Downloads, DeletesNotice, LinkExpires, Prunes,
   Asks, Polls, PollsInVain, Obeys, Fails, OnBot, Restart, Audited

LEMMA CrashCases ==
  ASSUME [Next]_vars
  PROVE  crashes' = IF \E s \in Secrets : Restart(s) THEN crashes + 1 ELSE crashes
BY DEF Next, vars, Request, Visit, Robot, Admit, Refuse, CreatesAdmin,
   UpdatesAdmin, ChangesPassword, ManagesLinks, CreatesCategory, Restores,
   CreatesNotice, TogglesNotice, LogsIn, Ends, OnSessions, DeletesAdmin,
   DeletesLink, DeletesCategory, Downloads, DeletesNotice, LinkExpires, Prunes,
   Asks, Polls, PollsInVain, Obeys, Fails, OnBot, Restart, Served, AtOnce

LEMMA OthersKeepTypes ==
  ASSUME RequestsType, AccountsInv, CatalogInv, OtherTypes, [Next]_vars
  PROVE  OtherTypes'
<1>. USE DEF OtherTypes
<1>1. running' \in BOOLEAN /\ late' \in [Tokens -> Nat] /\ load' \in LoadSet
  BY RunningCases, LateType, LoadType
<1>2. crashes' \in Nat
  BY CrashCases
<1>3. ASSUME NEW e \in Entries, Audited(e) PROVE audit' \in Logs /\ unlogged' \in Logs
  BY <1>3, WithEntryType DEF Audited
<1>4. audit' \in Logs /\ unlogged' \in Logs
  BY <1>3, EntryCases, EntryTypes
<1>. QED
  BY <1>1, <1>2, <1>4

-----------------------------------------------------------------------------
(* What a step is for the accounts and their sessions.                     *)

LEMMA AccountCases ==
  ASSUME [Next]_vars
  PROVE  \/ UNCHANGED <<accountVars, outdated>>
         \/ /\ UNCHANGED outdated
            /\ \/ \E t \in Tokens, u \in Users, p \in Passwords : Login(t, u, p)
               \/ \E t \in Tokens : Logout(t) \/ Expire(t)
               \/ Prune
               \/ \E u \in Users, p \in Passwords, may \in Grants : CreateAdmin(u, p, may)
         \/ \E i \in 1..MaxAdmins :
              /\ Outdate(i)
              /\ DeleteAdmin(i) \/ \E body \in AdminBodies : UpdateAdmin(i, body)
         \/ \E r \in Requests, p, q \in Passwords :
              /\ UNCHANGED outdated
              /\ requests[r] # Idle
              /\ ChangePassword(requests[r].token, requests[r].user, p, q)
         \/ \E s \in Secrets : BootAccounts(s) /\ outdated' = {}
<1>1. CASE UNCHANGED vars
  BY <1>1 DEF vars, requestVars
<1>2. CASE \E r \in Requests : Request(r)
  BY <1>2 DEF Request, Admit, Refuse, CreatesAdmin, UpdatesAdmin, ChangesPassword,
     ManagesLinks, CreatesCategory, Restores, CreatesNotice, TogglesNotice
<1>3. CASE \E t \in Tokens : Visit(t)
  BY <1>3 DEF Visit, LogsIn, Ends, OnSessions, DeletesAdmin, DeletesLink,
     DeletesCategory, Downloads, DeletesNotice, requestVars
<1>4. CASE (\E u \in Uuids : LinkExpires(u)) \/ Robot
  BY <1>4 DEF LinkExpires, Robot, Asks, Polls, PollsInVain, Obeys, Fails, OnBot,
     requestVars
<1>5. CASE Prunes \/ \E s \in Secrets : Restart(s)
  BY <1>5 DEF Prunes, OnSessions, Restart, requestVars
<1>. QED
  BY <1>1, <1>2, <1>3, <1>4, <1>5 DEF Next

(* A session stays with its user, and a new one has a new token.           *)
LEMMA SessionUsers ==
  ASSUME AccountsInv, [Next]_vars
  PROVE  /\ drawn \subseteq drawn'
         /\ \A t \in DOMAIN sessions' :
              \/ t \notin drawn
              \/ t \in DOMAIN sessions /\ sessions'[t].user = sessions[t].user
<1>1. \A t \in DOMAIN sessions : sessions[t] \in Sessions
  BY DEF AccountsInv, AccountsTypeOK, IsTable
<1>2. ASSUME \/ \E t \in Tokens, u \in Users, p \in Passwords : Login(t, u, p)
             \/ \E t \in Tokens : Logout(t)
             \/ Prune
      PROVE  /\ drawn \subseteq drawn'
             /\ \A t \in DOMAIN sessions' : t \notin drawn
                  \/ (t \in DOMAIN sessions /\ sessions'[t].user = sessions[t].user)
  BY <1>2 DEF Login, Logout, Prune, Pruned, Remove, Insert
<1>3. ASSUME NEW t \in Tokens, Expire(t)
      PROVE  /\ drawn \subseteq drawn' /\ DOMAIN sessions' = DOMAIN sessions
             /\ \A x \in DOMAIN sessions : sessions'[x].user = sessions[x].user
  BY <1>1, <1>3 DEF Expire, Sessions
<1>4. ASSUME NEW t, NEW u, NEW p, NEW q, ChangePassword(t, u, p, q)
      PROVE  /\ drawn \subseteq drawn' /\ DOMAIN sessions' \subseteq DOMAIN sessions
             /\ \A x \in DOMAIN sessions' : sessions'[x].user = sessions[x].user
  BY <1>1, <1>4 DEF ChangePassword, Others, Sessions
<1>5. ASSUME UNCHANGED <<sessions, drawn>>
      PROVE  /\ drawn \subseteq drawn'
             /\ \A t \in DOMAIN sessions' : t \in DOMAIN sessions
                                             /\ sessions'[t].user = sessions[t].user
  BY <1>5
<1>6. ASSUME NEW s, BootAccounts(s)
      PROVE  drawn \subseteq drawn' /\ DOMAIN sessions' = {}
  BY <1>6 DEF BootAccounts, NoRows
<1>. QED
  BY <1>2, <1>3, <1>4, <1>5, <1>6, AccountCases
  DEF accountVars, CreateAdmin, UpdateAdmin, DeleteAdmin

(* The user of a request is the user of its session, while it is there;    *)
(* and no token is handed out twice.                                       *)
SessionsInv ==
  /\ \A r \in Requests : requests[r] # Idle =>
       /\ requests[r].token \in drawn
       /\ requests[r].token \in DOMAIN sessions =>
            sessions[requests[r].token].user = requests[r].user
  /\ outdated \subseteq drawn
  /\ \A t \in Tokens \ drawn : late[t] = 0
  /\ SessionsCurrent

LEMMA SameUser ==
  ASSUME RequestsType, AccountsInv, SessionsInv, [Next]_vars,
         NEW r \in Requests, (requests[r] # Idle)'
  PROVE  /\ requests'[r].token \in drawn'
         /\ requests'[r].token \in DOMAIN sessions' =>
              sessions'[requests'[r].token].user = requests'[r].user
<1>1. ASSUME requests'[r] = requests[r]
      PROVE  /\ requests'[r].token \in drawn'
             /\ requests'[r].token \in DOMAIN sessions' =>
                  sessions'[requests'[r].token].user = requests'[r].user
  BY <1>1, SessionUsers DEF SessionsInv
<1>2. ASSUME NEW t \in Tokens, NEW for \in Endpoints, Admit(r, t, for)
      PROVE  /\ requests'[r].token \in drawn'
             /\ sessions'[requests'[r].token].user = requests'[r].user
  BY <1>2 DEF RequestsType, Admit, Authorised, Live, LiveIn, AccountsInv,
     AccountsTypeOK, IsTable, accountVars
<1>3. \/ requests'[r] = requests[r]
      \/ \E t \in Tokens, for \in Endpoints : Admit(r, t, for)
  <2>1. ASSUME NEW q \in Requests, NEW t \in Tokens, NEW for \in Endpoints,
               Admit(q, t, for), q # r
        PROVE  requests'[r] = requests[r]
    BY <2>1 DEF Admit, RequestsType
  <2>2. ASSUME NEW q \in Requests, requests' = [requests EXCEPT ![q] = Idle]
        PROVE  requests'[r] = requests[r]
    BY <2>2 DEF RequestsType
  <2>3. ASSUME NEW s \in Secrets, Restart(s) PROVE FALSE
    BY <2>3 DEF Restart
  <2>. QED
    BY <2>1, <2>2, <2>3, RequestCases DEF Refuse, Served, ChangesPassword
<1>. QED
  BY <1>1, <1>2, <1>3

LEMMA OutdatedDrawn ==
  ASSUME AccountsInv, outdated \subseteq drawn, [Next]_vars
  PROVE  outdated' \subseteq drawn'
<1>1. DOMAIN sessions \subseteq drawn
  BY DEF AccountsInv, AccountsTypeOK, IsTable
<1>. QED
  BY <1>1, AccountCases, SessionUsers DEF Outdate

LEMMA UndrawnNotLate ==
  ASSUME RequestsType, AccountsInv, SessionsInv, [Next]_vars,
         late \in [Tokens -> Nat], NEW t \in Tokens \ drawn'
  PROVE  late'[t] = 0
<1>1. t \notin drawn /\ late[t] = 0
  BY SessionUsers DEF SessionsInv
<1>2. ASSUME NEW r \in Requests, NEW for \in Endpoints, Served(r, for)
      PROVE  late'[t] = late[t]
  <2>1. requests[r].token \in drawn
    BY <1>2 DEF Served, SessionsInv
  <2>. QED
    BY <1>1, <1>2, <2>1 DEF Served
<1>3. ASSUME NEW r \in Requests, ChangesPassword(r) PROVE late'[t] = late[t]
  BY <1>2, <1>3 DEF ChangesPassword, Endpoints
<1>. QED
  BY <1>1, <1>2, <1>3, RequestCases DEF Admit, Refuse, Restart

-----------------------------------------------------------------------------
(* Sessions are current.                                                   *)

Fresh(s) ==
  /\ s.user \in DOMAIN admins
  /\ admins[s.user].may = s.may /\ admins[s.user].hash = s.hash
  /\ admins[s.user].active

LEMMA StaysCurrent ==
  ASSUME RequestsType, AccountsInv, SessionsInv, [Next]_vars
  PROVE  SessionsCurrent'
<1>. DEFINE Kept == \A t \in DOMAIN sessions' \ outdated' : Fresh(sessions[t])'
<1>1. /\ DOMAIN sessions \subseteq drawn
      /\ \A t \in DOMAIN sessions : sessions[t] \in Sessions
      /\ \A u \in DOMAIN admins : admins[u] \in Accounts
  BY DEF AccountsInv, AccountsTypeOK, IsTable
<1>2. \A t \in DOMAIN sessions \ outdated : Fresh(sessions[t])
  BY DEF SessionsInv, SessionsCurrent, Fresh
<1>3. ASSUME UNCHANGED <<accountVars, outdated>> PROVE Kept
  BY <1>2, <1>3 DEF accountVars, Fresh
<1>4. ASSUME UNCHANGED outdated, NEW t \in Tokens, NEW u \in Users, NEW p \in Passwords,
             Login(t, u, p)
      PROVE  Kept
  <2>1. /\ UNCHANGED admins /\ u \in DOMAIN admins /\ admins[u].active
        /\ t \in DOMAIN sessions'
        /\ sessions'[t] = [user |-> u, may |-> admins[u].may, expired |-> FALSE,
                           hash |-> admins[u].hash]
        /\ \A x \in DOMAIN sessions' \ {t} : x \in DOMAIN sessions
                                             /\ sessions'[x] = sessions[x]
    BY <1>4 DEF Login, Insert, Pruned, Remove
  <2>. QED
    BY <1>2, <1>4, <2>1 DEF Fresh
<1>5. ASSUME UNCHANGED outdated, Prune \/ \E t \in Tokens : Logout(t)
      PROVE  Kept
  <2>1. UNCHANGED admins /\ \A t \in DOMAIN sessions' : t \in DOMAIN sessions
                                                       /\ sessions'[t] = sessions[t]
    BY <1>5 DEF Prune, Logout, Pruned, Remove
  <2>. QED
    BY <1>2, <1>5, <2>1 DEF Fresh
<1>6. ASSUME UNCHANGED outdated, NEW t \in Tokens, Expire(t) PROVE Kept
  <2>1. \A x \in DOMAIN sessions : /\ sessions'[x].user = sessions[x].user
                                   /\ sessions'[x].may = sessions[x].may
                                   /\ sessions'[x].hash = sessions[x].hash
    BY <1>1, <1>6 DEF Expire, Sessions
  <2>. QED
    BY <1>2, <1>6, <2>1 DEF Expire, Fresh
<1>7. ASSUME UNCHANGED outdated, NEW u \in Users, NEW p \in Passwords, NEW may \in Grants,
             CreateAdmin(u, p, may)
      PROVE  Kept
  <2>1. /\ UNCHANGED sessions /\ DOMAIN admins \subseteq DOMAIN admins'
        /\ \A v \in DOMAIN admins : admins'[v] = admins[v]
    BY <1>7 DEF CreateAdmin, Insert
  <2>. QED
    BY <1>2, <1>7, <2>1 DEF Fresh
<1>8. ASSUME NEW i \in 1..MaxAdmins, Outdate(i),
             DeleteAdmin(i) \/ \E body \in AdminBodies : UpdateAdmin(i, body)
      PROVE  Kept
  <2>1. /\ UNCHANGED sessions
        /\ \A v \in DOMAIN admins \ Named(i) : v \in DOMAIN admins' /\ admins'[v] = admins[v]
    BY <1>8 DEF DeleteAdmin, UpdateAdmin, Remove
  <2>2. \A t \in DOMAIN sessions \ outdated' : t \notin outdated
                                               /\ sessions[t].user \notin Named(i)
    BY <1>8 DEF Outdate
  <2>. QED
    BY <1>2, <2>1, <2>2 DEF Fresh
<1>9. ASSUME UNCHANGED outdated, NEW t, NEW u, NEW p, NEW q, ChangePassword(t, u, p, q),
             t \in DOMAIN sessions => sessions[t].user = u
      PROVE  Kept
  <2>1. t \in DOMAIN sessions => sessions[t].user = u
    BY <1>9
  <2>2. DOMAIN sessions' = DOMAIN sessions \cap {t}
    BY <1>9 DEF ChangePassword, Others
  <2>3. ASSUME t \in DOMAIN sessions, t \notin outdated PROVE Fresh(sessions[t])'
    <3>1. /\ u \in DOMAIN admins /\ admins[u].may = sessions[t].may /\ admins[u].active
          /\ admins[u] \in Accounts /\ sessions[t] \in Sessions
      BY <1>1, <1>2, <2>1, <2>3 DEF Fresh
    <3>2. admins' = [admins EXCEPT ![u].hash = Hash(q)]
      BY <1>9, <3>1 DEF ChangePassword, Repassword
    <3>3. /\ u \in DOMAIN admins' /\ admins'[u].hash = Hash(q)
          /\ admins'[u].may = admins[u].may /\ admins'[u].active = admins[u].active
      BY <3>1, <3>2 DEF Accounts
    <3>4. sessions'[t] = [sessions[t] EXCEPT !.expired = FALSE, !.hash = Hash(q)]
      BY <1>9, <2>3 DEF ChangePassword, Others
    <3>5. /\ sessions'[t].user = u /\ sessions'[t].may = sessions[t].may
          /\ sessions'[t].hash = Hash(q)
      BY <2>1, <2>3, <3>1, <3>4 DEF Sessions
    <3>. QED
      BY <3>1, <3>3, <3>5 DEF Fresh
  <2>. QED
    BY <1>9, <2>2, <2>3
<1>10. ASSUME NEW s \in Secrets, BootAccounts(s) PROVE Kept
  BY <1>10 DEF BootAccounts, NoRows
<1>11. ASSUME UNCHANGED outdated, NEW r \in Requests, NEW p \in Passwords,
              NEW q \in Passwords, requests[r] # Idle,
              ChangePassword(requests[r].token, requests[r].user, p, q)
       PROVE  Kept
  BY <1>9, <1>11 DEF SessionsInv
<1>. HIDE DEF Kept
<1>12. Kept
  BY <1>3, <1>4, <1>5, <1>6, <1>7, <1>8, <1>10, <1>11, AccountCases
<1>. QED
  BY <1>12 DEF Kept, SessionsCurrent, Fresh

-----------------------------------------------------------------------------
(* Sessions that have ended.                                               *)

(* The requests under way of a session.                                    *)
Mine(t) == {r \in Requests : requests[r] # Idle /\ requests[r].token = t}

LEMMA MineBound ==
  ASSUME NEW t \in Tokens
  PROVE  /\ IsFiniteSet(Mine(t)) /\ Cardinality(Mine(t)) \in Nat
         /\ Cardinality(Requests) \in Nat
         /\ Cardinality(Mine(t)) <= Cardinality(Requests)
BY ManagementAssumption, FS_Subset, FS_CardinalityType DEF Mine

LEMMA NextMineBound ==
  ASSUME NEW t \in Tokens
  PROVE  /\ Cardinality(Mine(t)') \in Nat
         /\ Cardinality(Mine(t)') <= Cardinality(Requests)
<1>1. Mine(t)' \subseteq Requests
  BY DEF Mine
<1>. QED
  BY <1>1, ManagementAssumption, FS_Subset, FS_CardinalityType

(* What a step may do to a session: it does nothing late; or what was done *)
(* stays, and no request is let in; or one of its requests is late.        *)
LEMMA LateCases ==
  ASSUME RequestsType, AccountsInv, SessionsInv, late \in [Tokens -> Nat],
         RevokedActsOnce, [Next]_vars, NEW t \in Tokens
  PROVE  \/ late'[t] = 0
         \/ /\ late'[t] = late[t] /\ (Live(t)' => Live(t))
            /\ Mine(t)' \subseteq Mine(t)
         \/ /\ ~ Live(t) /\ ~ Live(t)' /\ late'[t] = late[t] + 1
            /\ \E r \in Mine(t) : Mine(t)' = Mine(t) \ {r}
<1>. DEFINE Goal ==
       \/ late'[t] = 0
       \/ /\ late'[t] = late[t] /\ (Live(t)' => Live(t))
          /\ Mine(t)' \subseteq Mine(t)
       \/ /\ ~ Live(t) /\ ~ Live(t)' /\ late'[t] = late[t] + 1
          /\ \E r \in Mine(t) : Mine(t)' = Mine(t) \ {r}
<1>. USE DEF RequestsType
<1>1. ASSUME NEW r \in Requests, NEW x \in Tokens, NEW for \in Endpoints, Admit(r, x, for)
      PROVE  Goal
  <2>1. UNCHANGED <<late, sessions>> /\ Live(x)
    BY <1>1 DEF Admit, Authorised, accountVars
  <2>2. CASE x = t
    BY <2>1, <2>2 DEF RevokedActsOnce
  <2>3. CASE x # t
    <3>1. Mine(t)' \subseteq Mine(t)
      BY <1>1, <2>3 DEF Admit, Mine
    <3>. QED
      BY <2>1, <3>1 DEF Live
  <2>. QED
    BY <2>2, <2>3
<1>2. ASSUME NEW r \in Requests, Refuse(r) PROVE Goal
  <2>1. UNCHANGED <<late, sessions>>
    BY <1>2 DEF Refuse, accountVars
  <2>2. Mine(t)' \subseteq Mine(t)
    BY <1>2 DEF Refuse, Mine
  <2>. QED
    BY <2>1, <2>2 DEF Live
<1>3. ASSUME NEW r \in Requests, NEW for \in Endpoints, Served(r, for)
      PROVE  /\ r \in Mine(requests[r].token)
             /\ Mine(t)' = Mine(t) \ {r}
             /\ late'[t] = IF requests[r].token # t THEN late[t]
                           ELSE IF Live(t) \/ LiveIn(sessions', t) THEN 0 ELSE late[t] + 1
  <2>1. requests' = [requests EXCEPT ![r] = Idle] /\ requests[r] # Idle
    BY <1>3 DEF Served
  <2>2. r \in Mine(requests[r].token) /\ Mine(t)' = Mine(t) \ {r}
    BY <2>1 DEF Mine
  <2>3. late' = [late EXCEPT ![requests[r].token] =
                   IF Live(requests[r].token) \/ LiveIn(sessions', requests[r].token)
                   THEN 0 ELSE @ + 1]
    BY <1>3 DEF Served
  <2>. QED
    BY <2>2, <2>3
<1>4. ASSUME NEW r \in Requests, NEW for \in Endpoints, Served(r, for),
             UNCHANGED accountVars \/ UNCHANGED <<sessions, drawn>>
      PROVE  Goal
  <2>1. UNCHANGED sessions
    BY <1>4 DEF accountVars
  <2>. QED
    BY <1>3, <1>4, <2>1 DEF Live
<1>5. ASSUME NEW r \in Requests, ChangesPassword(r) PROVE Goal
  <2>1. /\ r \in Mine(requests[r].token)
        /\ Mine(t)' = Mine(t) \ {r}
        /\ late'[t] = IF requests[r].token # t THEN late[t]
                      ELSE IF Live(t) \/ LiveIn(sessions', t) THEN 0 ELSE late[t] + 1
    BY <1>3, <1>5 DEF ChangesPassword, Endpoints
  <2>2. DOMAIN sessions' = DOMAIN sessions \cap {requests[r].token}
    BY <1>5 DEF ChangesPassword, ChangePassword, Others
  <2>3. CASE requests[r].token # t
    BY <2>1, <2>2, <2>3 DEF Live, LiveIn
  <2>4. CASE requests[r].token = t
    BY <2>1, <2>4 DEF Live
  <2>. QED
    BY <2>3, <2>4
<1>6. ASSUME UNCHANGED <<requests, late, sessions, drawn>> PROVE Goal
  BY <1>6 DEF Live, Mine
<1>7. ASSUME UNCHANGED <<requests, late>>, NEW x \in Tokens, NEW u \in Users,
             NEW p \in Passwords, Login(x, u, p)
      PROVE  Goal
  <2>1. CASE x = t
    BY <1>7, <2>1 DEF Login, SessionsInv
  <2>2. CASE x # t
    <3>1. Live(t)' => Live(t)
      BY <1>7, <2>2 DEF Login, Live, LiveIn, Insert, Pruned, Remove
    <3>. QED
      BY <1>7, <3>1 DEF Mine
  <2>. QED
    BY <2>1, <2>2
<1>8. ASSUME UNCHANGED <<requests, late>>,
             Prune \/ \E x \in Tokens : Logout(x) \/ Expire(x)
      PROVE  Goal
  <2>1. CASE Prune
    BY <1>8, <2>1 DEF Prune, Pruned, Remove, Live, LiveIn, Mine
  <2>2. ASSUME NEW x \in Tokens, Logout(x) PROVE Goal
    BY <1>8, <2>2 DEF Logout, Remove, Live, LiveIn, Mine
  <2>3. ASSUME NEW x \in Tokens, Expire(x) PROVE Goal
    <3>1. Live(t)' => Live(t)
      <4>1. CASE x = t
        BY <2>3, <4>1 DEF Expire
      <4>2. CASE x # t
        BY <2>3, <4>2 DEF Expire, Live, LiveIn
      <4>. QED
        BY <4>1, <4>2
    <3>. QED
      BY <1>8, <3>1 DEF Mine
  <2>. QED
    BY <1>8, <2>1, <2>2, <2>3
<1>9. ASSUME NEW s \in Secrets, Restart(s) PROVE Goal
  BY <1>9 DEF Restart, BootAccounts, NoRows, Live, LiveIn, Mine
<1>. QED
  BY <1>1, <1>2, <1>4, <1>5, <1>6, <1>7, <1>8, <1>9, RequestCases

LEMMA AtMost ==
  ASSUME NEW a \in Nat, NEW b \in Nat, NEW c \in Nat, NEW d \in Nat,
         a + b <= c, d <= b
  PROVE  a + d <= c
OBVIOUS

LEMMA RevokedStays ==
  ASSUME RequestsType, AccountsInv, SessionsInv, late \in [Tokens -> Nat],
         RevokedActsOnce, [Next]_vars
  PROVE  RevokedActsOnce'
<1>. SUFFICES ASSUME NEW t \in Tokens
              PROVE  IF Live(t)' THEN late'[t] = 0
                     ELSE late'[t] + Cardinality(Mine(t)') <= Cardinality(Requests)
  BY DEF RevokedActsOnce, Mine
<1>1. IF Live(t) THEN late[t] = 0
      ELSE late[t] + Cardinality(Mine(t)) <= Cardinality(Requests)
  BY DEF RevokedActsOnce, Mine
<1>2. late[t] \in Nat
  OBVIOUS
<1>3. CASE late'[t] = 0
  BY <1>3, NextMineBound, MineBound
<1>4. CASE /\ late'[t] = late[t] /\ (Live(t)' => Live(t))
           /\ Mine(t)' \subseteq Mine(t)
  <2>1. Cardinality(Mine(t)') <= Cardinality(Mine(t))
    BY <1>4, MineBound, FS_Subset
  <2>2. CASE Live(t)'
    BY <1>1, <1>4, <2>2
  <2>3. CASE ~ Live(t)' /\ Live(t)
    BY <1>1, <1>4, <2>3, NextMineBound
  <2>4. CASE ~ Live(t)' /\ ~ Live(t)
    <3>1. late[t] + Cardinality(Mine(t)') <= Cardinality(Requests)
      BY <1>1, <1>2, <2>1, <2>4, MineBound, NextMineBound, AtMost
    <3>. QED
      BY <1>4, <2>4, <3>1
  <2>. QED
    BY <2>2, <2>3, <2>4
<1>5. CASE /\ ~ Live(t) /\ ~ Live(t)' /\ late'[t] = late[t] + 1
           /\ \E r \in Mine(t) : Mine(t)' = Mine(t) \ {r}
  <2>1. Cardinality(Mine(t)') = Cardinality(Mine(t)) - 1
    BY <1>5, MineBound, FS_RemoveElement
  <2>. QED
    BY <1>1, <1>2, <1>5, <2>1, MineBound
<1>. QED
  BY <1>3, <1>4, <1>5, LateCases

-----------------------------------------------------------------------------
(* The inductive invariant.                                                *)

CarriedOut == \A i \in Updates : Carried(i, crashes)

LEMMA CarriedStays ==
  ASSUME BotInv, RequestsType, CarriedOut, crashes \in Nat, [Next]_vars
  PROVE  CarriedOut'
<1>1. ASSUME NEW s \in Secrets, Restart(s) PROVE CarriedOut'
  <2>1. crashes' = crashes + 1 /\ BootBot
    BY <1>1, RestartSteps DEF Restart
  <2>2. \A i \in Updates :
          done'[i] <= crashes + 1 + (IF i <= last' /\ i \notin Waiting' THEN 1 ELSE 0)
    BY <2>1, BotRestarts DEF CarriedOut
  <2>. QED
    BY <2>1, <2>2 DEF CarriedOut, Carried
<1>2. ASSUME \A s \in Secrets : ~ Restart(s) PROVE CarriedOut'
  <2>1. crashes' = crashes /\ BotStep
    BY <1>2, PartSteps, CrashCases DEF RequestsType
  <2>2. \A i \in Updates :
          done'[i] <= crashes + (IF i <= last' /\ i \notin Waiting' THEN 1 ELSE 0)
    BY <2>1, BotCarries DEF CarriedOut
  <2>. QED
    BY <2>1, <2>2 DEF CarriedOut, Carried
<1>. QED
  BY <1>1, <1>2

Inv ==
  /\ AccountsInv
  /\ CatalogInv
  /\ BotInv
  /\ RequestsType
  /\ OtherTypes
  /\ SessionsInv
  /\ RevokedActsOnce
  /\ CarriedOut

LEMMA InitInv == Init => Inv
<1>. SUFFICES ASSUME Init PROVE Inv
  OBVIOUS
<1>1. AccountsInv /\ CatalogInv /\ BotInv /\ CarriedOut
  BY AccountsInit, CatalogInit, BotInit DEF Init, CarriedOut
<1>2. RequestsType
  BY DEF Init, RequestsType
<1>3. OtherTypes
  BY ManagementAssumption DEF Init, OtherTypes, Blank, Logs
<1>4. DOMAIN sessions = {}
  BY DEF Init, InitAccounts, NoRows
<1>5. SessionsInv
  BY <1>4 DEF Init, SessionsInv, SessionsCurrent
<1>6. ASSUME NEW t \in Tokens
      PROVE  ~ Live(t) /\ late[t] = 0 /\ Cardinality(Mine(t)) <= Cardinality(Requests)
  BY <1>4, MineBound DEF Init, Live, LiveIn
<1>7. ASSUME NEW t \in Tokens
      PROVE  late[t] + Cardinality(Mine(t)) <= Cardinality(Requests)
  BY <1>6, MineBound
<1>8. RevokedActsOnce
  BY <1>6, <1>7 DEF RevokedActsOnce, Mine
<1>. QED
  BY <1>1, <1>2, <1>3, <1>5, <1>8 DEF Inv

LEMMA NextInv == Inv /\ [Next]_vars => Inv'
<1>. SUFFICES ASSUME Inv, [Next]_vars PROVE Inv'
  OBVIOUS
<1>. USE DEF Inv
<1>1. AccountsStep /\ CatalogStep
  BY PartSteps, RestartSteps DEF RequestsType
<1>2. BotInv'
  <2>1. CASE \E s \in Secrets : Restart(s)
    BY <2>1, RestartSteps, BotRestarts DEF OtherTypes, CarriedOut
  <2>2. CASE \A s \in Secrets : ~ Restart(s)
    BY <2>2, PartSteps, BotKeeps DEF RequestsType
  <2>. QED
    BY <2>1, <2>2
<1>3. AccountsInv' /\ CatalogInv'
  BY <1>1, AccountsKeep, CatalogKeeps
<1>4. RequestsType' /\ OtherTypes' /\ CarriedOut'
  BY RequestsKeepType, OthersKeepTypes, CarriedStays DEF OtherTypes
<1>5. \A r \in Requests : (requests[r] # Idle)' =>
        /\ requests'[r].token \in drawn'
        /\ requests'[r].token \in DOMAIN sessions' =>
             sessions'[requests'[r].token].user = requests'[r].user
  BY SameUser
<1>6. outdated' \subseteq drawn' /\ \A t \in Tokens \ drawn' : late'[t] = 0
  BY OutdatedDrawn, UndrawnNotLate DEF SessionsInv, OtherTypes
<1>7. SessionsInv'
  BY <1>5, <1>6, StaysCurrent DEF SessionsInv
<1>8. RevokedActsOnce'
  BY RevokedStays DEF OtherTypes
<1>. QED
  BY <1>2, <1>3, <1>4, <1>7, <1>8

LEMMA Invariance == Spec => []Inv
BY InitInv, NextInv, PTL DEF Spec

-----------------------------------------------------------------------------
(* The audit log, table by table.                                          *)

AdminIds == {admins[u].id : u \in DOMAIN admins}

Told(written, log, table, there, seeds, next) ==
  /\ written + seeds = next - 1
  /\ \A i \in 1..(next - 1) : i \in there \/ <<table, i>> \in log

AdminsAre  == Told(Written("admin"), Deleted, "admin", AdminIds, 1, nextAdmin)
GroupsAre  == Told(Written("category"), Deleted, "category", categories, 1, nextCategory)
NoticesAre == Told(Written("notice"), Deleted, "notice", DOMAIN notices, 0, nextNotice)

AllTold == AdminsAre /\ GroupsAre /\ NoticesAre

LEMMA AllToldExplains == AllTold => AuditExplains
BY DEF AllTold, AdminsAre, GroupsAre, NoticesAre, Told, AuditExplains, AdminIds, Kinds

LEMMA ToldKept ==
  ASSUME NEW written, NEW log, NEW more, NEW table, NEW there, NEW after,
         NEW seeds, NEW next,
         Told(written, log, table, there, seeds, next), log \subseteq more,
         \A i \in there : i \in after \/ <<table, i>> \in more
  PROVE  Told(written, more, table, after, seeds, next)
BY DEF Told

LEMMA ToldNew ==
  ASSUME NEW written \in Nat, NEW log, NEW more, NEW table, NEW there, NEW after,
         NEW seeds \in Nat, NEW next \in Nat,
         Told(written, log, table, there, seeds, next), log \subseteq more,
         there \subseteq after, next \in after
  PROVE  Told(written + 1, more, table, after, seeds, next + 1)
<1>1. written + 1 + seeds = next + 1 - 1
  BY DEF Told
<1>2. ASSUME NEW i \in 1..(next + 1 - 1) PROVE i \in after \/ <<table, i>> \in more
  <2>1. CASE i = next
    BY <2>1
  <2>2. CASE i # next
    <3>1. i \in 1..(next - 1)
      BY <2>2
    <3>. QED
      BY <3>1 DEF Told
  <2>. QED
    BY <2>1, <2>2
<1>. QED
  BY <1>1, <1>2 DEF Told

LEMMA EntryWritten ==
  ASSUME OtherTypes, NEW e \in Entries, Audited(e), NEW k \in Kinds
  PROVE  /\ Written(k) \in Nat
         /\ Written(k)' = IF k \in e.created THEN Written(k) + 1 ELSE Written(k)
         /\ Deleted' = Deleted \cup e.deleted
<1>1. audit.created[k] \in Nat /\ unlogged.created[k] \in Nat
  BY DEF OtherTypes, Logs
<1>2. CASE audit' = WithEntry(audit, e) /\ unlogged' = unlogged
  <2>1. /\ audit'.created[k] = audit.created[k] + (IF k \in e.created THEN 1 ELSE 0)
        /\ audit'.deleted = audit.deleted \cup e.deleted
    BY <1>2 DEF WithEntry
  <2>. QED
    BY <1>1, <1>2, <2>1 DEF Written, Deleted
<1>3. CASE unlogged' = WithEntry(unlogged, e) /\ audit' = audit
  <2>1. /\ unlogged'.created[k] = unlogged.created[k] + (IF k \in e.created THEN 1 ELSE 0)
        /\ unlogged'.deleted = unlogged.deleted \cup e.deleted
    BY <1>3 DEF WithEntry
  <2>. QED
    BY <1>1, <1>3, <2>1 DEF Written, Deleted
<1>. QED
  BY <1>2, <1>3 DEF Audited

(* A creation's entry is written when it creates, and a deletion's stays.  *)
LEMMA LogSteps ==
  ASSUME OtherTypes, AccountsInv, CatalogInv, [Next]_vars, NEW k \in Kinds
  PROVE  /\ Written(k) \in Nat
         /\ Written(k)' = Written(k) \/ Creates(k)
         /\ Deleted \subseteq Deleted'
<1>1. Written(k) \in Nat
  BY DEF OtherTypes, Logs, Written
<1>2. CASE UNCHANGED <<audit, unlogged>>
  BY <1>1, <1>2 DEF Written, Deleted
<1>3. CASE Audited(Other)
  <2>1. k \notin Other.created
    BY DEF Other
  <2>. QED
    BY <1>3, <2>1, EntryTypes, EntryWritten
<1>4. ASSUME NEW l \in Kinds, Creates(l), Audited(Creation(l))
      PROVE  (Written(k)' = Written(k) \/ Creates(k)) /\ Deleted \subseteq Deleted'
  <2>1. Creation(l).created = {l}
    BY DEF Creation
  <2>. QED
    BY <1>4, <2>1, EntryTypes, EntryWritten
<1>5. ASSUME NEW l \in Kinds, NEW i \in Nat, Audited(Deletion(l, i))
      PROVE  Written(k)' = Written(k) /\ Deleted \subseteq Deleted'
  <2>1. k \notin Deletion(l, i).created
    BY DEF Deletion
  <2>. QED
    BY <1>5, <2>1, EntryTypes, EntryWritten
<1>. QED
  BY <1>1, <1>2, <1>3, <1>4, <1>5, EntryCases

LEMMA CreationWritten ==
  ASSUME OtherTypes, NEW k \in Kinds, Audited(Creation(k))
  PROVE  Written(k)' = Written(k) + 1
<1>1. k \in Creation(k).created
  BY DEF Creation
<1>. QED
  BY <1>1, EntryTypes, EntryWritten

LEMMA DeletionWritten ==
  ASSUME OtherTypes, NEW k \in Kinds, NEW i \in Nat, Audited(Deletion(k, i))
  PROVE  <<k, i>> \in Deleted'
<1>1. <<k, i>> \in Deletion(k, i).deleted
  BY DEF Deletion
<1>. QED
  BY <1>1, EntryTypes, EntryWritten

LEMMA AdminSteps ==
  ASSUME [Next]_vars
  PROVE  \/ \E r \in Requests : \/ CreatesAdmin(r) \/ UpdatesAdmin(r)
                                \/ ChangesPassword(r)
         \/ \E t \in Tokens, i \in 1..MaxAdmins : DeletesAdmin(t, i)
         \/ UNCHANGED <<admins, nextAdmin>>
<1>1. CASE UNCHANGED vars
  BY <1>1 DEF vars, accountVars
<1>2. CASE \E r \in Requests : Request(r)
  BY <1>2 DEF Request, Admit, Refuse, ManagesLinks, CreatesCategory, Restores,
     CreatesNotice, TogglesNotice, accountVars
<1>3. CASE \E t \in Tokens : Visit(t)
  BY <1>3 DEF Visit, LogsIn, Ends, OnSessions, Login, Logout, Expire,
     DeletesLink, DeletesCategory, Downloads, DeletesNotice, accountVars
<1>4. CASE (\E u \in Uuids : LinkExpires(u)) \/ Robot
  BY <1>4 DEF LinkExpires, Robot, Asks, Polls, PollsInVain, Obeys, Fails, OnBot,
     accountVars
<1>5. CASE Prunes \/ \E s \in Secrets : Restart(s)
  BY <1>5 DEF Prunes, OnSessions, Prune, Restart, BootAccounts
<1>. QED
  BY <1>1, <1>2, <1>3, <1>4, <1>5 DEF Next

LEMMA CategorySteps ==
  ASSUME [Next]_vars
  PROVE  \/ \E r \in Requests : CreatesCategory(r)
         \/ \E t \in Tokens, c \in Groups : DeletesCategory(t, c)
         \/ UNCHANGED <<categories, nextCategory>>
<1>1. CASE UNCHANGED vars
  BY <1>1 DEF vars, catalogVars
<1>2. CASE \E r \in Requests : Request(r)
  BY <1>2 DEF Request, Admit, Refuse, CreatesAdmin, UpdatesAdmin,
     ChangesPassword, ManagesLinks, CreateLink, AddLink, PatchLink, Restores,
     RestoreBackup, CreatesNotice, AddNotice, TogglesNotice, ToggleNotice,
     catalogVars
<1>3. CASE \E t \in Tokens : Visit(t)
  BY <1>3 DEF Visit, LogsIn, Ends, OnSessions, DeletesAdmin, DeletesLink,
     DeleteLink, Downloads, DownloadBackup, DeletesNotice, DeleteNotice, catalogVars
<1>4. CASE \E u \in Uuids : LinkExpires(u)
  BY <1>4 DEF LinkExpires, ExpireLink
<1>5. CASE Robot
  BY <1>5 DEF Robot, Asks, Polls, PollsInVain, Obeys, AddLink, DeleteLink, Fails,
     OnBot, catalogVars
<1>6. CASE Prunes \/ \E s \in Secrets : Restart(s)
  BY <1>6 DEF Prunes, OnSessions, Restart, BootCatalog, catalogVars
<1>. QED
  BY <1>1, <1>2, <1>3, <1>4, <1>5, <1>6 DEF Next

LEMMA NoticeSteps ==
  ASSUME [Next]_vars
  PROVE  \/ \E r \in Requests : CreatesNotice(r)
         \/ \E t \in Tokens, i \in 1..MaxNotice : DeletesNotice(t, i)
         \/ nextNotice' = nextNotice /\ DOMAIN notices' = DOMAIN notices
<1>1. CASE UNCHANGED vars
  BY <1>1 DEF vars, catalogVars, noticeVars
<1>2. CASE \E r \in Requests : Request(r)
  BY <1>2 DEF Request, Admit, Refuse, CreatesAdmin, UpdatesAdmin,
     ChangesPassword, ManagesLinks, CreateLink, AddLink, PatchLink, Restores,
     RestoreBackup, CreatesCategory, CreateCategory, TogglesNotice, ToggleNotice,
     catalogVars, noticeVars
<1>3. CASE \E t \in Tokens : Visit(t)
  BY <1>3 DEF Visit, LogsIn, Ends, OnSessions, DeletesAdmin, DeletesLink,
     DeleteLink, DeletesCategory, DeleteCategory, Downloads, DownloadBackup,
     catalogVars, noticeVars
<1>4. CASE \E u \in Uuids : LinkExpires(u)
  BY <1>4 DEF LinkExpires, ExpireLink, noticeVars
<1>5. CASE Robot
  BY <1>5 DEF Robot, Asks, Polls, PollsInVain, Obeys, AddLink, DeleteLink, Fails,
     OnBot, catalogVars, noticeVars
<1>6. CASE Prunes \/ \E s \in Secrets : Restart(s)
  BY <1>6 DEF Prunes, OnSessions, Restart, BootCatalog, catalogVars, noticeVars
<1>. QED
  BY <1>1, <1>2, <1>3, <1>4, <1>5, <1>6 DEF Next

LEMMA AdminsTold ==
  ASSUME AccountsInv, CatalogInv, OtherTypes, RequestsType, [Next]_vars, AdminsAre
  PROVE  AdminsAre'
<1>. USE DEF AccountsInv, AccountsTypeOK
<1>1. /\ "admin" \in Kinds /\ nextAdmin \in Nat
      /\ \A i \in 1..MaxAdmins : i \in Nat
  BY AccountsAssumption DEF Kinds
<1>7. Deleted \subseteq Deleted' /\ Written("admin") \in Nat
  BY <1>1, LogSteps
<1>8. ASSUME NEW r \in Requests, CreatesAdmin(r) PROVE nextAdmin' = nextAdmin + 1
  BY <1>8 DEF CreatesAdmin, CreateAdmin
<1>9. ASSUME nextAdmin' = nextAdmin PROVE Written("admin")' = Written("admin")
  <2>1. Written("admin")' = Written("admin") \/ Creates("admin")
    BY <1>1, LogSteps
  <2>. QED
    BY <1>1, <1>8, <1>9, <2>1 DEF Creates
<1>2. ASSUME NEW r \in Requests, CreatesAdmin(r)
      PROVE  AdminsAre'
  <2>1. PICK u \in Users, p \in Passwords, may \in Grants : CreateAdmin(u, p, may)
    BY <1>2 DEF CreatesAdmin
  <2>2. /\ nextAdmin' = nextAdmin + 1 /\ u \notin DOMAIN admins
        /\ DOMAIN admins' = DOMAIN admins \cup {u} /\ admins'[u].id = nextAdmin
        /\ \A v \in DOMAIN admins : admins'[v] = admins[v]
    BY <2>1 DEF CreateAdmin, Insert
  <2>3. AdminIds \subseteq AdminIds' /\ nextAdmin \in AdminIds'
    BY <2>2 DEF AdminIds
  <2>4. Written("admin")' = Written("admin") + 1
    BY <1>1, <1>2, CreationWritten DEF CreatesAdmin
  <2>5. Told(Written("admin") + 1, Deleted', "admin", AdminIds', 1, nextAdmin + 1)
    BY <1>1, <1>7, <2>3, ToldNew DEF AdminsAre
  <2>. QED
    BY <2>2, <2>4, <2>5 DEF AdminsAre
<1>3. ASSUME NEW t \in Tokens, NEW i \in 1..MaxAdmins, DeletesAdmin(t, i)
      PROVE  AdminsAre'
  <2>1. /\ nextAdmin' = nextAdmin /\ DOMAIN admins' = DOMAIN admins \ Named(i)
        /\ \A v \in DOMAIN admins' : admins'[v] = admins[v]
    BY <1>3 DEF DeletesAdmin, DeleteAdmin, Remove
  <2>2. \A n \in AdminIds : n \in AdminIds' \/ n = i
    BY <2>1 DEF AdminIds, Named
  <2>3. <<"admin", i>> \in Deleted'
    BY <1>1, <1>3, DeletionWritten DEF DeletesAdmin
  <2>. QED
    BY <1>7, <1>9, <2>1, <2>2, <2>3, ToldKept DEF AdminsAre
<1>4. ASSUME nextAdmin' = nextAdmin, DOMAIN admins' = DOMAIN admins,
             \A u \in DOMAIN admins : admins'[u].id = admins[u].id
      PROVE  AdminsAre'
  <2>1. AdminIds \subseteq AdminIds'
    BY <1>4 DEF AdminIds
  <2>. QED
    BY <1>4, <1>7, <1>9, <2>1, ToldKept DEF AdminsAre
<1>5. ASSUME NEW r \in Requests, UpdatesAdmin(r)
      PROVE  AdminsAre'
  <2>1. PICK i \in 1..MaxAdmins, body \in AdminBodies : UpdateAdmin(i, body)
    BY <1>5 DEF UpdatesAdmin
  <2>2. ASSUME NEW u \in DOMAIN admins PROVE admins'[u].id = admins[u].id
    <3>1. admins[u] \in Accounts
      BY DEF IsTable
    <3>2. admins'[u] = Change(admins[u], body) \/ admins'[u] = admins[u]
      BY <2>1 DEF UpdateAdmin
    <3>. QED
      BY <3>1, <3>2, ChangedAccount
  <2>. QED
    BY <1>4, <2>1, <2>2 DEF UpdateAdmin
<1>6. ASSUME NEW r \in Requests, ChangesPassword(r)
      PROVE  AdminsAre'
  <2>1. PICK p \in Passwords, q \in Passwords :
          ChangePassword(requests[r].token, requests[r].user, p, q)
    BY <1>6 DEF ChangesPassword
  <2>2. /\ DOMAIN admins' = DOMAIN admins /\ nextAdmin' = nextAdmin
        /\ \A v \in DOMAIN admins :
             \/ admins'[v] = admins[v]
             \/ admins'[v] = [admins[v] EXCEPT !.hash = Hash(q)]
    BY <2>1 DEF ChangePassword, Repassword
  <2>3. ASSUME NEW v \in DOMAIN admins PROVE admins'[v].id = admins[v].id
    BY <2>2 DEF IsTable, Accounts
  <2>. QED
    BY <1>4, <2>2, <2>3
<1>. QED
  BY <1>2, <1>3, <1>4, <1>5, <1>6, AdminSteps

LEMMA CategoriesTold ==
  ASSUME AccountsInv, CatalogInv, OtherTypes, [Next]_vars, GroupsAre
  PROVE  GroupsAre'
<1>1. /\ "category" \in Kinds /\ nextCategory \in Nat
      /\ \A i \in Groups : i \in Nat
  BY CatalogAssumption DEF CatalogInv, CatalogTypeOK, Kinds, Groups
<1>5. Deleted \subseteq Deleted' /\ Written("category") \in Nat
  BY <1>1, LogSteps
<1>6. ASSUME NEW r \in Requests, CreatesCategory(r) PROVE nextCategory' = nextCategory + 1
  BY <1>6 DEF CreatesCategory, CreateCategory
<1>7. ASSUME nextCategory' = nextCategory PROVE Written("category")' = Written("category")
  <2>1. Written("category")' = Written("category") \/ Creates("category")
    BY <1>1, LogSteps
  <2>. QED
    BY <1>1, <1>6, <1>7, <2>1 DEF Creates
<1>2. ASSUME NEW r \in Requests, CreatesCategory(r)
      PROVE  GroupsAre'
  <2>1. nextCategory' = nextCategory + 1 /\ categories' = categories \cup {nextCategory}
    BY <1>2 DEF CreatesCategory, CreateCategory
  <2>2. Written("category")' = Written("category") + 1
    BY <1>1, <1>2, CreationWritten DEF CreatesCategory
  <2>. QED
    BY <1>1, <1>5, <2>1, <2>2, ToldNew DEF GroupsAre
<1>3. ASSUME NEW t \in Tokens, NEW c \in Groups, DeletesCategory(t, c)
      PROVE  GroupsAre'
  <2>1. nextCategory' = nextCategory /\ categories' = categories \ {c}
    BY <1>3 DEF DeletesCategory, DeleteCategory
  <2>2. <<"category", c>> \in Deleted'
    BY <1>1, <1>3, DeletionWritten DEF DeletesCategory
  <2>. QED
    BY <1>5, <1>7, <2>1, <2>2, ToldKept DEF GroupsAre
<1>4. ASSUME UNCHANGED <<categories, nextCategory>>
      PROVE  GroupsAre'
  BY <1>4, <1>5, <1>7, ToldKept DEF GroupsAre
<1>. QED
  BY <1>2, <1>3, <1>4, CategorySteps

LEMMA NoticesTold ==
  ASSUME AccountsInv, CatalogInv, OtherTypes, [Next]_vars, NoticesAre
  PROVE  NoticesAre'
<1>1. /\ "notice" \in Kinds /\ nextNotice \in Nat
      /\ \A i \in 1..MaxNotice : i \in Nat
  BY CatalogAssumption DEF CatalogInv, CatalogTypeOK, Kinds, Groups
<1>5. Deleted \subseteq Deleted' /\ Written("notice") \in Nat
  BY <1>1, LogSteps
<1>6. ASSUME NEW r \in Requests, CreatesNotice(r) PROVE nextNotice' = nextNotice + 1
  BY <1>6 DEF CreatesNotice, AddNotice
<1>7. ASSUME nextNotice' = nextNotice PROVE Written("notice")' = Written("notice")
  <2>1. Written("notice")' = Written("notice") \/ Creates("notice")
    BY <1>1, LogSteps
  <2>. QED
    BY <1>1, <1>6, <1>7, <2>1 DEF Creates
<1>2. ASSUME NEW r \in Requests, CreatesNotice(r)
      PROVE  NoticesAre'
  <2>1. nextNotice' = nextNotice + 1 /\ DOMAIN notices' = DOMAIN notices \cup {nextNotice}
    BY <1>2 DEF CreatesNotice, AddNotice, Insert
  <2>2. Written("notice")' = Written("notice") + 1
    BY <1>1, <1>2, CreationWritten DEF CreatesNotice
  <2>. QED
    BY <1>1, <1>5, <2>1, <2>2, ToldNew DEF NoticesAre
<1>3. ASSUME NEW t \in Tokens, NEW i \in 1..MaxNotice, DeletesNotice(t, i)
      PROVE  NoticesAre'
  <2>1. nextNotice' = nextNotice /\ DOMAIN notices' = DOMAIN notices \ {i}
    BY <1>3 DEF DeletesNotice, DeleteNotice, Remove
  <2>2. <<"notice", i>> \in Deleted'
    BY <1>1, <1>3, DeletionWritten DEF DeletesNotice
  <2>. QED
    BY <1>5, <1>7, <2>1, <2>2, ToldKept DEF NoticesAre
<1>4. ASSUME nextNotice' = nextNotice, DOMAIN notices' = DOMAIN notices
      PROVE  NoticesAre'
  BY <1>4, <1>5, <1>7, ToldKept DEF NoticesAre
<1>. QED
  BY <1>2, <1>3, <1>4, NoticeSteps

LEMMA NextTold == Inv /\ AllTold /\ [Next]_vars => AllTold'
BY AdminsTold, CategoriesTold, NoticesTold DEF Inv, AllTold

LEMMA InitTold == Init => AllTold
<1>. SUFFICES ASSUME Init PROVE AllTold
  OBVIOUS
<1>1. nextAdmin = 2 /\ 1 \in AdminIds
  BY DEF Init, InitAccounts, Insert, NoRows, AdminIds
<1>2. nextCategory = 2 /\ 1 \in categories /\ nextNotice = 1
  BY DEF Init, InitCatalog
<1>3. \A i \in 1..(2 - 1) : i = 1
  OBVIOUS
<1>5. \A k \in Kinds : Written(k) = 0
  BY DEF Init, Blank, Written
<1>6. "admin" \in Kinds /\ "category" \in Kinds /\ "notice" \in Kinds
  BY DEF Kinds
<1>4. 1..(1 - 1) = {}
  OBVIOUS
<1>. QED
  BY <1>1, <1>2, <1>3, <1>4, <1>5, <1>6 DEF AllTold, AdminsAre, GroupsAre, NoticesAre, Told

-----------------------------------------------------------------------------
(* Whose request changes a password.                                       *)

LEMMA ServedEnds ==
  ASSUME RequestsType, NEW r \in Requests, NEW for \in Endpoints, Served(r, for)
  PROVE  requests[r] # Idle /\ requests'[r] = Idle /\ requests[r].for = for
BY DEF RequestsType, Served

LEMMA PasswordStep ==
  ASSUME Inv, [Next]_vars, NEW u \in DOMAIN admins \cap DOMAIN admins',
         admins'[u].hash # admins[u].hash
  PROVE  \E r \in Requests :
           /\ requests[r] # Idle /\ requests'[r] = Idle
           /\ \/ requests[r].for = "password" /\ requests[r].user = u
              \/ requests[r].for = "manage_admins"
              \/ u = Root /\ requests[r].user \notin DOMAIN admins
<1>. DEFINE Goal ==
       \E r \in Requests :
         /\ requests[r] # Idle /\ requests'[r] = Idle
         /\ \/ requests[r].for = "password" /\ requests[r].user = u
            \/ requests[r].for = "manage_admins"
            \/ u = Root /\ requests[r].user \notin DOMAIN admins
<1>0. RequestsType
  BY DEF Inv
<1>1. ASSUME NEW r \in Requests, CreatesAdmin(r) PROVE Goal
  BY <1>1 DEF CreatesAdmin, CreateAdmin, Insert
<1>2. ASSUME NEW r \in Requests, UpdatesAdmin(r) PROVE Goal
  BY <1>0, <1>2, ServedEnds DEF UpdatesAdmin, Endpoints
<1>3. ASSUME NEW r \in Requests, ChangesPassword(r) PROVE Goal
  <2>1. requests[r] # Idle /\ requests'[r] = Idle /\ requests[r].for = "password"
    BY <1>0, <1>3, ServedEnds DEF ChangesPassword, Endpoints
  <2>2. PICK p \in Passwords, q \in Passwords :
          ChangePassword(requests[r].token, requests[r].user, p, q)
    BY <1>3 DEF ChangesPassword
  <2>3. CASE requests[r].user \in DOMAIN admins
    <3>1. admins' = [admins EXCEPT ![requests[r].user].hash = Hash(q)]
      BY <2>2, <2>3 DEF ChangePassword, Repassword
    <3>2. u = requests[r].user
      BY <3>1
    <3>. QED
      BY <2>1, <3>2
  <2>4. CASE requests[r].user \notin DOMAIN admins
    <3>1. admins' = [admins EXCEPT ![Root].hash = Hash(q)]
      BY <2>2, <2>4 DEF ChangePassword, Repassword
    <3>2. u = Root
      BY <3>1
    <3>. QED
      BY <2>1, <2>4, <3>2
  <2>. QED
    BY <2>3, <2>4
<1>4. ASSUME NEW t \in Tokens, NEW i \in 1..MaxAdmins, DeletesAdmin(t, i) PROVE Goal
  BY <1>4 DEF DeletesAdmin, DeleteAdmin, Remove
<1>. QED
  BY <1>1, <1>2, <1>3, <1>4, AdminSteps

-----------------------------------------------------------------------------
(* Theorems.                                                               *)

(* Every variable has its type: an account keeps its row and its id, the   *)
(* root is never deleted, and ids are below the next one (db.py:574-658).  *)
THEOREM TypeCorrect == Spec => []TypeOK
<1>1. Inv => TypeOK
  BY DEF Inv, TypeOK, AccountsInv, CatalogInv, BotInv, RequestsType, OtherTypes,
     SessionsInv, Entries
<1>. QED
  BY <1>1, Invariance, PTL

(* A session that has ended does no more than what its requests, under way *)
(* when it ended, were let in for: main.py checks before it awaits a body. *)
THEOREM RevokedLittle == Spec => []RevokedActsOnce
<1>1. Inv => RevokedActsOnce
  BY DEF Inv
<1>. QED
  BY <1>1, Invariance, PTL

(* No session outlives the password or the permissions it was made for, by *)
(* whatever way they changed except an administrator's (main.py:240-247).  *)
THEOREM CurrentSessions == Spec => []SessionsCurrent
<1>1. Inv => SessionsCurrent
  BY DEF Inv, SessionsInv
<1>. QED
  BY <1>1, Invariance, PTL

(* The cache has the links of the table in their groups (db.py:553-567,    *)
(* main.py:548-604).                                                       *)
THEOREM CacheGroups == Spec => []GroupsAgree
<1>1. Inv => GroupsAgree
  BY DEF Inv, CatalogInv
<1>. QED
  BY <1>1, Invariance, PTL

(* No deletion of a category leaves links in it, whenever they came there. *)
THEOREM NoneStranded == Spec => []NoStrandedLinks
<1>1. Inv => NoStrandedLinks
  BY DEF Inv, CatalogInv
<1>. QED
  BY <1>1, Invariance, PTL

(* Whatever links come and go, and however their fields are changed, what  *)
(* a subscription hands out for each has no endpoint twice, one that the   *)
(* gateway serves, and all that the profiles have (protocols.py:466-713).  *)
THEOREM BundlesAreSound == Spec => []BundleSound
<1>1. Inv => BundleSound
  BY BundlesSound DEF Inv, CatalogInv
<1>. QED
  BY <1>1, Invariance, PTL

(* What the bot confirmed to Telegram was carried out, waits, raised, or   *)
(* was lost with a process (bot.py:242-270).                               *)
THEOREM OnlySoMuchLost == Spec => []NothingElseLost
<1>1. Inv => NothingElseLost
  BY DEF Inv, BotInv
<1>. QED
  BY <1>1, Invariance, PTL

(* A command is carried out at most once in the life of a process.         *)
THEOREM OncePerLife == Spec => []CommandsOncePerLife
<1>1. Inv => CommandsOncePerLife
  <2>. SUFFICES ASSUME Inv, NEW i \in Updates PROVE done[i] <= 1 + crashes
    BY DEF CommandsOncePerLife
  <2>1. done[i] \in Nat /\ crashes \in Nat
    BY DEF Inv, BotInv, BotTypeOK, OtherTypes
  <2>2. done[i] <= crashes + 1 \/ done[i] <= crashes + 0
    BY DEF Inv, CarriedOut, Carried
  <2>. QED
    BY <2>1, <2>2
<1>. QED
  BY <1>1, Invariance, PTL

(* The audit log and the entries that were lost account for every row that *)
(* came or went in the tables that number theirs (db.py:711-722).          *)
THEOREM LogExplains == Spec => []AuditExplains
<1>1. Init => Inv /\ AllTold
  BY InitInv, InitTold
<1>2. (Inv /\ AllTold) /\ [Next]_vars => (Inv /\ AllTold)'
  BY NextInv, NextTold
<1>3. Inv /\ AllTold => AuditExplains
  BY AllToldExplains
<1>. QED
  BY <1>1, <1>2, <1>3, PTL DEF Spec

(* A password changes by its user's request, by an administrator's, or,    *)
(* the root's, by the session of a deleted account; a start keeps it       *)
(* (main.py:230-244, db.py:144-160).                                       *)
THEOREM PasswordGuarded == Spec => PasswordOnlyBy
<1>1. ASSUME Inv, [Next]_vars
      PROVE  \A u \in DOMAIN admins \cap DOMAIN admins' :
               admins'[u].id = admins[u].id /\ admins'[u].hash # admins[u].hash =>
                 \E r \in Requests :
                   LET q == requests[r] IN
                   /\ q # Idle /\ requests'[r] = Idle
                   /\ \/ q.for = "password" /\ q.user = u
                      \/ q.for = "manage_admins"
                      \/ u = Root /\ q.user \notin DOMAIN admins
  BY <1>1, PasswordStep
<1>. QED
  BY <1>1, Invariance, PTL DEF Spec, PasswordOnlyBy

(* The links of a category that goes are in the default mix from then on,  *)
(* and no other mix changes (db.py:553-567, sub.py:77-106).                *)
THEOREM MixesMove == Spec => MixMoves
<1>1. ASSUME Inv, [Next]_vars, NEW c \in categories \ categories'
      PROVE  /\ Mix(c)' = {} /\ Mix(1)' = Mix(1) \cup Mix(c)
             /\ \A g \in Groups \ {1, c} : Mix(g)' = Mix(g)
  <2>1. CatalogStep
    BY <1>1, PartSteps, RestartSteps DEF Inv, RequestsType
  <2>. QED
    BY <1>1, <2>1, OnlyDeleteCategory, DeletedMix DEF Inv
<1>2. ASSUME Inv, [Next]_vars
      PROVE  \A c \in categories \ categories' :
               /\ Mix(c)' = {} /\ Mix(1)' = Mix(1) \cup Mix(c)
               /\ \A g \in Groups \ {1, c} : Mix(g)' = Mix(g)
  BY <1>1, <1>2
<1>. QED
  BY <1>2, Invariance, PTL DEF Spec, MixMoves
=============================================================================
