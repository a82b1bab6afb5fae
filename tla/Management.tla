----------------------------- MODULE Management -----------------------------
(***************************************************************************)
(* The panel at work: requests of administrators on the accounts and on    *)
(* the catalog, the bot's commands, the audit log, kills and starts.       *)
(*                                                                         *)
(* A request is let in by its session, waits for its body, and is carried  *)
(* out; in between anything may happen to its session, to its user, and to *)
(* what it is about.  What it does is in the tables before the entry is    *)
(* written in the audit log.  DELETE requests and downloads have no body   *)
(* and no such wait.                                                       *)
(***************************************************************************)
EXTENDS Accounts, Catalog, Bot

CONSTANTS
  Requests,  \* requests with a body, under way at one time
  Commands,  \* what the updates ask for: a new link, or to delete one
  Loads      \* bounds of a behaviour, one of which it chooses

Areas == {"admins", "updates", "passwords", "links", "expiry", "categories",
          "backups", "notices", "bot"}

(* The areas requests are about, the logins there are, how many requests   *)
(* take effect, and how many starts there are.                             *)
LoadSet == [areas : SUBSET Areas, logins : SUBSET Tokens,
            ops : Nat, restarts : Nat]

ASSUME ManagementAssumption ==
  /\ IsFiniteSet(Requests) /\ Loads \subseteq LoadSet
  /\ Commands \in [Updates -> {"new"} \cup Uuids]

VARIABLES
  requests,  \* the requests that wait for their body
  running,   \* FALSE when the process was killed
  audit,     \* audit_logs: what its entries tell, see Logs
  unlogged,  \* history: entries that could not be written, or not in time
  outdated,  \* history: sessions whose account an administrator changed
  late,      \* history: what requests did after their session had ended
  crashes,   \* history: how often the process ended
  load       \* the bounds, and what is left of them

requestVars == <<requests, late, outdated>>
auditVars   == <<audit, unlogged>>
vars == <<accountVars, catalogVars, botVars, requestVars, running, auditVars,
          crashes, load>>

Idle == [at |-> "idle"]

Endpoints == {"manage_admins", "manage_users", "all", "password"}

Pending == [at : {"body"}, token : Tokens, user : Users,
            may : SUBSET Permissions, for : Endpoints]

(* What entries tell of the tables that number their rows: that of a       *)
(* creation has the row's name, which need not be unique, so the creations *)
(* can be counted; that of a deletion has the id.                          *)
Kinds == {"admin", "category", "notice"}
Logs  == [created : [Kinds -> Nat], deleted : SUBSET (Kinds \X Nat)]
Blank == [created |-> [k \in Kinds |-> 0], deleted |-> {}]

Creation(k)    == [created |-> {k}, deleted |-> {}]
Deletion(k, i) == [created |-> {}, deleted |-> {<<k, i>>}]
Other          == [created |-> {}, deleted |-> {}]

WithEntry(log, e) ==
  [created |-> [k \in Kinds |-> log.created[k] + (IF k \in e.created THEN 1 ELSE 0)],
   deleted |-> log.deleted \cup e.deleted]

Init ==
  /\ InitAccounts /\ InitCatalog /\ InitBot
  /\ requests = [r \in Requests |-> Idle]
  /\ running = TRUE
  /\ audit = Blank /\ unlogged = Blank
  /\ outdated = {}
  /\ late = [t \in Tokens |-> 0]
  /\ crashes = 0
  /\ load \in Loads

In(area) == running /\ area \in load.areas

-----------------------------------------------------------------------------
(* Sessions and requests.                                                  *)

OnSessions(A) ==
  A /\ UNCHANGED <<catalogVars, botVars, requestVars, running, auditVars,
                   crashes, load>>

LogsIn(t, u, p) == running /\ t \in load.logins /\ OnSessions(Login(t, u, p))

(* Logging out, the seven days, and the maintenance task. *)
Ends(t) == In("passwords") /\ OnSessions(Logout(t) \/ Expire(t))

Prunes == In("passwords") /\ Pruned # sessions /\ OnSessions(Prune)

(* Mutant of Authorised: the seven days are not looked at. *)
AuthorisedForGood(t, for) ==
  t \in DOMAIN sessions /\ (for = "password" \/ Allows(sessions[t].may, for))

(* require_auth and require_permission. *)
Authorised(t, for) ==
  Live(t) /\ (for = "password" \/ Allows(sessions[t].may, for))

Admit(r, t, for) ==
  /\ running
  /\ requests[r] = Idle
  /\ Authorised(t, for)
  /\ requests' = [requests EXCEPT ![r] =
       [at |-> "body", token |-> t, user |-> sessions[t].user,
        may |-> sessions[t].may, for |-> for]]
  /\ UNCHANGED <<accountVars, catalogVars, botVars, running, auditVars,
                 outdated, late, crashes, load>>

(* The body is missing or bad, or names what is not, or already, there. *)
Refuse(r) ==
  /\ running
  /\ requests[r] # Idle
  /\ requests' = [requests EXCEPT ![r] = Idle]
  /\ UNCHANGED <<accountVars, catalogVars, botVars, running, auditVars,
                 outdated, late, crashes, load>>

Spend == load.ops > 0 /\ load' = [load EXCEPT !.ops = @ - 1]

(* Mutant of Audited: nothing is written. *)
AuditedNot(entry) == UNCHANGED <<audit, unlogged, running>>

(* add_audit_log, after the effect: it swallows every exception; and the   *)
(* process may be killed before it, if the bounds have a start to follow.  *)
Audited(entry) ==
  \/ audit' = WithEntry(audit, entry) /\ UNCHANGED <<unlogged, running>>
  \/ /\ unlogged' = WithEntry(unlogged, entry)
     /\ running' = TRUE \/ (load.restarts > 0 /\ running' = FALSE)
     /\ UNCHANGED audit

(* A request that has its body is carried out to its end. *)
Served(r, for) ==
  LET t == requests[r].token IN
  /\ running
  /\ requests[r] # Idle /\ requests[r].for = for
  /\ Spend
  /\ requests' = [requests EXCEPT ![r] = Idle]
  /\ late' = [late EXCEPT ![t] = IF Live(t) \/ LiveIn(sessions', t) THEN 0 ELSE @ + 1]
  /\ UNCHANGED <<botVars, crashes>>

(* A request without a body. *)
AtOnce(t, for) ==
  /\ running
  /\ Authorised(t, for)
  /\ Spend
  /\ UNCHANGED <<botVars, requests, late, crashes>>

Outdate(i) ==
  outdated' = outdated \cup {t \in DOMAIN sessions : sessions[t].user \in Named(i)}

-----------------------------------------------------------------------------
(* Accounts.                                                               *)

CreatesAdmin(r) ==
  /\ In("admins")
  /\ \E u \in Users, p \in Passwords, may \in Grants : CreateAdmin(u, p, may)
  /\ Audited(Creation("admin"))
  /\ UNCHANGED <<catalogVars, outdated>>
  /\ Served(r, "manage_admins")

UpdatesAdmin(r) ==
  /\ In("updates")
  /\ \E i \in 1..MaxAdmins, body \in AdminBodies : UpdateAdmin(i, body) /\ Outdate(i)
  /\ Audited(Other)
  /\ UNCHANGED catalogVars
  /\ Served(r, "manage_admins")

DeletesAdmin(t, i) ==
  /\ In("admins")
  /\ DeleteAdmin(i)
  /\ Outdate(i)
  /\ Audited(Deletion("admin", i))
  /\ UNCHANGED catalogVars
  /\ AtOnce(t, "manage_admins")

ChangesPassword(r) ==
  /\ In("passwords")
  /\ requests[r] # Idle
  /\ \E current, new \in Passwords :
       ChangePassword(requests[r].token, requests[r].user, current, new)
  /\ Audited(Other)
  /\ UNCHANGED <<catalogVars, outdated>>
  /\ Served(r, "password")

-----------------------------------------------------------------------------
(* Links, categories, announcements.                                       *)

ManagesLinks(r) ==
  /\ In("links")
  /\ \E u \in Uuids, body \in Bodies : CreateLink(u, body) \/ PatchLink(u, body)
  /\ Audited(Other)
  /\ UNCHANGED <<accountVars, outdated>>
  /\ Served(r, "manage_users")

CreatesCategory(r) ==
  /\ In("categories")
  /\ CreateCategory
  /\ Audited(Creation("category"))
  /\ UNCHANGED <<accountVars, outdated>>
  /\ Served(r, "manage_users")

Restores(r) ==
  /\ In("backups")
  /\ \E went, came \in SUBSET Uuids : RestoreBackup(went, came)
  /\ Audited(Other)
  /\ UNCHANGED <<accountVars, outdated>>
  /\ Served(r, "all")

DeletesLink(t, u) ==
  /\ In("links")
  /\ DeleteLink(u)
  /\ Audited(Other)
  /\ UNCHANGED <<accountVars, outdated>>
  /\ AtOnce(t, "manage_users")

DeletesCategory(t, c) ==
  /\ In("categories")
  /\ DeleteCategory(c)
  /\ Audited(Deletion("category", c))
  /\ UNCHANGED <<accountVars, outdated>>
  /\ AtOnce(t, "manage_users")

Downloads(t) ==
  /\ In("backups")
  /\ DownloadBackup
  /\ UNCHANGED <<accountVars, outdated, auditVars, running>>
  /\ AtOnce(t, "all")

CreatesNotice(r) ==
  /\ In("notices")
  /\ AddNotice
  /\ Audited(Creation("notice"))
  /\ UNCHANGED <<accountVars, outdated>>
  /\ Served(r, "manage_users")

(* The one endpoint that writes no entry. *)
TogglesNotice(r) ==
  /\ In("notices")
  /\ \E i \in 1..MaxNotice, shown \in BOOLEAN : ToggleNotice(i, shown)
  /\ UNCHANGED <<accountVars, outdated, auditVars, running>>
  /\ Served(r, "manage_users")

DeletesNotice(t, i) ==
  /\ In("notices")
  /\ DeleteNotice(i)
  /\ Audited(Deletion("notice", i))
  /\ UNCHANGED <<accountVars, outdated>>
  /\ AtOnce(t, "manage_users")

LinkExpires(u) ==
  /\ In("expiry")
  /\ Spend
  /\ ExpireLink(u)
  /\ UNCHANGED <<accountVars, botVars, requestVars, running, auditVars, crashes>>

-----------------------------------------------------------------------------
(* The bot, which writes no audit entries.                                 *)

OnBot(A) ==
  A /\ UNCHANGED <<accountVars, catalogVars, requestVars, running, auditVars,
                   crashes, load>>

Asks == "bot" \in load.areas /\ OnBot(Send)

Polls == In("bot") /\ OnBot(Poll)

PollsInVain == In("bot") /\ OnBot(PollLost \/ Disable)

(* /new gives a link a random uuid, /del deletes one if it is there; the   *)
(* other commands only read.                                               *)
Obeys ==
  /\ In("bot")
  /\ Handled
  /\ LET c == Commands[Head(tasks)] IN
       IF c = "new" THEN \E u \in Uuids : AddLink(u, NewLink) ELSE DeleteLink(c)
  /\ UNCHANGED <<accountVars, requestVars, running, auditVars, crashes, load>>

Fails == In("bot") /\ OnBot(HandleFails)

-----------------------------------------------------------------------------

(* A kill, unless it came before, and the next start, maybe under another  *)
(* secret key.                                                             *)
Restart(s) ==
  /\ load.restarts > 0
  /\ load' = [load EXCEPT !.restarts = @ - 1]
  /\ BootAccounts(s)
  /\ BootCatalog
  /\ BootBot
  /\ requests' = [r \in Requests |-> Idle]
  /\ outdated' = {}
  /\ running' = TRUE
  /\ crashes' = crashes + 1
  /\ UNCHANGED <<auditVars, late>>

Request(r) ==
  \/ \E t \in Tokens, for \in Endpoints : Admit(r, t, for)
  \/ Refuse(r)
  \/ CreatesAdmin(r) \/ UpdatesAdmin(r) \/ ChangesPassword(r)
  \/ ManagesLinks(r) \/ CreatesCategory(r) \/ Restores(r)
  \/ CreatesNotice(r) \/ TogglesNotice(r)

Visit(t) ==
  \/ \E u \in Users, p \in Passwords : LogsIn(t, u, p)
  \/ Ends(t)
  \/ \E i \in 1..MaxAdmins : DeletesAdmin(t, i)
  \/ \E u \in Uuids : DeletesLink(t, u)
  \/ \E c \in Groups : DeletesCategory(t, c)
  \/ Downloads(t)
  \/ \E i \in 1..MaxNotice : DeletesNotice(t, i)

Robot == Asks \/ Polls \/ PollsInVain \/ Obeys \/ Fails

Next ==
  \/ \E r \in Requests : Request(r)
  \/ \E t \in Tokens : Visit(t)
  \/ \E u \in Uuids : LinkExpires(u)
  \/ Prunes
  \/ Robot
  \/ \E s \in Secrets : Restart(s)

Spec == Init /\ [][Next]_vars

(* The polling loop gets an answer in the end, and the event loop runs the *)
(* tasks.                                                                  *)
Fairness == WF_vars(Polls) /\ WF_vars(Obeys \/ Fails)

FairSpec == Spec /\ Fairness

-----------------------------------------------------------------------------
(* Properties.                                                             *)

TypeOK ==
  /\ AccountsTypeOK /\ CatalogTypeOK /\ BotTypeOK
  /\ requests \in [Requests -> Pending \cup {Idle}]
  /\ running \in BOOLEAN
  /\ audit \in Logs /\ unlogged \in Logs
  /\ outdated \subseteq drawn
  /\ late \in [Tokens -> Nat]
  /\ crashes \in Nat
  /\ load \in LoadSet

(* A session that has ended, by whatever way, does no more than what its   *)
(* requests were let in for before: each acts at most once, and their      *)
(* sessions' end does not stop them (auth.py:85-104, main.py:510-745).     *)
RevokedActsOnce ==
  \A t \in Tokens :
    IF Live(t) THEN late[t] = 0
    ELSE late[t] + Cardinality({r \in Requests : /\ requests[r] # Idle
                                                 /\ requests[r].token = t})
           <= Cardinality(Requests)

(* A session has the permissions and the password of its account as they   *)
(* are, unless an administrator changed or deleted the account under it:   *)
(* no password change of the account itself leaves an old session, of      *)
(* anybody, behind (auth.py:67-76, main.py:240-247).                       *)
SessionsCurrent ==
  \A t \in DOMAIN sessions \ outdated :
    LET s == sessions[t] IN
    /\ s.user \in DOMAIN admins
    /\ admins[s.user].may = s.may /\ admins[s.user].hash = s.hash
    /\ admins[s.user].active

(* A password changes by a request of its own user or of an administrator  *)
(* of administrators, the root's also by the session of a deleted account  *)
(* that knows the master password; by nothing else, least of all a start   *)
(* (main.py:230-244, db.py:144-160, 217-223).                              *)
PasswordOnlyBy ==
  [][\A u \in DOMAIN admins \cap DOMAIN admins' :
       admins'[u].id = admins[u].id /\ admins'[u].hash # admins[u].hash =>
         \E r \in Requests :
           LET q == requests[r] IN
           /\ q # Idle /\ requests'[r] = Idle
           /\ \/ q.for = "password" /\ q.user = u
              \/ q.for = "manage_admins"
              \/ u = Root /\ q.user \notin DOMAIN admins]_vars

(* What the log, with the entries that were lost, tells of the tables that *)
(* number their rows: there were as many creations as ids were given out,  *)
(* beyond the rows the tables start with, and every id that is not there   *)
(* any more was deleted under that id (db.py:711-722, main.py:646-660,     *)
(* 685-745).                                                               *)
Written(k) == audit.created[k] + unlogged.created[k]
Deleted == audit.deleted \cup unlogged.deleted

AuditExplains ==
  LET there == [admin    |-> {admins[u].id : u \in DOMAIN admins},
                category |-> categories, notice |-> DOMAIN notices]
      next  == [admin |-> nextAdmin, category |-> nextCategory, notice |-> nextNotice]
      seeds == [admin |-> 1, category |-> 1, notice |-> 0]
  IN  \A k \in Kinds :
        /\ Written(k) + seeds[k] = next[k] - 1
        /\ \A i \in 1..(next[k] - 1) : i \in there[k] \/ <<k, i>> \in Deleted

(* When a category goes, its active links are from then on in the mix of   *)
(* the default category, and no other mix changes (db.py:553-567).         *)
MixMoves ==
  [][\A c \in categories \ categories' :
       /\ Mix(c)' = {} /\ Mix(1)' = Mix(1) \cup Mix(c)
       /\ \A g \in Groups \ {1, c} : Mix(g)' = Mix(g)]_vars

(* A command is carried out once, and once more at most for every process  *)
(* that ended: a task that ran before its update was confirmed runs again  *)
(* after a restart (bot.py:245-258).                                       *)
CommandsOncePerLife ==
  \A i \in Updates : done[i] <= 1 + crashes

(* Whatever is sent is carried out, or its task raises, or dies confirmed  *)
(* with its process, as long as the bot is not disabled or the process     *)
(* down (bot.py:242-270).                                                  *)
CommandsHandled ==
  \A i \in Updates :
    sent >= i ~> \/ done[i] > 0 \/ i \in failed \cup dropped
                 \/ ~ polling \/ ~ running
=============================================================================
