------------------------------ MODULE Accounts ------------------------------
(***************************************************************************)
(* The administrators of the panel: the admins table and the master        *)
(* password of src/db.py, the sessions of src/auth.py, and what the        *)
(* endpoints of src/main.py do with them once a request is let in.         *)
(* Management has the requests, and the steps of this module are parts of  *)
(* its steps.                                                              *)
(*                                                                         *)
(* A hash is the pair of a password and the secret key it was made with.   *)
(* A role and a list of permissions are the set of permissions they amount *)
(* to; "all" and the superadmin role pass every check.                     *)
(***************************************************************************)
EXTENDS Naturals, Tables

CONSTANTS
  Users,      \* user names
  Root,       \* the user name "admin"
  Passwords,
  Factory,    \* the password of a new installation, "admin"
  Secrets,    \* secret keys
  Grants,     \* the sets of permissions an account may be given
  MaxAdmins,  \* bound on the ids of accounts
  Tokens      \* session tokens, each drawn once

All == {"all"}
Permissions == {"all", "manage_admins", "manage_users"}
Hashes == Passwords \X Secrets

ASSUME AccountsAssumption ==
  /\ Root \in Users /\ Factory \in Passwords
  /\ Grants \subseteq SUBSET Permissions
  /\ MaxAdmins \in Nat \ {0}

VARIABLES
  admins,     \* the admins table, by user name
  nextAdmin,  \* the next id of the table, which is never used again
  master,     \* password_hash in the settings
  secret,     \* the secret key of this process, and in the settings
  sessions,   \* SESSIONS
  drawn       \* the tokens that were handed out

accountVars == <<admins, nextAdmin, master, secret, sessions, drawn>>

Accounts == [id : 1..MaxAdmins, hash : Hashes, may : SUBSET Permissions,
             active : BOOLEAN]

(* hash is no field of the code: it is what the login was checked against. *)
Sessions == [user : Users, may : SUBSET Permissions, expired : BOOLEAN,
             hash : Hashes]

Hash(password) == <<password, secret>>

Allows(may, permission) == may \cap {"all", permission} # {}

InitAccounts ==
  /\ secret \in Secrets
  /\ master = Hash(Factory)
  /\ admins = Insert(NoRows, Root,
                     [id |-> 1, hash |-> master, may |-> All, active |-> TRUE])
  /\ nextAdmin = 2
  /\ sessions = NoRows
  /\ drawn = {}

-----------------------------------------------------------------------------
(* Sessions.                                                               *)

(* What get_session finds. *)
LiveIn(table, t) == t \in DOMAIN table /\ ~ table[t].expired
Live(t) == LiveIn(sessions, t)

Pruned == Remove(sessions, {t \in DOMAIN sessions : sessions[t].expired})

(* The row decides; the master password counts when the root has no row,   *)
(* which it always has (AccountsTypeOK).                                   *)
Login(t, u, password) ==
  /\ t \notin drawn
  /\ u \in DOMAIN admins
  /\ admins[u].active
  /\ admins[u].hash = Hash(password)
  /\ sessions' = Insert(Pruned, t,
                        [user |-> u, may |-> admins[u].may, expired |-> FALSE,
                         hash |-> admins[u].hash])
  /\ drawn' = drawn \cup {t}
  /\ UNCHANGED <<admins, nextAdmin, master, secret>>

(* Or get_session finds that the session has expired, and removes it. *)
Logout(t) ==
  /\ t \in DOMAIN sessions
  /\ sessions' = Remove(sessions, {t})
  /\ UNCHANGED <<admins, nextAdmin, master, secret, drawn>>

(* Seven days have passed; the session stays until it is pruned. *)
Expire(t) ==
  /\ Live(t)
  /\ sessions' = [sessions EXCEPT ![t].expired = TRUE]
  /\ UNCHANGED <<admins, nextAdmin, master, secret, drawn>>

Prune ==
  /\ sessions' = Pruned
  /\ UNCHANGED <<admins, nextAdmin, master, secret, drawn>>

-----------------------------------------------------------------------------
(* What the endpoints do, after their permission check.                    *)

CreateAdmin(u, password, may) ==
  /\ u \notin DOMAIN admins
  /\ nextAdmin <= MaxAdmins
  /\ admins' = Insert(admins, u, [id |-> nextAdmin, hash |-> Hash(password),
                                  may |-> may, active |-> TRUE])
  /\ nextAdmin' = nextAdmin + 1
  /\ UNCHANGED <<master, secret, sessions, drawn>>

(* What a PATCH may carry; what it leaves out stays. *)
AdminBodies ==
  {[hash |-> Hash(p)] : p \in Passwords} \cup {[may |-> g] : g \in Grants}
    \cup {[active |-> b] : b \in BOOLEAN}

Named(i) == {u \in DOMAIN admins : admins[u].id = i}

(* An id that is not there changes nothing.  Sessions are left alone. *)
UpdateAdmin(i, body) ==
  /\ admins' = [u \in DOMAIN admins |->
                  IF u \in Named(i) THEN Change(admins[u], body) ELSE admins[u]]
  /\ UNCHANGED <<nextAdmin, master, secret, sessions, drawn>>

(* Mutant of DeleteAdmin: the root can be deleted too. *)
DeleteAnyAdmin(i) ==
  /\ admins' = Remove(admins, Named(i))
  /\ UNCHANGED <<nextAdmin, master, secret, sessions, drawn>>

DeleteAdmin(i) ==
  /\ Root \notin Named(i)
  /\ admins' = Remove(admins, Named(i))
  /\ UNCHANGED <<nextAdmin, master, secret, sessions, drawn>>

(* The hash a password change is checked against: when the account was     *)
(* deleted under its session, the master password's.                       *)
Current(u) == IF u \in DOMAIN admins THEN admins[u].hash ELSE master

(* Mutant of Others: nobody is logged out. *)
OthersStay(t, hash) == sessions

(* clear_other_sessions: the caller's session is kept, if it is there, and *)
(* is as good as new.                                                      *)
Others(t, hash) ==
  [x \in DOMAIN sessions \cap {t} |->
     [sessions[x] EXCEPT !.expired = FALSE, !.hash = hash]]

Repassword(u, hash) ==
  IF u \in DOMAIN admins
  THEN admins' = [admins EXCEPT ![u].hash = hash] /\ UNCHANGED master
  ELSE master' = hash /\ admins' = [admins EXCEPT ![Root].hash = hash]

ChangePassword(t, u, current, new) ==
  /\ Hash(current) = Current(u)
  /\ Repassword(u, Hash(new))
  /\ sessions' = Others(t, Hash(new))
  /\ UNCHANGED <<nextAdmin, secret, drawn>>

(* Mutant of BootAccounts: the root's row is seeded at every start. *)
BootSeeding(s) ==
  /\ secret' = s
  /\ sessions' = NoRows
  /\ admins' = [admins EXCEPT ![Root].hash = master]
  /\ UNCHANGED <<nextAdmin, master, drawn>>

(* A start, with the secret of the environment or the stored one: what is  *)
(* in the tables is kept, hashes made with another secret too.             *)
BootAccounts(s) ==
  /\ secret' = s
  /\ sessions' = NoRows
  /\ UNCHANGED <<admins, nextAdmin, master, drawn>>

-----------------------------------------------------------------------------

AccountsTypeOK ==
  /\ IsTable(admins, Users, Accounts)
  /\ Root \in DOMAIN admins
  /\ nextAdmin \in 2..(MaxAdmins + 1)
  /\ master \in Hashes
  /\ secret \in Secrets
  /\ drawn \subseteq Tokens
  /\ IsTable(sessions, drawn, Sessions)
=============================================================================
