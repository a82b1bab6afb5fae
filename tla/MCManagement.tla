---------------------------- MODULE MCManagement ----------------------------
(* Small instances of Management: the root and one more account, two       *)
(* secrets; two links, protocols of every kind of name; two updates for    *)
(* the bot.  Each load is about a few areas.                               *)
EXTENDS Management, TLC

SmallGrants == {All, {"manage_users"}}

SmallBodies ==
  {[group |-> 0], [group |-> 2], [group |-> 2, protocol |-> "ss"],
   [protocol |-> "shadowsocks", port |-> 8443], [active |-> FALSE]}

SmallCommands == <<"new", "u">>

Work(areas, logins, ops, restarts) ==
  [areas |-> areas, logins |-> logins, ops |-> ops, restarts |-> restarts]

SmallLoads ==
  {Work({"admins", "passwords"}, Tokens, 3, 0),
   Work({"admins", "updates"}, {"t"}, 2, 1),
   Work({"updates", "passwords"}, Tokens, 2, 1),
   Work({"links", "categories"}, {"t"}, 3, 1),
   Work({"links", "categories", "backups", "expiry"}, {"t"}, 4, 0),
   Work({"notices"}, {"t"}, 3, 1),
   Work({"links", "bot"}, {"t"}, 1, 1)}
=============================================================================
