CONSTANTS
  Users = {"admin", "bob"}
  Root = "admin"
  Passwords = {"admin", "p"}
  Factory = "admin"
  Secrets = {"s1", "s2"}
  Grants <- SmallGrants
  MaxAdmins = 3
  Tokens = {"t", "w"}
  Uuids = {"u", "v"}
  Ports = {443, 8443}
  Stored = {"ss", "shadowsocks", "gaming-lite-demo"}
  Bodies <- SmallBodies
  MaxCategory = 2
  MaxNotice = 2
  MaxUpdate = 2
  Requests = {r1}
  Commands <- SmallCommands
  Loads <- SmallLoads
SPECIFICATION FairSpec
INVARIANT ExpiredGetsNothing
CHECK_DEADLOCK FALSE
