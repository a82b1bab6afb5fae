-------------------------------- MODULE Gate --------------------------------
(***************************************************************************)
(* The two questions every transport asks about a link before it lets a    *)
(* connection or a chunk through: check_quota_fast (src/db.py) and         *)
(* is_ip_allowed (src/limiter.py).  A link is a record with its switch,    *)
(* whether its expiry has passed, quota, usage and device limit, or None.  *)
(***************************************************************************)
EXTENDS Naturals, FiniteSets

CONSTANTS
  None,     \* no link
  Unknown   \* the client address when it cannot be told

(* Mutant of QuotaAllows: the usage is not looked at. *)
QuotaIgnoringUsage(l, n) ==
  /\ l # None
  /\ l.active
  /\ ~ l.expired

(* Mutant of QuotaAllows: the switch is not looked at. *)
QuotaIgnoringSwitch(l, n) ==
  /\ l # None
  /\ ~ l.expired
  /\ l.limit = 0 \/ l.used + n <= l.limit

QuotaAllows(l, n) ==
  /\ l # None
  /\ l.active
  /\ ~ l.expired
  /\ l.limit = 0 \/ l.used + n <= l.limit

(* Mutant of IpAllowed: one address too many. *)
IpAllowedOffByOne(l, ip, activeIps) ==
  \/ ip = Unknown
  \/ l # None /\ (l.maxIps = 0 \/ Cardinality(activeIps) <= l.maxIps)

(* activeIps are the known addresses with a registered connection. *)
IpAllowed(l, ip, activeIps) ==
  \/ ip = Unknown
  \/ /\ l # None
     /\ \/ l.maxIps = 0
        \/ ip \in activeIps
        \/ Cardinality(activeIps) < l.maxIps
=============================================================================
