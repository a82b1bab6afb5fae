# MeyREN gateway: specification, model checking and proofs

MeyREN is a VLESS gateway with a web panel. Clients open tunnels (VLESS over
WebSocket or XHTTP) under the uuid of a *link*; the gateway enforces the link's
switch, expiry, quota, speed limit and device limit, counts traffic, and keeps
the links in SQLite behind an in-memory cache. Everything runs in one process:
an asyncio loop for all endpoints and tunnels, and one worker thread for the
periodic flush of counted traffic.

This directory holds TLA+ modules that model the parts of that program where
order, interleaving and failure matter, TLC configurations that check them on
small instances, and TLAPS proofs of the main results for all instances.

## 1. Inventory

| Part | State | Operations | Hard behaviour | What makes it right |
| --- | --- | --- | --- | --- |
| Link store (`db.py`, link endpoints of `main.py`) | row in `links`, dict in `_LINKS_CACHE`, token in `_SUB_TOKEN_CACHE` | create, auto-create, PATCH, top-up, delete, bulk, restore, default link, load at start | a statement fails between file and cache; a handler of several calls stops half way; a kill between commit and cache; a uuid comes back after deletion | cache and file agree; a token finds exactly its link; the copies behave as one atomic table |
| Usage and flush (`db.py`, `main.py:85-127`) | `_PENDING_USAGE`, the list a flush has taken, `used_bytes` in row and cache | charge, flush on a worker thread, flush at shutdown, reset | the flush runs between the steps of a reset, a delete, a re-creation; it fails and puts bytes back; a kill loses the buffer | no byte lost or counted twice; counted usage reaches the file |
| Bandwidth limiter (`limiter.py:12-78`) | token buckets, `_BUCKETS` | throttle, consume, refill, replacement, reset | several pumps sleep on one bucket; the bucket is replaced under them; no queue | rate plus burst bounds what is let through; a chunk gets through in the end |
| Registry and device gate (`limiter.py:85-152`) | `_CONNECTIONS` | gate, register, unregister, prune | two handshakes for one slot; registrations that outlive, or die before, their tunnel | registered exactly while alive; device limit at admission |
| Quota gate (`db.py:312-333`) | reads the cache | check | the answer is stale when the chunk is counted | bounded overshoot; bounded leak after a cut |
| WebSocket tunnel (`main.py:783-903`) | handler and two pumps per connection | admission, header, dial, relay, teardown | admission is old when the first chunk comes; one pump ends while the other waits; peers that stop | always taken down and unregistered |
| VLESS header (`utils.py:103-123`) | none | parse | a header split over messages; index past the end | a target is dialled only under the address the client wrote, or the beginning of it |
| XHTTP transport (`xhttp.py`) | `_SESSIONS`, downlink queue of 512, two tasks and a generator | stream, packet, pump, teardown | full queue, cancelled pump, reused session id, shared `conn_id` | session, registration and socket end together; what is billed is delivered; a client that leaves closes its session |
| Panel sessions (`auth.py`), admins and RBAC (`db.py:574-658`) | `SESSIONS`, `admins`, `password_hash` | login, logout, password change, permission check | permissions copied at login; the check comes before the wait for the body; two copies of the master hash | a session has its account's password and permissions unless an administrator changed it; an ended session does little; passwords change only on request |
| Categories and group subscriptions | `categories`, `group_id` | add, delete, subscribe | deletion in file then cache; links naming a deleted group | table and cache agree on the group; a link's group exists; a mix moves as a whole |
| Announcements, audit log | rows | add, toggle, delete, append | the audit entry follows the change it records, and its failure is swallowed | what is there or gone is in the log, but for entries that were lost |
| Statistics, keep-alive, network tools | counters | count, probe | - | - |
| Telegram bot (`bot.py`) | poll offset, one task per update | `/new`, `/del`, queries | offset moves before the work; tasks in any order | a command takes effect once in each life of the process; only what the log of failures explains is lost |
| Subscriptions and protocols (`sub.py`, `protocols.py`) | none | subscription, mix, bundle, profiles | aliases, protocols with ports of their own, profiles beside the bundle | no endpoint twice, one that is served, profiles within the bundle |
| Pages (`templates`, `static`) | none | - | - | - |
| Boot (`db.py:31-190`, `main.py:38-45`) | secret key, schema, seeds | migrate, load | a changed secret invalidates hashes and uuids | a restart finds what was saved |

Interaction: the tunnels call the quota gate, the limiter and the charge for
every chunk; the endpoints call the store and, on reset and deletion, the
limiter; the maintenance task flushes every two seconds on a worker thread;
the pruning task edits the registry every two minutes.

## 2. Plan

Modules, in order of importance (done unless marked):

1. `AtomicStore`, `LinkStore`, `MCLinkStore`, `LinkStoreProofs`: the data the
   gateway decides on and bills by.
2. `TokenBucket`, `MCTokenBucket`, `TokenBucketProofs`: the limiter.
3. `Gate`, `WsTunnel`, `MCWsTunnel`, `WsTunnelProofs`: tunnels, registry and
   gates together with the administrator who changes the link meanwhile.
4. `VlessHeader`, `XHttp`, `MCXHttp`, `XHttpProofs`: sessions keyed by an id the
   client may choose, the bounded downlink queue, pumps, generator, teardown and
   packets, on top of the same `Gate`.
5. `Accounts`, `Catalog`, `Bot` (over `Tables`), composed by `Management`, with
   `MCManagement` and a proof module for each: the panel, what it keeps, and
   the bot, with requests that wait for their bodies, the audit log and starts.

`WsTunnel` and `XHttp` share `Gate`; `LinkStore` implements `AtomicStore`;
`Management` composes three components that share one restart and one catalog
of links. A composition of the transports with the store is not needed for the
properties here: what a tunnel needs of the store is the cached record of its
link, on which every operation is atomic by `LinkStore`'s refinement. For the
same reason `Catalog` does an operation on table and cache in one step.

Left for later: both transports on one registry and one quota, which today are
each checked and proved by itself.

## 3. Modules and how they follow the code

### LinkStore (refines AtomicStore)

`rows` is the table, `cache` is `_LINKS_CACHE`, `tokenIndex` is
`_SUB_TOKEN_CACHE`, `pending` is `_PENDING_USAGE`; `batch` holds what the
flush thread or the shutdown flush has taken and not yet written.

Endpoints run on the loop and call `db.py` without awaiting, so a handler is a
*script* of calls (one for most, a list for bulk and restore) that no other
handler interrupts; but the flush thread and a kill can come between the steps
of a call. A call therefore goes through stages that are the code's own commit
points: `CallPop` (a reset drops the buffered bytes, `db.py:410-412`), `CallSql`
(the statement commits), `CallCache` (the cache, the index and the buffer
follow); `CallFails` is an exception from the statement, by a failing file or a
unique constraint, which ends the handler with what was done before. `Charge`
is `add_usage_buffered`, which a connection calls after its wait for the rate
limiter: only one that was admitted does (`Serve`, `served`), but the link may
have been cut or deleted since its check. `FlushTake`, `FlushCommit`, `FlushFails` and
`Shutdown` are the two flushes; `Restart` is a kill and the next start, `Exit`
an orderly one.

`drift` is a history variable: how far the rows (with what will still be added
to them) are ahead of the enforced counter. It changes only where the code
makes them differ: a reset or an insert with bytes in flight, and a reset whose
statement failed. `LedgerExact` says that nothing else ever makes them differ.
`cleared`, the links whose usage a reset has set to zero, is one too; with it
`ResetIsDurable` asks of a reset, and of nothing before one, that the file keeps
it.

`AtomicStore` is the promise: one table, every operation at once, usage saved
from time to time, a restart losing only unsaved usage. The refinement maps the
table to `Shown` (the cache, with the call under way applied once its statement
has committed) and the saved usage to the rows.

Abstracted: of the columns, `active`, `limit_bytes`, `used_bytes` and
`sub_token` are kept; the other plain columns (label, speed, device limit,
expiry, group, protocol and so on) are copied by the code in the same way as
`limit_bytes` and are folded into it. Tokens are drawn from unused ones
(`secrets.token_urlsafe`); a backup entry brings its own. Entries without a
token and negative quotas (possible through PATCH and the bot) are left out.

### TokenBucket

The limiter for one link. A pump's `throttle` runs up to its `asyncio.sleep`
(`ThrottleKept`, `ThrottleNew`, `PassUnlimited`) and then from one wake to the
next (`Wake`); a sleeping pump keeps its bucket object when the registry moves
to another (`SetSpeed`, `ResetThrottle`). `Tick` is the passing of time; a
bucket's age is `since`. Floating-point time and tokens are integers in the
model; a pause is rounded up to whole ticks, as a timer that fires late would.
`window` is an observer: it picks any bucket at any time and counts what that
bucket grants from then on.

### Gate, WsTunnel

`Gate` has the two questions every transport asks, `QuotaAllows`
(`check_quota_fast`) and `IpAllowed` (`is_ip_allowed`).

`WsTunnel` has the tunnels of one link. `pc` is where the handler waits:
`header` (first message), `hdr_throttle`, `dialing`, `pay_throttle`,
`pay_drain`, `relay`, `closing`. A pump (`up`, `down`) reads, waits for the
limiter with a chunk that passed the quota check, drains, or is done. A step is
the code between two awaits: `Read` ends with the check, `CountChunk` starts
after the limiter, and between them anything may happen, including the
administrator's changes (`SetActive`, `SetLimit`, `SetMaxIps`, `ResetUsage`,
`DeleteLink`; `RecreateLink` by the same label or, with usage and switch as they
were, by a backup), the expiry (`SetExpired`) and the pruning loop.
`pruned`, `ceiling` and `leaked` are history variables for the properties.

Abstracted: the limiter is any delay, or for ever (TokenBucket says when it
returns, and that for some chunks it never does); the header parser is a first chunk with a payload, or a failure; addresses come
from `get_client_ip`, or are unknown; a pump that `check_quota_fast` refuses
closes the websocket and ends in one step.

### VlessHeader, XHttp

`VlessHeader` is `parse_vless_header` over the bytes that have arrived. Python
raises for an index past the end and returns a short slice for a range past it;
`Raises` collects the first, `Slice` is the second. `Wire` is what a client
writes. `HeaderSplit` compares the two for every header and every point at
which the first chunk may break off: a port is never cut (the address type
behind it is read by index), an IPv6 address is never cut, the end of an IPv4
address or of a name may be, and then that shorter address is dialled.

`XHttp` names a session dict by the request that made it. `pc` is where the
handler waits (`body`, `dial`, `drain`) and then where the generator is: handed
to the framework and not begun (`ready`), waiting (`hello`, `get`, `yield`), or
dropped before it began because the client had gone (`lost`), so that its
`finally` never runs and only the pump is left to tear down; `pump` and `up` are the two tasks; `pk` the packet handlers.
`sessions` is `_SESSIONS` and `registry` is `_CONNECTIONS` under the first eight
characters of the session id (`ConnOf`); both can be overwritten by a later
request, which `shared` remembers, and properties about one session exempt it:
with a shared id the teardown of either takes the other's session, and what is
still owed to that client is lost. A queue is the chunks ahead of its first
`None`, whether there is one, and the items behind it that nobody will get.
`Teardown` is `_teardown_session` in one step. A packet is looked up by the
session id in its path and checked, throttled and billed by the uuid there,
which nothing compares with the session's: `Lookup` takes any combination of a
session and a link, this one (`own`) or another, of whose quota nothing is known.
`owed`, `wasted` and `leaked` are
history variables.

Abstracted: a chunk is one unit of quota; the wait for the writer to close
inside the teardown; the pruning of registrations after 48 hours (in
`WsTunnel`); TLS, HTTP and the content type.

### Accounts, Catalog, Bot, Management

`Accounts`: `admins` is the table by user name, `master` the `password_hash` of
the settings, `sessions` is `SESSIONS`. A hash is a password with the secret it
was made with, so a start under another secret makes every hash useless, as in
the code. Role and permission list are the set of permissions they amount to.

`Catalog`: `rows` and `cache` with the columns that LinkStore folds away
(group, protocol, port, expiry), `categories`, `notices`, `backup`. `strays`
remembers the links that a request or a backup put into a group that was not
there. `RestoreBackup` takes any part of the backup, and in replace mode may
have deleted the links and added none: the request can fail at each entry.
`Bundle`, `Singbox`, `Clash` and `Endpoint` give of every generated
entry the protocol, host and port; `Path` its path, against the `Routes` that
exist.

`Bot`: Telegram's side is how many updates were sent and up to which they are
confirmed (`floor`); the bot's is `last_update_id` and the tasks that have not
run. An update's task is one step: it reaches the database without a wait.

`Management`: a request of an administrator is let in (`Admit`: the session's
check), waits for its body, and is carried out to its end or refused; requests
without a body are one step (`AtOnce`). `Audited` comes after the effect: the
entry is written, or it is lost (`add_audit_log` swallows every exception), or
the process is killed in between. `Restart` is a kill and the next start of all
of it. `outdated`, `late`, `unlogged` and `crashes` are history variables. The
entry of a creation has a name, which need not be unique, that of a deletion the
id (`main.py:646`, `656`); so `AuditExplains` counts creations against the ids
given out, and asks for the id of every row that is gone.

Behaviour of the code that the modules follow and that a reader may not expect:
the root account cannot be deleted but it can be disabled; the fallback login
with the master password is unreachable, since the root's row is always there;
a session that has expired and was not pruned yet is renewed by a password
change whose request was let in before; a session of a deleted account may set
the root's password if it knows the master password; a demoted account keeps
its old permissions until its session ends; toggling an announcement, and
whatever the bot does, leaves no audit entry; a PATCH or a backup may name a
category that does not exist, and a PATCH may set group 0, which a restart
turns into 1; the client portal lists the configurations of a link that is
switched off.

Abstracted: names, titles, labels and notes; `reset_admin_password`, which has
no caller; sessions in the old numeric format, which nothing writes; the
cipher in `SS_METHOD`; audit entries that name no numbered row; the bot's
replies and read-only commands.

## 4. Runs

| Run | Question | Result |
| --- | --- | --- |
| `store_safety` | two links, all endpoints, failures, kills: do the copies agree, does the ledger balance, is the store atomic? | holds, 931 thousand states |
| `store_flush` | one link, charges of sizes 1 and 2, failing flushes: does counted usage get to the file? | holds, 27 thousand states |
| `store_reset` | does a reset survive a restart? | **no**, see section 7 |
| `store_topup` | does a top-up add volume? | **no** |
| `bucket_rate` | two pumps, four speeds, resets: rate bound, old buckets, does every chunk that fits get through? | holds, 539 thousand states |
| `bucket_large` | does every chunk get through? | **no** |
| `tunnel_safety` | two tunnels, two addresses, administrator, pruning: registry, device limit, quota and cut bounds | holds, 2.2 million states up to symmetry |
| `tunnel_live` | does a tunnel stay half set up anywhere but in the three waits without a timeout, or half taken down? quota changed on the way | holds, 38 thousand states |
| `tunnel_prune` | does pruning spare connections with traffic? | **no** |
| `xhttp` | two requests, three headers, a queue of two, packets of the session's link and of another, clients that leave, a link that is cut: do sessions, registrations, queue, bill and quota come out right? | holds, 324 thousand states |
| `management` | accounts, links, categories, backups, announcements and the bot, with lost entries and starts | holds, 510 thousand states |
| `sub_expired` | does an expired link's subscription list nothing? | **no** |

Bounds, and why they are enough:

- `MaxLimit`, `MaxUsed` (LinkStore) cap quotas and counters. Nothing in the
  store compares usage with a quota; one or two units in each of row, buffer
  and flusher give every order of take, write, failure and reset.
- Two uuids and two tokens: a bulk action and a restore of two entries, a
  backup whose second entry clashes with the first, and the flush of both.
- `MinRate = 2`, `MinBurst = 4`, `Slack = 1`, speeds 0, 1, 3, 5: unlimited,
  below the minimum rate, a change within the slack, and one beyond it.
  Two pumps, two bucket objects: one that is registered and one that a sleeper
  still holds. `WindowMax` ends a window after one tick, which a burst and a
  refill meet; the theorem has it for any length.
- `Horizon` (WsTunnel): no chunk is read once usage is above it, which is one
  more than the quota, so that every tunnel and pump can meet the boundary with
  a chunk in its hands. `MaxChunk` is the size of the largest chunk.
- Two tunnels and two addresses with a device limit of one: one slot, two
  takers.
- `QueueMax = 2` (XHttp): empty, half full and full, with a chunk at either end
  of it. `FirstSizes` are 24 (the least the handler waits for), 27 and 38: an
  IPv4 header broken off and whole, a name and an IPv6 address likewise. Two
  known addresses for a device limit of one, and an unknown one. A behaviour
  chooses one of six loads (`Loads`). `Metered` is one request with packets and an
  uplink on a quota of 1, which both pumps and the packet handler meet at once; its
  4 `reads` are one more than `QuotaOvershoot` allows, so that it is the checks
  that stop them. The other loads have no quota. `Uplink` is the same request with
  an administrator and 3 reads: both of its uplink chunks leak or are wasted.
  `Downlink` has neither uplink nor packets and 5 reads, so that the queue and the
  chunk at either end of it are full when the link is cut or the session torn
  down. In both the bounds of `CutBound` and `WasteBound` are met exactly.
  `Together` is two requests that run at once, `Rivals` two that compete for one
  device slot, `Colliding` two whose ids collide in full or in their first characters.
- `Loads` (Management): each is about a few areas that act on each other
  (accounts with passwords and sessions, links with categories and backups, the
  bot with links, starts with each), so that no instance multiplies areas which
  share nothing. `ops` bounds the requests that take effect, `restarts` the
  starts. `MaxAdmins`, `MaxCategory`, `MaxNotice` and `MaxUpdate` are the ids
  there are. One request waits for its body at a time while those without a
  body, logins, expiry and the bot go on; the theorems have any number. Two
  secrets, two passwords, two users, two links, and protocols stored under
  their name, an alias and a demo name.

Symmetry is used for tunnels and addresses in runs without liveness.

## 5. Fairness

- `LinkStore!Fairness`: a call under way goes on (synchronous code); the
  maintenance task comes round (`while True`, exceptions caught); a flush that
  is possible again and again is done (strong fairness on the commit: the code
  retries for ever, so the assumption is that the file is not unwritable for
  ever); the shutdown flush ends, one way or the other; the process exits.
- `TokenBucket!Fairness`: time passes and a sleeper whose time has come runs.
  Nothing makes a pump send; each sends a bounded number of chunks (`Chunks`).
- `XHttp!Fairness`: the loop runs what is ready: the generator when its queue
  has something, a pump with room in the queue or with a reader that was closed,
  the dial within its 10 seconds; the framework begins the generator it was
  given, or drops it, closes that of a client that left, and ends the body it was
  sending. A client need not read, send or leave, a target need not answer or
  take the initial payload, and the rate limiter need not return.
  `LeavingCloses` exempts what follows from that: the drain of the payload, a
  generator that never began, and a pump held by a full queue or by the limiter.
- `Management!Fairness`: the polling loop gets an answer in the end, as long as
  it is not disabled, and the loop runs the tasks. Requests, logins and starts
  are under no fairness.
- `WsTunnel!Fairness`: the handler goes on where a timeout or the loop
  guarantees it (`Timed`): 15 s for the header, 10 s for the dial, 2 s for the
  close. Nothing is assumed of the peers or of the rate limiter: a pump may
  read, drain or be throttled for ever. Three waits of the handler itself have no
  timeout (`Untimed`): for the limiter before the dial and before the initial payload
  (`main.py:868`, `877`), and for the target to take the payload (`main.py:882`).
  `TunnelsSettle` says that a tunnel stays half set up in none but these, and that
  one with an ended pump is taken down whatever the other pump waits for.

## 6. Proofs

All theorems are about the specifications above with their constants left
open; the assumptions are the named `ASSUME`s of the modules (types of the
inputs, `None` and `Unknown` being distinct from the values, finitely many
uuids, tunnels, requests and packet handlers; `HeadersAssumption`: a VLESS header
has two bytes of port, and an address as long as its kind or its length byte
says). TLC evaluates them in every run.

- `LinkStoreProofs`: `StoreInv` is inductive. Beside the three properties
  (`CacheMatchesRows`, `TokenIndexExact`, `LedgerExact`) it needs `TypeOK`,
  `StageOK` (a call past its first stage is at the head of the script, and a
  committed insert found no link in the cache: otherwise its `Resolved` form
  could change between the stages) and the unique tokens of the rows. From it
  follow `CacheCoherent`, `IndexCorrect`, `LedgerCorrect`, and
  `AtomicRefinement`: each step maps to a step of `AtomicStore` or to a stutter
  (`CallSql` is where the operation takes effect).
- `TokenBucketProofs`: `RateInvariant` (types, referenced buckets exist, and
  `WindowInv`, which adds what is still available to what was spent: granting
  moves tokens from one to the other, and a tick adds at most the rate to
  both sides); from it `RateBounded`, and `OldRateDrains`. `TooLargeIsStuck` is
  the general form of what `bucket_large` finds (`TooLargeWaits`, stated in the
  proof module): no step grants more than a
  capacity, none changes the capacity of a bucket somebody waits for, and a pump
  keeps its bucket, so raising the limit does not free it.
- `WsTunnelProofs`: `RegistryInv` (types, `RegistryExact`, and that pruned
  tunnels live) gives `RegistryCorrect` and `DeviceLimitHolds`; `LeakInv` gives
  each tunnel a credit, what it holds and may still move unchecked, and shows
  that leaked bytes and credit together never exceed two chunks, whence
  `CutLeaksLittle`. `QuotaInv` is about all tunnels at once: what may still be
  counted without a check is a debt, in two slots a tunnel (a chunk in each
  pump's hands, or a first chunk and its payload), and usage and `MaxChunk` for
  each slot that owes stay within the ceiling and `MaxChunk` for every slot. A
  count pays for a debt; a check that passes finds the usage within the ceiling,
  whatever is owed then. That makes it inductive without a sum over tunnels, and
  gives `QuotaOvershootBounded`.

- `XHttpProofs`: every step is an admission, a teardown (`Tears` says what the
  five steps that call it have in common), a flow of one request that leaves the
  maps alone, a packet's or the administrator's. `Base` is inductive by itself:
  the types, how far a request must have come to have what it has (`Shape`), that
  a session id leads to an open request of that id (`Keyed`), and that what is in
  hand or queued was billed (`Covered`, without which `owed` could go below
  zero). `Exact` adds `SessionExact` and `Distinct`: of two requests that run, one
  that met no other has a registry key of its own, so nobody else's teardown
  finds its session. On these rest `RegistryExact`; `Within`, the registry's form
  of the device limit; `Delivering`, which says that a queue is closed only after its
  pump is done, whence the balance of `BilledIsDelivered`; and `Wasting`,
  `Bounded` and `Leaking`, which count what is past the quota check as if it were
  lost already (of the packets, `Leaking` those under the link's own uuid: the others,
  which a cut does not stop, do not count against `CutBound`). `Room` does for the quota what `QuotaInv` does for tunnels: the
  tasks past the check (`Waits`) are added to the usage, and less than one chunk
  is ever beyond the quota for each task there may be (`Askers`: two pumps for each
  request admitted so far, which `Shape` says is all that can wait, and the packet
  handlers). The numbers of requests and packet handlers,
  the ids, the addresses and the queue bound are left open.

  `HeaderIsSplit` rests on where the bytes are. `WireLayout` says it of a header
  as written (`Laid`: addons of any length, each kind of address), `FieldsFound` of
  what `parse_vless_header` reads from the first bytes of it, however many have
  come, when no index is beyond them (`Found`); `SplitOfHeader` compares the two.
  The step invariant `Opened` only carries the header from the first chunk to the
  dial.

- `AccountsProofs`, `CatalogProofs`, `BotProofs` prove of each operation that it
  keeps its component's invariant. `AccountsInv`: types, the root's row, ids
  below the next one. `CatalogInv`: types, the default category,
  `GroupsAgree`, `NoStrandedLinks`. `BundlesSound` needs only the types: it goes
  through the entries of a bundle protocol by protocol (`BundleEntries`), with
  `DialsApart` for the ones that must differ. `BotInv`: the tasks are of different
  updates up to `last_update_id`, and each update up to there or up to `floor`
  is carried out, waiting, failed or dropped.
- `ManagementProofs` composes them into `Inv`, adding `SessionsInv` (a waiting
  request has the user of its session, no token is handed out twice, and a
  token not handed out yet has done nothing), `RevokedActsOnce` (what an ended
  session did and what its requests may still do add up to the requests there
  are) and `CarriedOut`, which bounds how often an update ran by the processes
  that ended, and one more once its task has run. `SessionsCurrent` is
  part of `SessionsInv`; `AuditExplains` is inductive beside `Inv` in the form
  of `AllTold`; `PasswordOnlyBy` and `MixMoves` follow step by step.

Only model-checked: the liveness properties (`UsageBecomesDurable`,
`ChunkPasses`, `TunnelsSettle`, `LeavingCloses`, `CommandsHandled`), since the
prover does not treat fairness. Every invariant, action property and refinement
that a passing run checks is also a theorem.

## 7. Findings

- **A reset can be undone** (`store_reset`): `update_link` drops the buffered
  bytes and zeroes the row, but bytes the flush thread had already taken are
  added to the row afterwards. The panel shows 0 until the next restart, which
  loads the old usage. In the trace a link is created, a connection admitted and
  a byte counted; a PATCH begins to reset the usage, the flush takes the byte, the
  PATCH drops the (now empty) buffer and writes its 0, and the flush adds its
  byte to that.
- **Top-up of an unlimited link limits it** (`store_topup`): the amount is added
  to 0, which means unlimited.
- **A chunk larger than the bucket never passes** (`bucket_large`): `consume`
  waits for more tokens than the bucket can hold, and the tunnel hangs without
  an error. XHTTP reads 256 KiB at a time, more than the capacity of any link
  limited below 2.1 Mbps.
- **An expired link's subscription lists everything** (`sub_expired`): the
  comment says expired or disabled, the condition looks at the switch only, and
  nothing turns the switch when the expiry passes.
- **Pruning ignores traffic** (`tunnel_prune`): the loop looks at the age of the
  connection only, and at 48 hours where its comment says 24.

Facts the properties put a bound on rather than refute: a client can exceed its
quota by up to two chunks for each tunnel (`QuotaOvershoot`), the initial
payload being counted twice, and under XHTTP by nearly one for each task; a
link that is switched off still moves what its pumps hold (`CutBound`), and
under XHTTP a full queue besides; an ended session's requests that were already
let in are carried out (`RevokedActsOnce`); a bot command may run again after a
restart (`CommandsOncePerLife`) or be lost with the process.

Seen on the way, without a run of their own: `xhttp_handle_packet` never
compares the uuid of its path with the session's (`xhttp.py:201-219`), so the
session of a link that was cut takes packets posted under another good link, as
many as that link may send, billed to that one; `CutBound` holds because it is
about the account of the session's own link, and nothing bounds the rest. A
response whose generator never begins leaves its session to the pump alone
(`xhttp.py:179-189`). When the target takes no initial payload, the writer is not
in the session yet and nothing closes it (`xhttp.py:44-47`, `149-154`). The paths handed out for XHTTP,
`/xhttp-siz10/{mode}/{uuid}` (`protocols.py:149`, `627`), have no route (the
gateway serves `/xhttp/{uuid}`, `xhttp.py:100`), which is why `BundleSound` asks
for one served endpoint and not for all; `/new` with a malformed number of days
adds the link and then raises (`bot.py:220`); the bot backup calls
`db.get_setting`, which does not exist (`main.py:493`).

## 8. Not modelled

Statistics, keep-alive, network tools, the client portal page, the text of
links and profiles, and the browser pages have no state that order or failure
can upset, and stay out. So do the migration of an older schema, which runs
once and alone, and the columns nothing decides by (`last_connected_at`, notes,
sort order). Time zones (an expiry stored as naive
UTC is compared with local time, `db.py:325`), floating-point rounding and the
contents of packets are abstracted away.

## 9. Running

    tlc -config MCLinkStore_safety.cfg MCLinkStore
    tlapm LinkStoreProofs.tla

and likewise for the other configurations, each named after the module it
belongs to, and proof modules. Operators described as mutants are variants of
the definition after them with a plausible bug, kept to show that each property
notices it.
