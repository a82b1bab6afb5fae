------------------------------ MODULE Catalog -------------------------------
(***************************************************************************)
(* What the panel keeps beside the counters of LinkStore: categories, the  *)
(* group, protocol and port of links in the table and in the cache, the    *)
(* announcements, and what a subscription makes of a link (src/db.py,      *)
(* src/sub.py, src/protocols.py, the endpoints of src/main.py).  The       *)
(* endpoints run on the loop without a wait, so an operation on the table  *)
(* and on the cache is one step; failures between the two are LinkStore's. *)
(***************************************************************************)
EXTENDS Naturals, FiniteSets, Tables

CONSTANTS
  Uuids,
  Ports,
  Stored,      \* protocol strings a request may carry
  Bodies,      \* bodies of requests: fields of a link, some or all
  MaxCategory, \* bound on the ids of categories
  MaxNotice    \* bound on the ids of announcements

VARIABLES
  categories,   \* the ids in the categories table
  nextCategory, \* AUTOINCREMENT: an id is not used twice
  rows, cache,  \* the links table and _LINKS_CACHE
  backup,       \* the file that was downloaded last
  notices,      \* the announcements: whether each is shown
  nextNotice,
  strays        \* history: links put into a group that was not there

catalogVars == <<categories, nextCategory, rows, cache, backup, notices,
                 nextNotice, strays>>
noticeVars == <<notices, nextNotice>>
linkVars   == <<rows, cache, strays>>

Groups == 0..(MaxCategory + 1)

Canonical ==
  {"vless-ws", "xhttp-packet-up", "xhttp-stream-up", "xhttp-stream-one",
   "vmess-ws", "trojan-ws", "shadowsocks", "socks5", "http", "hysteria2",
   "tuic", "wireguard", "highspeed-demo", "gaming-lite-demo"}

Links == [group : Groups, protocol : Stored \cup Canonical, port : Ports,
          active : BOOLEAN, expired : BOOLEAN]

(* A body replaces fields of a link by what such fields may be. *)
ASSUME CatalogAssumption ==
  /\ MaxCategory \in Nat \ {0} /\ MaxNotice \in Nat /\ 443 \in Ports
  /\ \A body \in Bodies, l \in Links : Change(l, body) \in Links

(* What add_link and the endpoints that call it fill in. *)
NewLink == [group |-> 1, protocol |-> "vless-ws", port |-> 443,
            active |-> TRUE, expired |-> FALSE]

InitCatalog ==
  /\ categories = {1}
  /\ nextCategory = 2
  /\ rows = NoRows
  /\ cache = NoRows
  /\ backup = NoRows
  /\ notices = NoRows
  /\ nextNotice = 1
  /\ strays = {}

-----------------------------------------------------------------------------
(* Protocols and the endpoints that are handed out for a link.             *)

Alias ==
  [vless |-> "vless-ws", vmess |-> "vmess-ws", trojan |-> "trojan-ws",
   ss |-> "shadowsocks", socks |-> "socks5", hy2 |-> "hysteria2",
   hysteria |-> "hysteria2", wg |-> "wireguard", xhttp |-> "xhttp-packet-up"]

Normal(p) ==
  IF p \in DOMAIN Alias THEN Alias[p]
  ELSE IF p \in Canonical THEN p ELSE "vless-ws"

(* The demos are other protocols under another name. *)
Dials(p) ==
  CASE p = "highspeed-demo"   -> "xhttp-stream-up"
    [] p = "gaming-lite-demo" -> "hysteria2-salamander"
    [] OTHER                  -> p

OwnPort == [socks5 |-> 1080, http |-> 8080, wireguard |-> 51820]

(* generate_protocol_link. *)
Endpoint(protocol, port) ==
  LET p == Normal(protocol) IN
  [by   |-> Dials(p),
   host |-> "domain",
   port |-> IF port = 443 /\ p \in DOMAIN OwnPort THEN OwnPort[p] ELSE port]

(* Mutant of Extras: the link's own protocol is listed once more. *)
ExtrasAll(l) == {"vless-ws", "xhttp-packet-up", "trojan-ws", "shadowsocks",
                 "hysteria2", "tuic", "wireguard"}

Extras(l) == {"vless-ws", "xhttp-packet-up", "trojan-ws", "shadowsocks",
              "hysteria2", "tuic", "wireguard"} \ {l.protocol}

(* generate_all_protocols_for_link: an entry has an id and an endpoint. *)
Bundle(l) ==
  {[id |-> "primary", to |-> Endpoint(l.protocol, l.port)],
   [id |-> "vless-clean-ip",
    to |-> [by |-> "vless-ws", host |-> "clean ip", port |-> 443]]}
  \cup {[id |-> p, to |-> Endpoint(p, 443)] : p \in Extras(l)}

(* The profiles for sing-box and for Clash do not look at the link. *)
Singbox == {Endpoint(p, 443) : p \in {"vless-ws", "xhttp-packet-up",
                                      "trojan-ws", "shadowsocks", "hysteria2"}}
Clash == Singbox \ {Endpoint("xhttp-packet-up", 443)}

(* The paths of an endpoint, and the routes the gateway has.  A path is    *)
(* what comes before the uuid, and how many segments come after it.        *)
Path(to) ==
  CASE to.by \in {"vless-ws", "vmess-ws", "trojan-ws"} -> <<"ws">>
    [] to.by = "xhttp-packet-up"  -> <<"xhttp-siz10", "packet-up">>
    [] to.by = "xhttp-stream-up"  -> <<"xhttp-siz10", "stream-up">>
    [] to.by = "xhttp-stream-one" -> <<"xhttp-siz10", "stream-one">>
    [] OTHER -> <<>>

Routes == {<<"ws">>, <<"xhttp">>}

(* get_subscription for a link that is there, in either form. *)
Subscription(l) == IF l.active THEN {e.to : e \in Bundle(l)} ELSE {}

(* get_group_subscription: the links whose bundles it puts together. *)
Mix(g) == {u \in DOMAIN cache : cache[u].group = g /\ cache[u].active}

-----------------------------------------------------------------------------
(* Links, categories and announcements.                                    *)

Stray(u, l) == strays' = IF l.group \in categories THEN strays \ {u} ELSE strays \cup {u}

(* A uuid that is there makes the INSERT, and with it the request, fail.   *)
AddLink(u, l) ==
  /\ u \notin DOMAIN rows
  /\ rows' = Insert(rows, u, l)
  /\ cache' = Insert(cache, u, l)
  /\ Stray(u, l)
  /\ UNCHANGED <<categories, nextCategory, backup, noticeVars>>

Or(x, default) == IF x = 0 THEN default ELSE x

(* create_link: the protocol is normalised, and no group is group 1. *)
CreateLink(u, body) ==
  LET l == Change(NewLink, body) IN
  AddLink(u, [l EXCEPT !.group = Or(@, 1), !.protocol = Normal(@)])

(* update_link_endpoint: the fields go in as they are. *)
PatchLink(u, body) ==
  /\ u \in DOMAIN cache
  /\ rows' = [rows EXCEPT ![u] = Change(@, body)]
  /\ cache' = [cache EXCEPT ![u] = Change(@, body)]
  /\ IF "group" \in DOMAIN body THEN Stray(u, body) ELSE UNCHANGED strays
  /\ UNCHANGED <<categories, nextCategory, backup, noticeVars>>

DeleteLink(u) ==
  /\ rows' = Remove(rows, {u})
  /\ cache' = Remove(cache, {u})
  /\ strays' = strays \ {u}
  /\ UNCHANGED <<categories, nextCategory, backup, noticeVars>>

DownloadBackup ==
  /\ backup' = cache
  /\ UNCHANGED <<categories, nextCategory, linkVars, noticeVars>>

(* The table t without the links that went, and with those of the backup   *)
(* that came: links that are there keep their group, others bring theirs.  *)
Restored(t, went, came) ==
  LET stays == DOMAIN t \ went IN
  [u \in stays \cup came |->
     IF u \notin came THEN t[u]
     ELSE [backup[u] EXCEPT !.group = IF u \in stays THEN t[u].group ELSE Or(@, 1)]]

(* restore_backup_endpoint: replacing deletes all links first, merging     *)
(* none, and then the links of the backup come one by one; the request may *)
(* fail at any of them, and nothing already done is undone.                *)
RestoreBackup(went, came) ==
  LET new  == came \ (DOMAIN cache \ went)
      lost == {u \in new : Or(backup[u].group, 1) \notin categories} IN
  /\ went \subseteq DOMAIN cache /\ came \subseteq DOMAIN backup
  /\ came = {} \/ went \in {{}, DOMAIN cache}
  /\ rows' = Restored(rows, went, came)
  /\ cache' = Restored(cache, went, came)
  /\ strays' = (strays \ (went \cup new)) \cup lost
  /\ UNCHANGED <<categories, nextCategory, backup, noticeVars>>

Expired(t, u) ==
  [x \in DOMAIN t |-> IF x = u THEN [t[x] EXCEPT !.expired = TRUE] ELSE t[x]]

(* The expiry of a link passes, in every copy of it. *)
ExpireLink(u) ==
  /\ u \in DOMAIN cache
  /\ rows' = Expired(rows, u)
  /\ cache' = Expired(cache, u)
  /\ backup' = Expired(backup, u)
  /\ UNCHANGED <<categories, nextCategory, noticeVars, strays>>

CreateCategory ==
  /\ nextCategory <= MaxCategory
  /\ categories' = categories \cup {nextCategory}
  /\ nextCategory' = nextCategory + 1
  /\ UNCHANGED <<linkVars, backup, noticeVars>>

Regrouped(t, c) ==
  [u \in DOMAIN t |-> IF t[u].group = c THEN [t[u] EXCEPT !.group = 1] ELSE t[u]]

(* Mutant of DeleteCategory: the cache is not told. *)
DeleteCategoryRows(c) ==
  /\ c # 1
  /\ rows' = Regrouped(rows, c)
  /\ categories' = categories \ {c}
  /\ UNCHANGED <<cache, strays, nextCategory, backup, noticeVars>>

(* Mutant of DeleteCategory: the links are left in it. *)
DeleteCategoryOnly(c) ==
  /\ c # 1
  /\ categories' = categories \ {c}
  /\ UNCHANGED <<linkVars, nextCategory, backup, noticeVars>>

(* Any id but 1, of a category or not. *)
DeleteCategory(c) ==
  /\ c # 1
  /\ rows' = Regrouped(rows, c)
  /\ cache' = Regrouped(cache, c)
  /\ categories' = categories \ {c}
  /\ strays' = {u \in strays : rows[u].group # c}
  /\ UNCHANGED <<nextCategory, backup, noticeVars>>

AddNotice ==
  /\ nextNotice <= MaxNotice
  /\ notices' = Insert(notices, nextNotice, TRUE)
  /\ nextNotice' = nextNotice + 1
  /\ UNCHANGED <<categories, nextCategory, linkVars, backup>>

ToggleNotice(i, shown) ==
  /\ notices' = [n \in DOMAIN notices |-> IF n = i THEN shown ELSE notices[n]]
  /\ UNCHANGED <<categories, nextCategory, linkVars, backup, nextNotice>>

DeleteNotice(i) ==
  /\ notices' = Remove(notices, {i})
  /\ UNCHANGED <<categories, nextCategory, linkVars, backup, nextNotice>>

(* init_db loads the cache; a group of 0 is taken for none. *)
BootCatalog ==
  /\ cache' = [u \in DOMAIN rows |-> [rows[u] EXCEPT !.group = Or(@, 1)]]
  /\ UNCHANGED <<categories, nextCategory, rows, strays, backup, noticeVars>>

-----------------------------------------------------------------------------

CatalogTypeOK ==
  /\ categories \subseteq 1..MaxCategory
  /\ nextCategory \in 2..(MaxCategory + 1)
  /\ IsTable(rows, Uuids, Links)
  /\ IsTable(cache, Uuids, Links)
  /\ IsTable(backup, Uuids, Links)
  /\ IsTable(notices, 1..MaxNotice, BOOLEAN)
  /\ nextNotice \in 1..(MaxNotice + 1)
  /\ strays \subseteq DOMAIN rows

(* The cache has the links of the table, each in its group; but a group 0, *)
(* which a PATCH can set, is group 1 after a restart.                      *)
GroupsAgree ==
  /\ DOMAIN cache = DOMAIN rows
  /\ \A u \in DOMAIN rows :
       cache[u] = rows[u] \/ cache[u] = [rows[u] EXCEPT !.group = Or(@, 1)]

(* A link is in a category that exists, however categories come and go,    *)
(* unless it was put there by a request or a backup that named a missing   *)
(* one: neither the endpoints nor a restore look (main.py:291, 548, 590).  *)
NoStrandedLinks ==
  \A u \in DOMAIN rows \ strays : rows[u].group \in categories

(* What a subscription hands out: no endpoint twice, one that the gateway  *)
(* has a route for, and all that the sing-box and Clash profiles have,     *)
(* unless the link's protocol was stored under an alias or its port is not *)
(* 443, which only the first entry follows (protocols.py:466-713).         *)
BundleSound ==
  \A u \in DOMAIN cache :
    LET l == cache[u]  B == Bundle(l) IN
    /\ l.protocol \in Canonical => \A e, f \in B : e.to = f.to => e = f
    /\ \E e \in B : Path(e.to) \in Routes /\ e.to.host = "domain"
    /\ Singbox \cup Clash \subseteq {e.to : e \in B} \/ l.port # 443

(* "If client is expired or disabled, return zero configs" (sub.py:54). *)
ExpiredGetsNothing ==
  \A u \in DOMAIN cache : cache[u].expired => Subscription(cache[u]) = {}
=============================================================================
