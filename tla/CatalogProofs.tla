---------------------------- MODULE CatalogProofs ----------------------------
(***************************************************************************)
(* Lemmas about the steps of Catalog, for any links, bodies and bounds;    *)
(* ManagementProofs makes theorems about the panel of them.                *)
(***************************************************************************)
EXTENDS Catalog, TLAPS

(* What happens to the catalog in one step of the panel. *)
CatalogStep ==
  \/ \E u \in Uuids, body \in Bodies : CreateLink(u, body) \/ PatchLink(u, body)
  \/ \E u \in Uuids : AddLink(u, NewLink) \/ DeleteLink(u) \/ ExpireLink(u)
  \/ DownloadBackup
  \/ \E went, came \in SUBSET Uuids : RestoreBackup(went, came)
  \/ CreateCategory
  \/ \E c \in Groups : DeleteCategory(c)
  \/ AddNotice
  \/ \E i \in 1..MaxNotice, shown \in BOOLEAN : ToggleNotice(i, shown)
  \/ \E i \in 1..MaxNotice : DeleteNotice(i)
  \/ BootCatalog
  \/ UNCHANGED catalogVars

CatalogInv ==
  /\ CatalogTypeOK
  /\ 1 \in categories
  /\ GroupsAgree
  /\ NoStrandedLinks

(* Tables.                                                                 *)

LEMMA InsertTable ==
  ASSUME NEW Keys, NEW Rows, NEW t, IsTable(t, Keys, Rows),
         NEW k \in Keys, NEW row \in Rows
  PROVE  IsTable(Insert(t, k, row), Keys, Rows)
BY DEF IsTable, Insert

LEMMA RemoveTable ==
  ASSUME NEW Keys, NEW Rows, NEW t, IsTable(t, Keys, Rows), NEW ks
  PROVE  IsTable(Remove(t, ks), Keys, Rows)
BY DEF IsTable, Remove

(* The group of a link after a body.                                       *)
LEMMA ChangedGroup ==
  ASSUME NEW l \in Links, NEW body
  PROVE  Change(l, body).group = IF "group" \in DOMAIN body THEN body.group ELSE l.group
BY DEF Change, Links

LEMMA NormalType ==
  ASSUME NEW p \in Stored \cup Canonical
  PROVE  Normal(p) \in Canonical
BY DEF Normal, Alias, Canonical

LEMMA NewLinkType == NewLink \in Links
BY CatalogAssumption DEF NewLink, Links, Groups, Canonical

LEMMA Regroup ==
  ASSUME NEW l \in Links, NEW g \in Groups
  PROVE  [l EXCEPT !.group = g] \in Links
BY DEF Links


LEMMA OrType ==
  ASSUME NEW g \in Groups
  PROVE  Or(g, 1) \in Groups
BY CatalogAssumption DEF Or, Groups

LEMMA RegroupedTable ==
  ASSUME NEW t, IsTable(t, Uuids, Links), NEW c
  PROVE  IsTable(Regrouped(t, c), Uuids, Links)
<1>1. 1 \in Groups
  BY CatalogAssumption DEF Groups
<1>. QED
  BY <1>1, Regroup DEF Regrouped, IsTable

LEMMA ExpiredTable ==
  ASSUME NEW t, IsTable(t, Uuids, Links), NEW c
  PROVE  IsTable(Expired(t, c), Uuids, Links)
<1>1. \A l \in Links : [l EXCEPT !.expired = TRUE] \in Links
  BY DEF Links
<1>. QED
  BY <1>1 DEF Expired, IsTable

LEMMA RestoredTable ==
  ASSUME NEW t, IsTable(t, Uuids, Links), IsTable(backup, Uuids, Links),
         NEW went, NEW came \in SUBSET DOMAIN backup
  PROVE  IsTable(Restored(t, went, came), Uuids, Links)
<1>1. ASSUME NEW u \in DOMAIN Restored(t, went, came)
      PROVE  u \in Uuids /\ Restored(t, went, came)[u] \in Links
  <2>1. \A l \in Links : [l EXCEPT !.group = Or(@, 1)] \in Links
    <3>. SUFFICES ASSUME NEW l \in Links
                  PROVE  [l EXCEPT !.group = Or(l.group, 1)] \in Links
      OBVIOUS
    <3>1. l.group \in Groups
      BY DEF Links
    <3>. QED
      BY <3>1, OrType, Regroup
  <2>2. \A l, m \in Links : [l EXCEPT !.group = m.group] \in Links
    <3>. SUFFICES ASSUME NEW l \in Links, NEW m \in Links
                  PROVE  [l EXCEPT !.group = m.group] \in Links
      OBVIOUS
    <3>1. m.group \in Groups
      BY DEF Links
    <3>. QED
      BY <3>1, Regroup
  <2>. QED
    BY <1>1, <2>1, <2>2 DEF Restored, IsTable
<1>. QED
  BY <1>1 DEF IsTable, Restored

-----------------------------------------------------------------------------
(* The invariant.                                                          *)

LEMMA CatalogInit == InitCatalog => CatalogInv
<1>. SUFFICES ASSUME InitCatalog PROVE CatalogInv
  OBVIOUS
<1>1. CatalogTypeOK
  BY CatalogAssumption DEF InitCatalog, CatalogTypeOK, IsTable, NoRows
<1>. QED
  BY <1>1 DEF InitCatalog, CatalogInv, GroupsAgree, NoStrandedLinks, NoRows

(* Steps on one link.                                                      *)
LEMMA KeepsAddLink ==
  ASSUME CatalogInv, NEW u \in Uuids, NEW l \in Links, AddLink(u, l)
  PROVE  CatalogInv'
<1>. USE DEF CatalogInv, CatalogTypeOK
<1>1. IsTable(rows', Uuids, Links) /\ IsTable(cache', Uuids, Links)
  BY InsertTable DEF AddLink
<1>2. strays' \subseteq DOMAIN rows'
  BY DEF AddLink, Insert, Stray
<1>3. CatalogTypeOK'
  BY <1>1, <1>2 DEF AddLink, noticeVars
<1>4. GroupsAgree'
  BY DEF AddLink, GroupsAgree, Insert
<1>5. NoStrandedLinks'
  BY DEF AddLink, NoStrandedLinks, Insert, Stray
<1>. QED
  BY <1>3, <1>4, <1>5 DEF AddLink

LEMMA CreatedType ==
  ASSUME NEW body \in Bodies
  PROVE  [Change(NewLink, body) EXCEPT !.group = Or(@, 1), !.protocol = Normal(@)]
           \in Links
<1>. DEFINE l == Change(NewLink, body)
<1>1. l \in Links
  BY NewLinkType, CatalogAssumption
<1>2. Or(l.group, 1) \in Groups /\ Normal(l.protocol) \in Canonical
  BY <1>1, OrType, NormalType DEF Links
<1>. HIDE DEF l
<1>3. [l EXCEPT !.group = Or(l.group, 1), !.protocol = Normal(l.protocol)] \in Links
  BY <1>1, <1>2 DEF Links
<1>. QED
  BY <1>3 DEF l

LEMMA KeepsPatchLink ==
  ASSUME CatalogInv, NEW u \in Uuids, NEW body \in Bodies, PatchLink(u, body)
  PROVE  CatalogInv'
<1>. USE DEF CatalogInv, CatalogTypeOK
<1>1. u \in DOMAIN rows /\ rows[u] \in Links /\ cache[u] \in Links
  BY DEF PatchLink, GroupsAgree, IsTable
<1>2. Change(rows[u], body) \in Links /\ Change(cache[u], body) \in Links
  BY <1>1, CatalogAssumption
<1>3. IsTable(rows', Uuids, Links) /\ IsTable(cache', Uuids, Links)
  BY <1>1, <1>2 DEF PatchLink, IsTable
<1>4. strays' \subseteq DOMAIN rows'
  BY <1>1 DEF PatchLink, Stray
<1>5. CatalogTypeOK'
  BY <1>3, <1>4 DEF PatchLink, noticeVars
<1>6. Change(cache[u], body) = Change(rows[u], body)
        \/ Change(cache[u], body) = [Change(rows[u], body) EXCEPT !.group = Or(@, 1)]
  <2>1. CASE cache[u] = rows[u]
    BY <2>1
  <2>2. CASE cache[u] = [rows[u] EXCEPT !.group = Or(@, 1)] /\ "group" \in DOMAIN body
    BY <1>1, <2>2 DEF Change, Links
  <2>3. CASE cache[u] = [rows[u] EXCEPT !.group = Or(@, 1)] /\ "group" \notin DOMAIN body
    BY <1>1, <2>3 DEF Change, Links
  <2>. QED
    BY <1>1, <2>1, <2>2, <2>3 DEF GroupsAgree
<1>7. GroupsAgree'
  BY <1>1, <1>6 DEF PatchLink, GroupsAgree
<1>8. NoStrandedLinks'
  BY <1>1, ChangedGroup DEF PatchLink, NoStrandedLinks, Stray
<1>. QED
  BY <1>5, <1>7, <1>8 DEF PatchLink

LEMMA KeepsDeleteLink ==
  ASSUME CatalogInv, NEW u \in Uuids, DeleteLink(u)
  PROVE  CatalogInv'
<1>. USE DEF CatalogInv, CatalogTypeOK
<1>1. IsTable(rows', Uuids, Links) /\ IsTable(cache', Uuids, Links)
  BY RemoveTable DEF DeleteLink
<1>2. CatalogTypeOK'
  BY <1>1 DEF DeleteLink, noticeVars, Remove
<1>3. GroupsAgree' /\ NoStrandedLinks'
  BY DEF DeleteLink, GroupsAgree, NoStrandedLinks, Remove
<1>. QED
  BY <1>2, <1>3 DEF DeleteLink

LEMMA KeepsExpireLink ==
  ASSUME CatalogInv, NEW u \in Uuids, ExpireLink(u)
  PROVE  CatalogInv'
<1>. USE DEF CatalogInv, CatalogTypeOK
<1>1. /\ IsTable(rows', Uuids, Links) /\ IsTable(cache', Uuids, Links)
      /\ IsTable(backup', Uuids, Links)
  BY ExpiredTable DEF ExpireLink
<1>2. CatalogTypeOK'
  BY <1>1 DEF ExpireLink, noticeVars, Expired
<1>3. ASSUME NEW x \in DOMAIN rows'
      PROVE  /\ x \in DOMAIN cache' /\ rows'[x].group = rows[x].group
             /\ cache'[x] = rows'[x] \/ cache'[x] = [rows'[x] EXCEPT !.group = Or(@, 1)]
  <2>1. x \in DOMAIN rows /\ x \in DOMAIN cache /\ rows[x] \in Links
    BY DEF ExpireLink, Expired, GroupsAgree, IsTable
  <2>2. CASE cache[x] = rows[x]
    BY <2>1, <2>2 DEF ExpireLink, Expired, Links
  <2>3. CASE cache[x] = [rows[x] EXCEPT !.group = Or(@, 1)]
    BY <2>1, <2>3 DEF ExpireLink, Expired, Links
  <2>. QED
    BY <2>1, <2>2, <2>3 DEF GroupsAgree
<1>4. GroupsAgree'
  BY <1>3 DEF GroupsAgree, ExpireLink, Expired
<1>5. NoStrandedLinks'
  BY <1>3 DEF NoStrandedLinks, ExpireLink, Expired
<1>. QED
  BY <1>2, <1>4, <1>5 DEF ExpireLink

-----------------------------------------------------------------------------
(* Steps on many links.                                                    *)

LEMMA KeepsRestoreBackup ==
  ASSUME CatalogInv, NEW went, NEW came, RestoreBackup(went, came)
  PROVE  CatalogInv'
<1>. USE DEF CatalogInv, CatalogTypeOK
<1>. DEFINE new  == came \ (DOMAIN cache \ went)
            lost == {u \in new : Or(backup[u].group, 1) \notin categories}
<1>1. IsTable(rows', Uuids, Links) /\ IsTable(cache', Uuids, Links)
  BY RestoredTable DEF RestoreBackup
<1>2. /\ rows' = Restored(rows, went, came) /\ cache' = Restored(cache, went, came)
      /\ went \subseteq DOMAIN cache /\ came \subseteq DOMAIN backup
      /\ strays' = (strays \ (went \cup new)) \cup lost
      /\ DOMAIN cache = DOMAIN rows
      /\ UNCHANGED <<categories, nextCategory, backup, notices, nextNotice>>
  BY DEF RestoreBackup, GroupsAgree, noticeVars
<1>3. strays' \subseteq DOMAIN rows'
  BY <1>2 DEF Restored
<1>4. CatalogTypeOK'
  BY <1>1, <1>2, <1>3
<1>5. ASSUME NEW u \in DOMAIN rows'
      PROVE  /\ u \in DOMAIN cache'
             /\ cache'[u] = rows'[u] \/ cache'[u] = [rows'[u] EXCEPT !.group = Or(@, 1)]
  <2>1. u \in DOMAIN cache'
    BY <1>2 DEF Restored
  <2>2. CASE u \notin came
    BY <1>2, <2>1, <2>2 DEF Restored, GroupsAgree
  <2>3. CASE u \in new
    BY <1>2, <2>1, <2>3 DEF Restored
  <2>4. CASE u \in came /\ u \notin new
    <3>1. /\ rows'[u] = [backup[u] EXCEPT !.group = rows[u].group]
          /\ cache'[u] = [backup[u] EXCEPT !.group = cache[u].group]
          /\ u \in DOMAIN rows
      BY <1>2, <2>1, <2>4 DEF Restored
    <3>2. rows[u] \in Links /\ backup[u] \in Links
      BY <1>2, <3>1, <2>4 DEF IsTable
    <3>3. cache[u].group = rows[u].group \/ cache[u].group = Or(rows[u].group, 1)
      BY <3>1, <3>2 DEF GroupsAgree, Links
    <3>4. rows'[u].group = rows[u].group
      BY <3>1, <3>2 DEF Links
    <3>. QED
      BY <2>1, <3>1, <3>2, <3>3, <3>4 DEF Links
  <2>. QED
    BY <2>2, <2>3, <2>4
<1>6. GroupsAgree'
  BY <1>2, <1>5 DEF GroupsAgree, Restored
<1>7. ASSUME NEW u \in DOMAIN rows' \ strays'
      PROVE  rows'[u].group \in categories
  <2>1. CASE u \in new
    <3>1. rows'[u] = [backup[u] EXCEPT !.group = Or(@, 1)]
      BY <1>2, <2>1 DEF Restored
    <3>2. rows'[u].group = Or(backup[u].group, 1)
      BY <1>2, <2>1, <3>1 DEF IsTable, Links
    <3>. QED
      BY <1>2, <1>7, <2>1, <3>2
  <2>2. CASE u \notin new
    <3>1. u \in DOMAIN rows /\ u \notin strays
      BY <1>2, <1>7, <2>2 DEF Restored
    <3>2. rows'[u].group = rows[u].group
      BY <1>2, <1>7, <2>2, <3>1 DEF Restored, IsTable, Links
    <3>. QED
      BY <3>1, <3>2 DEF NoStrandedLinks
  <2>. QED
    BY <2>1, <2>2
<1>8. NoStrandedLinks'
  BY <1>2, <1>7 DEF NoStrandedLinks
<1>. QED
  BY <1>2, <1>4, <1>6, <1>8

LEMMA KeepsDeleteCategory ==
  ASSUME CatalogInv, NEW c \in Groups, DeleteCategory(c)
  PROVE  CatalogInv'
<1>. USE DEF CatalogInv, CatalogTypeOK
<1>1. IsTable(rows', Uuids, Links) /\ IsTable(cache', Uuids, Links)
  BY RegroupedTable DEF DeleteCategory
<1>2. CatalogTypeOK' /\ 1 \in categories'
  BY <1>1 DEF DeleteCategory, noticeVars, Regrouped
<1>3. ASSUME NEW u \in DOMAIN rows'
      PROVE  /\ u \in DOMAIN cache' /\ u \in DOMAIN rows
             /\ cache'[u] = rows'[u] \/ cache'[u] = [rows'[u] EXCEPT !.group = Or(@, 1)]
             /\ rows'[u].group = IF rows[u].group = c THEN 1 ELSE rows[u].group
  <2>1. /\ u \in DOMAIN cache' /\ u \in DOMAIN rows /\ u \in DOMAIN cache
        /\ rows[u] \in Links
    BY DEF DeleteCategory, Regrouped, GroupsAgree, IsTable
  <2>2. /\ rows'[u] = IF rows[u].group = c THEN [rows[u] EXCEPT !.group = 1] ELSE rows[u]
        /\ cache'[u] = IF cache[u].group = c THEN [cache[u] EXCEPT !.group = 1] ELSE cache[u]
    BY <2>1 DEF DeleteCategory, Regrouped
  <2>3. rows'[u].group = IF rows[u].group = c THEN 1 ELSE rows[u].group
    BY <2>1, <2>2 DEF Links
  <2>4. CASE cache[u] = rows[u]
    BY <2>1, <2>2, <2>3, <2>4
  <2>5. CASE cache[u] = [rows[u] EXCEPT !.group = Or(@, 1)]
    BY <2>1, <2>2, <2>3, <2>5 DEF Links, Or
  <2>. QED
    BY <2>1, <2>3, <2>4, <2>5 DEF GroupsAgree
<1>4. GroupsAgree'
  BY <1>3 DEF GroupsAgree, DeleteCategory, Regrouped
<1>5. NoStrandedLinks'
  BY <1>3 DEF NoStrandedLinks, DeleteCategory
<1>. QED
  BY <1>2, <1>4, <1>5

LEMMA KeepsBoot ==
  ASSUME CatalogInv, BootCatalog
  PROVE  CatalogInv'
<1>. USE DEF CatalogInv, CatalogTypeOK
<1>1. IsTable(cache', Uuids, Links)
  BY Regroup, OrType DEF BootCatalog, IsTable, Links
<1>2. CatalogTypeOK'
  BY <1>1 DEF BootCatalog, noticeVars
<1>3. GroupsAgree' /\ NoStrandedLinks'
  BY DEF BootCatalog, GroupsAgree, NoStrandedLinks
<1>. QED
  BY <1>2, <1>3 DEF BootCatalog

LEMMA CreateCategoryKeeps ==
  ASSUME CatalogInv, CreateCategory
  PROVE  CatalogInv'
BY CatalogAssumption DEF CatalogInv, CatalogTypeOK, CreateCategory, GroupsAgree,
   NoStrandedLinks, linkVars, noticeVars

LEMMA NoticesKeep ==
  ASSUME CatalogInv,
         \/ AddNotice
         \/ \E i \in 1..MaxNotice, shown \in BOOLEAN : ToggleNotice(i, shown)
         \/ \E i \in 1..MaxNotice : DeleteNotice(i)
  PROVE  CatalogInv'
<1>1. UNCHANGED <<categories, nextCategory, rows, cache, strays, backup>>
  BY DEF AddNotice, ToggleNotice, DeleteNotice, linkVars
<1>2. IsTable(notices', 1..MaxNotice, BOOLEAN) /\ nextNotice' \in 1..(MaxNotice + 1)
  <2>1. CASE AddNotice
    <3>1. /\ IsTable(notices, 1..MaxNotice, BOOLEAN) /\ TRUE \in BOOLEAN
          /\ nextNotice \in 1..MaxNotice /\ nextNotice + 1 \in 1..(MaxNotice + 1)
      BY <2>1, CatalogAssumption DEF AddNotice, CatalogInv, CatalogTypeOK
    <3>2. IsTable(Insert(notices, nextNotice, TRUE), 1..MaxNotice, BOOLEAN)
      BY <3>1, InsertTable
    <3>. QED
      BY <2>1, <3>1, <3>2 DEF AddNotice
  <2>2. CASE \E i \in 1..MaxNotice, shown \in BOOLEAN : ToggleNotice(i, shown)
    BY <2>2 DEF ToggleNotice, IsTable, CatalogInv, CatalogTypeOK
  <2>3. CASE \E i \in 1..MaxNotice : DeleteNotice(i)
    BY <2>3, RemoveTable DEF DeleteNotice, CatalogInv, CatalogTypeOK
  <2>. QED
    BY <2>1, <2>2, <2>3
<1>. QED
  BY <1>1, <1>2 DEF CatalogInv, CatalogTypeOK, GroupsAgree, NoStrandedLinks

(* CatalogInv is inductive.                                                *)
LEMMA CatalogKeeps ==
  ASSUME CatalogInv, CatalogStep
  PROVE  CatalogInv'
<1>1. ASSUME NEW u \in Uuids, NEW body \in Bodies, CreateLink(u, body)
      PROVE  CatalogInv'
  BY <1>1, CreatedType, KeepsAddLink DEF CreateLink
<1>2. ASSUME NEW u \in Uuids, AddLink(u, NewLink) PROVE CatalogInv'
  BY <1>2, NewLinkType, KeepsAddLink
<1>3. CASE DownloadBackup
  BY <1>3 DEF DownloadBackup, CatalogInv, CatalogTypeOK, GroupsAgree,
     NoStrandedLinks, linkVars, noticeVars
<1>4. CASE UNCHANGED catalogVars
  BY <1>4 DEF catalogVars, CatalogInv, CatalogTypeOK, GroupsAgree, NoStrandedLinks
<1>. QED
  BY <1>1, <1>2, <1>3, <1>4, KeepsPatchLink, KeepsDeleteLink, KeepsExpireLink,
     KeepsRestoreBackup, KeepsDeleteCategory, KeepsBoot, CreateCategoryKeeps,
     NoticesKeep
  DEF CatalogStep

-----------------------------------------------------------------------------
(* A category goes by DeleteCategory alone, which moves its mix.           *)

LEMMA OnlyDeleteCategory ==
  ASSUME CatalogStep, NEW c \in categories, c \notin categories'
  PROVE  DeleteCategory(c)
BY DEF CatalogStep, CreateLink, AddLink, PatchLink, DeleteLink, ExpireLink,
   DownloadBackup, RestoreBackup, CreateCategory, DeleteCategory, AddNotice,
   ToggleNotice, DeleteNotice, BootCatalog, catalogVars

LEMMA DeletedMix ==
  ASSUME CatalogInv, NEW c \in categories, DeleteCategory(c)
  PROVE  /\ Mix(c)' = {}
         /\ Mix(1)' = Mix(1) \cup Mix(c)
         /\ \A g \in Groups \ {1, c} : Mix(g)' = Mix(g)
<1>1. /\ DOMAIN cache' = DOMAIN cache
      /\ \A u \in DOMAIN cache :
           /\ cache[u].group \in Groups
           /\ cache'[u].active = cache[u].active
           /\ cache'[u].group = IF cache[u].group = c THEN 1 ELSE cache[u].group
  BY DEF DeleteCategory, Regrouped, CatalogInv, CatalogTypeOK, IsTable, Links
<1>2. c # 1
  BY DEF DeleteCategory
<1>. QED
  BY <1>1, <1>2 DEF Mix

-----------------------------------------------------------------------------
(* What a subscription hands out.                                          *)

LEMMA DialsSelf ==
  ASSUME NEW p, p # "highspeed-demo", p # "gaming-lite-demo"
  PROVE  Dials(p) = p
BY Zenon DEF Dials

LEMMA DialsDemo ==
  /\ Dials("highspeed-demo") = "xhttp-stream-up"
  /\ Dials("gaming-lite-demo") = "hysteria2-salamander"
BY Zenon DEF Dials

LEMMA WsPath ==
  ASSUME NEW to, to.by \in {"vless-ws", "vmess-ws", "trojan-ws"}
  PROVE  Path(to) = <<"ws">>
BY Zenon DEF Path

(* An entry of a bundle is told from the others by what it dials. *)
Plain == Canonical \ {"highspeed-demo", "gaming-lite-demo"}
Offered == {"vless-ws", "xhttp-packet-up", "trojan-ws", "shadowsocks", "hysteria2",
            "tuic", "wireguard"}

LEMMA OfferedPlain ==
  /\ Offered \subseteq Plain
  /\ \A p \in Canonical : Normal(p) = p
  /\ \A p \in Plain : Dials(p) = p
<1>1. \A p \in Canonical : Normal(p) = p
  BY DEF Canonical, Normal, Alias
<1>2. \A p \in Plain : Dials(p) = p
  BY DialsSelf DEF Plain
<1>. QED
  BY <1>1, <1>2 DEF Offered, Plain, Canonical

LEMMA DialsApart ==
  ASSUME NEW p \in Canonical, NEW q \in Offered, p # q
  PROVE  Dials(p) # Dials(q)
<1>1. Dials(q) = q /\ q \in Offered
  BY OfferedPlain
<1>2. CASE p \in Plain
  BY <1>1, <1>2, OfferedPlain
<1>3. CASE p \in {"highspeed-demo", "gaming-lite-demo"}
  BY <1>1, <1>3, DialsDemo DEF Offered
<1>. QED
  BY <1>2, <1>3 DEF Plain

LEMMA EndpointFields ==
  ASSUME NEW p, NEW port
  PROVE  /\ Endpoint(p, port).by = Dials(Normal(p))
         /\ Endpoint(p, port).host = "domain"
BY DEF Endpoint

LEMMA ExtrasOffered ==
  ASSUME NEW l
  PROVE  Extras(l) = Offered \ {l.protocol}
BY DEF Extras, Offered

PrimaryEntry(l) == [id |-> "primary", to |-> Endpoint(l.protocol, l.port)]
CleanEntry == [id |-> "vless-clean-ip",
               to |-> [by |-> "vless-ws", host |-> "clean ip", port |-> 443]]
ExtraEntry(p) == [id |-> p, to |-> Endpoint(p, 443)]

LEMMA BundleEntries ==
  ASSUME NEW l, NEW e
  PROVE  e \in Bundle(l) <=>
           \/ e = PrimaryEntry(l)
           \/ e = CleanEntry
           \/ \E p \in Offered \ {l.protocol} : e = ExtraEntry(p)
<1>1. Bundle(l) = {PrimaryEntry(l), CleanEntry} \cup {ExtraEntry(p) : p \in Extras(l)}
  BY DEF Bundle, PrimaryEntry, CleanEntry, ExtraEntry
<1>2. e \in {ExtraEntry(p) : p \in Extras(l)} <=> \E p \in Extras(l) : e = ExtraEntry(p)
  OBVIOUS
<1>. QED
  BY <1>1, <1>2, ExtrasOffered

(* No endpoint twice. *)
LEMMA BundleApart ==
  ASSUME NEW l \in Links, l.protocol \in Canonical,
         NEW e \in Bundle(l), NEW f \in Bundle(l), e.to = f.to
  PROVE  e = f
<1>1. \A x \in Bundle(l) : \/ x = PrimaryEntry(l)
                           \/ x = CleanEntry
                           \/ \E p \in Offered \ {l.protocol} : x = ExtraEntry(p)
  BY BundleEntries
<1>2. /\ PrimaryEntry(l).to.host = "domain"
      /\ PrimaryEntry(l).to.by = Dials(l.protocol)
  BY EndpointFields, OfferedPlain DEF PrimaryEntry
<1>3. CleanEntry.to.host = "clean ip"
  BY DEF CleanEntry
<1>4. \A p \in Offered : ExtraEntry(p).to.host = "domain" /\ ExtraEntry(p).to.by = p
  BY EndpointFields, OfferedPlain DEF ExtraEntry, Plain
<1>5. \A p \in Offered \ {l.protocol} : Dials(l.protocol) # p
  BY DialsApart, OfferedPlain
<1>6. ASSUME NEW p \in Offered, NEW q \in Offered, ExtraEntry(p).to = ExtraEntry(q).to
      PROVE  ExtraEntry(p) = ExtraEntry(q)
  <2>1. p = q
    BY <1>4, <1>6
  <2>. QED
    BY <2>1
<1>7. \A p \in Offered \ {l.protocol} : PrimaryEntry(l).to # ExtraEntry(p).to
  BY <1>2, <1>4, <1>5
<1>8. /\ PrimaryEntry(l).to # CleanEntry.to
      /\ \A p \in Offered : ExtraEntry(p).to # CleanEntry.to
  BY <1>2, <1>3, <1>4
<1>9. CASE e = PrimaryEntry(l)
  BY <1>1, <1>7, <1>8, <1>9
<1>10. CASE e = CleanEntry
  BY <1>1, <1>8, <1>10
<1>11. ASSUME NEW p \in Offered \ {l.protocol}, e = ExtraEntry(p) PROVE e = f
  BY <1>1, <1>6, <1>7, <1>8, <1>11
<1>. QED
  BY <1>1, <1>9, <1>10, <1>11

(* One that the gateway serves: over the websocket. *)
LEMMA BundleServed ==
  ASSUME NEW l \in Links
  PROVE  \E e \in Bundle(l) : Path(e.to) \in Routes /\ e.to.host = "domain"
<1>1. \E p \in Extras(l) : p = "vless-ws" \/ p = "trojan-ws"
  BY DEF Extras
<1>2. PICK p \in Extras(l) : p = "vless-ws" \/ p = "trojan-ws"
  BY <1>1
<1>. DEFINE e == ExtraEntry(p)
<1>3. e \in Bundle(l)
  BY BundleEntries, ExtrasOffered
<1>4. e.to.by = p /\ e.to.host = "domain"
  BY <1>2, EndpointFields, OfferedPlain DEF ExtraEntry, Offered, Plain
<1>5. Path(e.to) \in Routes
  BY <1>2, <1>4, WsPath DEF Routes
<1>. QED
  BY <1>3, <1>4, <1>5

(* All that the profiles have. *)
LEMMA BundleHasProfiles ==
  ASSUME NEW l \in Links, l.port = 443
  PROVE  Singbox \cup Clash \subseteq {e.to : e \in Bundle(l)}
<1>. SUFFICES ASSUME NEW p \in Offered
              PROVE  \E e \in Bundle(l) : e.to = Endpoint(p, 443)
  BY DEF Singbox, Clash, Offered
<1>1. CASE p = l.protocol
  <2>1. PrimaryEntry(l) \in Bundle(l)
    BY BundleEntries
  <2>. QED
    BY <1>1, <2>1 DEF PrimaryEntry
<1>2. CASE p # l.protocol
  <2>1. ExtraEntry(p) \in Bundle(l)
    BY <1>2, BundleEntries
  <2>. QED
    BY <2>1 DEF ExtraEntry
<1>. QED
  BY <1>1, <1>2

LEMMA BundlesSound ==
  ASSUME CatalogTypeOK
  PROVE  BundleSound
<1>1. \A u \in DOMAIN cache : cache[u] \in Links
  BY DEF CatalogTypeOK, IsTable
<1>. QED
  BY <1>1, BundleApart, BundleServed, BundleHasProfiles DEF BundleSound
=============================================================================
