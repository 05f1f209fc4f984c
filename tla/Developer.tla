------------------------------ MODULE Developer ------------------------------
(***************************************************************************)
(* backend/internal/modules/developer: apps with their keys, webhooks and  *)
(* bots.  A handler reads the part, then its app, compares the owner, and  *)
(* writes; each is a statement of its own, on a connection of the pool.    *)
(* The list of webhooks keeps one connection while it asks for others.     *)
(***************************************************************************)
EXTENDS Naturals, FiniteSets

CONSTANTS
  Developers, Apps, AppOwner,
  Parts, PartOf,    \* the app of each part
  Keys, Hooks,      \* parts that are keys, and webhooks; the others are bots
  AppsAtFirst, PartsAtFirst,
  DevCalls, DevCall,  \* the calls: op, by, app, part, active
  Connections,      \* of the pool
  MaxDevCalls       \* bound: the calls made in one behaviour

OnApps == {"editApp", "verify", "dropApp", "readApp", "add", "list", "measure", "suite"}
OnParts == {"edit", "revoke", "drop", "test", "read"}

(* The part of "add" is the one to be; that of "list" says of which kind.  *)
ASSUME DeveloperAssumption ==
  /\ IsFiniteSet(DevCalls) /\ Apps \cap Parts = {}
  /\ AppOwner \in [Apps -> Developers] /\ PartOf \in [Parts -> Apps]
  /\ Keys \cup Hooks \subseteq Parts /\ Keys \cap Hooks = {}
  /\ AppsAtFirst \subseteq Apps /\ PartsAtFirst \subseteq {p \in Parts : PartOf[p] \in AppsAtFirst}
  /\ DevCall \in [DevCalls -> [op: {"register", "apps"} \cup OnApps \cup OnParts, by: Developers,
                               app: Apps, part: Parts, active: BOOLEAN]]
  /\ \A c \in DevCalls :
       LET d == DevCall[c]
       IN  /\ d.op = "register" => d.by = AppOwner[d.app] /\ d.app \notin AppsAtFirst
           /\ d.op = "add" => PartOf[d.part] = d.app /\ d.part \notin PartsAtFirst
           /\ d.op = "revoke" => d.part \in Keys
           /\ d.op = "test" => d.part \in Hooks
  /\ Connections \in Nat \ {0} /\ MaxDevCalls \in Nat

VARIABLES
  apps,            \* rows of developer_apps
  parts,           \* rows of developer_api_keys, _webhooks and _bots
  deliveries,      \* pairs of a call and a webhook
  dev,             \* where each call is
  rest,            \* of each list, the webhooks it has yet to scan
  touched, revealed  \* history: who inserted or changed a row, and who was shown one

devVars == <<apps, parts, deliveries, dev, rest, touched, revealed>>

App(c) == DevCall[c].app
Part(c) == DevCall[c].part
Coder(c) == DevCall[c].by
DevOp(c) == DevCall[c].op

AppRow(a, owner) == [id |-> a, owner |-> owner, verified |-> FALSE]
NewApp(c) == AppRow(App(c), Coder(c))
NewKey(c) == [id |-> Part(c), app |-> App(c), active |-> TRUE]
NewWebhook(c) == [id |-> Part(c), app |-> App(c), active |-> TRUE]
NewBot(c) == [id |-> Part(c), app |-> App(c), active |-> TRUE]

DeveloperInit ==
  /\ apps = {AppRow(a, AppOwner[a]) : a \in AppsAtFirst}
  /\ parts = {[id |-> p, app |-> PartOf[p], active |-> TRUE] : p \in PartsAtFirst}
  /\ deliveries = {} /\ touched = {} /\ revealed = {}
  /\ dev = [c \in DevCalls |-> "idle"] /\ rest = [c \in DevCalls |-> {}]

DevGoto(c, l) == dev' = [dev EXCEPT ![c] = l] /\ UNCHANGED rest
Touch(c, x) == touched' = touched \cup {<<x, Coder(c)>>}
Show(c, rows) == revealed' = revealed \cup {<<r.id, Coder(c)>> : r \in rows}

(* Mutant: a handler keeps the connection that it compared the owner on.   *)
HeldThroughout == {c \in DevCalls : dev[c] \in {"app", "write", "rows"}}

Holding == {c \in DevCalls : dev[c] = "rows"}
Connected == Cardinality(Holding) < Connections

DevBegins(c) == dev[c] = "idle" /\ Cardinality({d \in DevCalls : dev[d] # "idle"}) < MaxDevCalls
Writes(c, op) == DevOp(c) = op /\ dev[c] = "write" /\ Connected

GetApp(a) == {r \in apps : r.id = a}
GetAppsByOwner(u) == {r \in apps : r.owner = u}
GetAPIKey(id) == {r \in parts : r.id = id /\ id \in Keys}
GetWebhook(id) == {r \in parts : r.id = id /\ id \in Hooks}
GetBot(id) == {r \in parts : r.id = id /\ id \notin Keys \cup Hooks}
GetAPIKeysByAppID(a) == {r \in parts : r.app = a /\ r.id \in Keys}
GetBotsByAppID(a) == {r \in parts : r.app = a /\ r.id \notin Keys \cup Hooks}
PartRow(id) == GetAPIKey(id) \cup GetWebhook(id) \cup GetBot(id)

-----------------------------------------------------------------------------
(* Who may                                                                 *)

Allowed(c, a) == GetApp(a) \cap GetAppsByOwner(Coder(c)) # {}

RequireAppOwner(c) ==
  /\ DevOp(c) \in OnApps /\ DevBegins(c) /\ Connected
  /\ DevGoto(c, IF ~Allowed(c, App(c)) THEN "refused" ELSE "write")
  /\ UNCHANGED <<apps, parts, deliveries, touched, revealed>>

(* The part ...                                                            *)
RequirePart(c, found) ==
  /\ DevOp(c) \in OnParts /\ DevBegins(c) /\ Connected
  /\ DevGoto(c, IF found # {} THEN "app" ELSE "refused")
  /\ UNCHANGED <<apps, parts, deliveries, touched, revealed>>

RequireKeyOwner(c) == Part(c) \in Keys /\ RequirePart(c, GetAPIKey(Part(c)))
RequireWebhookOwner(c) == Part(c) \in Hooks /\ RequirePart(c, GetWebhook(Part(c)))
RequireBotOwner(c) == Part(c) \notin Keys \cup Hooks /\ RequirePart(c, GetBot(Part(c)))

(* ... and then its app.                                                   *)
RequireItsApp(c) ==
  /\ dev[c] = "app" /\ Connected
  /\ DevGoto(c, IF Allowed(c, PartOf[Part(c)]) THEN "write" ELSE "refused")
  /\ UNCHANGED <<apps, parts, deliveries, touched, revealed>>

-----------------------------------------------------------------------------
(* Apps                                                                    *)

InsertApp(r) == apps' = apps \cup {r}
CreateApp(c) ==
  /\ DevOp(c) = "register" /\ DevBegins(c) /\ Connected /\ DevGoto(c, "done")
  /\ InsertApp(NewApp(c)) /\ Touch(c, App(c))
  /\ UNCHANGED <<parts, deliveries, revealed>>

(* An UPDATE of an app that is gone by now changes nothing; the handler    *)
(* reads the row it answers.                                               *)
UpdateApp(c) ==
  /\ Writes(c, "editApp") /\ DevGoto(c, "reread")
  /\ IF GetApp(App(c)) # {} THEN Touch(c, App(c)) ELSE UNCHANGED touched
  /\ UNCHANGED <<apps, parts, deliveries, revealed>>

SetVerified(a) == apps' = {IF r.id = a THEN [r EXCEPT !.verified = TRUE] ELSE r : r \in apps}
VerifyApp(c) ==
  /\ Writes(c, "verify") /\ DevGoto(c, "done") /\ SetVerified(App(c))
  /\ UNCHANGED <<parts, deliveries, touched, revealed>>

(* ON DELETE CASCADE                                                       *)
DeleteRows(gone) ==
  /\ parts' = parts \ gone
  /\ deliveries' = {d \in deliveries : \A r \in gone : d[2] # r.id}
DeleteApp(c) ==
  /\ Writes(c, "dropApp") /\ DevGoto(c, "done")
  /\ apps' = apps \ GetApp(App(c)) /\ DeleteRows({r \in parts : r.app = App(c)})
  /\ UNCHANGED <<touched, revealed>>

-----------------------------------------------------------------------------
(* Keys, webhooks and bots                                                 *)

(* A part of an app that is gone breaks the foreign key.                   *)
InsertPart(c, row, next) ==
  /\ Writes(c, "add")
  /\ IF GetApp(row.app) # {}
     THEN parts' = parts \cup {row} /\ Touch(c, row.id) /\ DevGoto(c, next)
     ELSE DevGoto(c, "failed") /\ UNCHANGED <<parts, touched>>
  /\ UNCHANGED <<apps, deliveries, revealed>>

(* A key is read back by its hash.                                         *)
CreateKey(c) == Part(c) \in Keys /\ InsertPart(c, NewKey(c), "reread")
CreateWebhook(c) == Part(c) \in Hooks /\ InsertPart(c, NewWebhook(c), "done")
CreateBot(c) == Part(c) \notin Keys \cup Hooks /\ InsertPart(c, NewBot(c), "done")

(* The row that is answered; of an app or a key that is gone there is none. *)
Reread(c) ==
  LET found == IF DevOp(c) = "add" THEN GetAPIKey(Part(c)) ELSE GetApp(App(c))
  IN  /\ dev[c] = "reread" /\ Connected
      /\ DevGoto(c, IF found # {} THEN "done" ELSE "failed") /\ Show(c, found)
      /\ UNCHANGED <<apps, parts, deliveries, touched>>

(* All of the columns, is_active too, are those of the request.            *)
SetPart(id, flag) == parts' = {IF r.id = id THEN [r EXCEPT !.active = flag] ELSE r : r \in parts}
UpdatePart(c) ==
  /\ Writes(c, "edit") /\ DevGoto(c, "done") /\ SetPart(Part(c), DevCall[c].active)
  /\ IF PartRow(Part(c)) # {} THEN Touch(c, Part(c)) ELSE UNCHANGED touched
  /\ UNCHANGED <<apps, deliveries, revealed>>

UpdateKey(c) == Part(c) \in Keys /\ UpdatePart(c)
UpdateWebhook(c) == Part(c) \in Hooks /\ UpdatePart(c)
UpdateBot(c) == Part(c) \notin Keys \cup Hooks /\ UpdatePart(c)

RevokeKey(c) ==
  /\ Writes(c, "revoke") /\ DevGoto(c, "done") /\ SetPart(Part(c), FALSE)
  /\ UNCHANGED <<apps, deliveries, touched, revealed>>

(* Keys are revoked and never deleted.                                     *)
DeletePart(c) ==
  /\ Writes(c, "drop") /\ DevGoto(c, "done") /\ DeleteRows(PartRow(Part(c)))
  /\ UNCHANGED <<apps, touched, revealed>>

DeleteWebhook(c) == Part(c) \in Hooks /\ DeletePart(c)
DeleteBot(c) == Part(c) \notin Keys \cup Hooks /\ DeletePart(c)

(* Nothing is sent: a delivery is recorded as a success.                   *)
InsertDelivery(c, h) == deliveries' = deliveries \cup {<<c, h>>}
TestWebhook(c) ==
  /\ Writes(c, "test")
  /\ IF GetWebhook(Part(c)) # {}
     THEN InsertDelivery(c, Part(c)) /\ DevGoto(c, "done")
     ELSE DevGoto(c, "failed") /\ UNCHANGED deliveries
  /\ UNCHANGED <<apps, parts, touched, revealed>>

-----------------------------------------------------------------------------
(* The reads: after the comparison the row is read once more.              *)

Answers(c, rows) ==
  /\ DevGoto(c, "done") /\ Show(c, rows) /\ UNCHANGED <<apps, parts, deliveries, touched>>

(* The list of one's apps needs no app to compare.                         *)
ListApps(c) == DevOp(c) = "apps" /\ DevBegins(c) /\ Connected /\ Answers(c, GetAppsByOwner(Coder(c)))
ReadApp(c) == Writes(c, "readApp") /\ Answers(c, GetApp(App(c)))
ReadKey(c) == Writes(c, "read") /\ Part(c) \in Keys /\ Answers(c, GetAPIKey(Part(c)))
ReadWebhook(c) == Writes(c, "read") /\ Part(c) \in Hooks /\ Answers(c, GetWebhook(Part(c)))
ReadBot(c) == Writes(c, "read") /\ Part(c) \notin Keys \cup Hooks /\ Answers(c, GetBot(Part(c)))
ListKeys(c) == Writes(c, "list") /\ Part(c) \in Keys /\ Answers(c, GetAPIKeysByAppID(App(c)))
ListBots(c) == Writes(c, "list") /\ Part(c) \notin Keys \cup Hooks /\ Answers(c, GetBotsByAppID(App(c)))

(* The requests that are counted are recorded nowhere.                     *)
GetMetrics(c) == Writes(c, "measure") /\ Answers(c, {})

(* The suite passes if the app and its numbers can be read.                *)
TestSuite(c) == Writes(c, "suite") /\ Answers(c, GetApp(App(c)))

-----------------------------------------------------------------------------
(* The list of webhooks                                                    *)

GetWebhooksByAppID(a) == {r.id : r \in {x \in parts : x.app = a /\ x.id \in Hooks}}
ListWebhooks(c) ==
  /\ Writes(c, "list") /\ Part(c) \in Hooks
  /\ dev' = [dev EXCEPT ![c] = "rows"]
  /\ rest' = [rest EXCEPT ![c] = GetWebhooksByAppID(App(c))]
  /\ revealed' = revealed \cup {<<h, Coder(c)>> : h \in GetWebhooksByAppID(App(c))}
  /\ UNCHANGED <<apps, parts, deliveries, touched>>

(* scanWebhook asks for the statistics on a second connection, for which   *)
(* it waits as long as it takes.                                           *)
ScanWebhook(c) ==
  /\ dev[c] = "rows" /\ Connected
  /\ \E h \in rest[c] : rest' = [rest EXCEPT ![c] = @ \ {h}]
  /\ UNCHANGED <<apps, parts, deliveries, dev, touched, revealed>>

(* The statement of the statistics fails, and its nil result is used; the  *)
(* rows are closed all the same.                                           *)
ScanPanics(c) ==
  /\ dev[c] = "rows" /\ rest[c] # {} /\ Connected /\ DevGoto(c, "panicked")
  /\ UNCHANGED <<apps, parts, deliveries, touched, revealed>>

CloseRows(c) ==
  /\ dev[c] = "rows" /\ rest[c] = {} /\ DevGoto(c, "done")
  /\ UNCHANGED <<apps, parts, deliveries, touched, revealed>>

-----------------------------------------------------------------------------

DevFails(c) ==
  /\ dev[c] \in {"app", "write", "reread"} /\ DevGoto(c, "failed")
  /\ UNCHANGED <<apps, parts, deliveries, touched, revealed>>

DevAsks(c) ==
  RequireAppOwner(c) \/ RequireKeyOwner(c) \/ RequireWebhookOwner(c) \/ RequireBotOwner(c) \/ CreateApp(c)
  \/ ListApps(c)

(* A handler that is under way.                                            *)
DevProceeds(c) ==
  \/ RequireItsApp(c) \/ UpdateApp(c) \/ VerifyApp(c) \/ DeleteApp(c) \/ Reread(c)
  \/ CreateKey(c) \/ CreateWebhook(c) \/ CreateBot(c)
  \/ UpdateKey(c) \/ UpdateWebhook(c) \/ UpdateBot(c)
  \/ RevokeKey(c) \/ DeleteWebhook(c) \/ DeleteBot(c) \/ TestWebhook(c)
  \/ ReadApp(c) \/ ReadKey(c) \/ ReadWebhook(c) \/ ReadBot(c)
  \/ ListKeys(c) \/ ListBots(c) \/ GetMetrics(c) \/ TestSuite(c)
  \/ ListWebhooks(c) \/ ScanWebhook(c) \/ ScanPanics(c) \/ CloseRows(c)

DevEnded == {"done", "failed", "refused", "panicked"}
DeveloperNext ==
  \/ \E c \in {d \in DevCalls : dev[d] = "idle"} : DevAsks(c)
  \/ \E c \in {d \in DevCalls : dev[d] \notin DevEnded \cup {"idle"}} : DevProceeds(c) \/ DevFails(c)

DeveloperSpec == DeveloperInit /\ [][DeveloperNext]_devVars

-----------------------------------------------------------------------------
(* Correctness                                                             *)

(* However calls interleave with the deletion of an app, no part is left   *)
(* without its app and no delivery without its webhook, and only the owner *)
(* of an app has inserted or changed rows of it, or was shown one.         *)
RowsAreOwned ==
  /\ \A r \in parts : GetApp(r.app) # {}
  /\ \A d \in deliveries : GetWebhook(d[2]) # {}
  /\ \A t \in touched \cup revealed : t[2] = AppOwner[IF t[1] \in Apps THEN t[1] ELSE PartOf[t[1]]]

(* As long as the pool has more connections than there are lists at a      *)
(* time, somebody can always go on: a handler waits for a connection only  *)
(* while another one has them.  (As many lists as connections, each with a *)
(* webhook yet to scan, wait for one another for ever.)                    *)
Lists == {c \in DevCalls : DevOp(c) = "list" /\ Part(c) \in Hooks}
PoolSuffices ==
  Cardinality(Lists) < Connections => Connected \/ \E c \in Holding : c \in Lists /\ rest[c] = {}
=============================================================================
