------------------------------- MODULE Personal -------------------------------
(***************************************************************************)
(* What each user keeps alone: the items of backend/internal/modules/vault,*)
(* the tips of lumia, the history and interests of search, and the rows of *)
(* notifications.  A handler takes one statement or one event per step;    *)
(* any statement may fail, and a handler of a single one has then done     *)
(* nothing.  Without NATS, outside production, the bus is a nil client     *)
(* behind an interface: a Publish panics, and Recover answers.             *)
(*                                                                         *)
(* Left out: reads that no row can answer (live broadcasts, people nearby),*)
(* completions and trends, and the amount of a tip.                        *)
(***************************************************************************)
EXTENDS Integers, Sequences, FiniteSets

CONSTANTS
  Users, Errands,
  Errand,         \* the calls: op, by, arg
  PageSize,      \* of the activity: 20
  HistoryShown,  \* 10
  MaxErrands      \* bound: the calls made in one behaviour

(* The four modules share no state: a behaviour calls one of them.         *)
Modules == {{"store", "items"}, {"tip"}, {"search", "history", "choose", "interests"},
            {"notify", "activity", "unread", "markRead", "markAll", "clear"}}

ASSUME PersonalAssumption ==
  /\ \A c \in Errands : Errand[c].op \in UNION Modules /\ Errand[c].by \in Users
  /\ {PageSize, HistoryShown, MaxErrands} \subseteq Nat \ {0}

VARIABLES
  items, drops,         \* rows of vault_items and energy_drops
  history, interests,   \* of each user, the rows of search_history and the interests
  notes,                \* rows of notifications
  linked,               \* whether NATS was there at the start
  sent,                 \* pairs of a subject and the call that published to it; whether
                        \* NATS takes the event is ignored
  at, cursor,            \* of each call, where it is, and which page or interest comes next
  shown,                \* of each call, the rows it has answered
  due, cleared, handled \* history: what was there when a reading began, what was
                        \* cleared, and who was shown or changed which row

personalVars == <<items, drops, history, interests, notes, linked, sent, at, cursor, shown, due, cleared, handled>>

By(c) == Errand[c].by
Item(c) == [id |-> c, user |-> By(c)]
Drop(c) == [id |-> c, sender |-> By(c)]

(* The time of a row: how many statements that stamp one have been sent.   *)
Time == Cardinality({c \in Errands : at[c] \in {"read", "done", "failed"}})
Note(c) == [id |-> c, receiver |-> Errand[c].arg, read |-> FALSE, created |-> Time]

(* The place of a row among rows, newest first.                            *)
Place(r, rows) == Cardinality({t \in {s.created : s \in rows} : t >= r.created})

PersonalInit ==
  /\ items = {} /\ drops = {} /\ notes = {} /\ sent = {}
  /\ history = [u \in Users |-> {}] /\ interests = [u \in Users |-> {}]
  /\ linked \in BOOLEAN
  /\ at = [c \in Errands |-> "idle"] /\ cursor = [c \in Errands |-> 0] /\ shown = [c \in Errands |-> {}]
  /\ due = [c \in Errands |-> {}] /\ cleared = {} /\ handled = {}

stores == <<items, drops, history, interests, notes>>
Now(c, op, l) == Errand[c].op = op /\ at[c] = l
Moves(c, l) == at' = [at EXCEPT ![c] = l]
Begun == {d \in Errands : at[d] # "idle"}
Arrives(c, op) ==
  /\ Now(c, op, "idle") /\ Cardinality(Begun) < MaxErrands
  /\ \E m \in Modules : \A d \in Begun \cup {c} : Errand[d].op \in m
Handle(c, ids) == handled' = handled \cup {<<By(c), i>> : i \in ids}
ShowRows(c, ids) == shown' = [shown EXCEPT ![c] = @ \cup ids] /\ Handle(c, ids)

Ids(rows) == {r.id : r \in rows}

(* Published, or the panic.                                                *)
Publish(c, subjects, next) ==
  IF linked THEN sent' = sent \cup {<<s, c>> : s \in subjects} /\ Moves(c, next)
  ELSE Moves(c, "failed") /\ UNCHANGED sent

(* A statement that fails, where the error is answered.                    *)
StatementFails(c) ==
  /\ at[c] \in {"write", "read"} /\ Moves(c, "failed")
  /\ UNCHANGED <<stores, linked, sent, cursor, shown, due, cleared, handled>>

-----------------------------------------------------------------------------
(* Vault                                                                   *)

ValidateItemIntegrity(whole) == whole = "whole"

StoreItem(c) ==
  /\ Arrives(c, "store")
  /\ Moves(c, IF ValidateItemIntegrity(Errand[c].arg) THEN "audit" ELSE "refused")
  /\ UNCHANGED <<stores, linked, sent, cursor, shown, due, cleared, handled>>

ListItems(c) ==
  /\ Arrives(c, "items") /\ Moves(c, "audit")
  /\ UNCHANGED <<stores, linked, sent, cursor, shown, due, cleared, handled>>

(* It says of the access to come that it succeeded.                        *)
AuditAccessAttempt(c) ==
  /\ at[c] = "audit"
  /\ Publish(c, {"vault.access.audited"}, IF Errand[c].op = "store" THEN "write" ELSE "read")
  /\ UNCHANGED <<stores, linked, cursor, shown, due, cleared, handled>>

AddVaultItem(r) == items' = items \cup {r}
AddItem(c) ==
  /\ Now(c, "store", "write") /\ AddVaultItem(Item(c)) /\ Moves(c, "done")
  /\ UNCHANGED <<drops, history, interests, notes, linked, sent, cursor, shown, due, cleared, handled>>

GetUserVault(u) == Ids({r \in items : r.user = u})
GetItems(c) ==
  /\ Now(c, "items", "read") /\ ShowRows(c, GetUserVault(By(c))) /\ Moves(c, "done")
  /\ UNCHANGED <<stores, linked, sent, cursor, due, cleared>>

-----------------------------------------------------------------------------
(* Tips                                                                    *)

Tip(c) ==
  /\ Arrives(c, "tip") /\ Moves(c, "write")
  /\ UNCHANGED <<stores, linked, sent, cursor, shown, due, cleared, handled>>

InsertDrop(r) == drops' = drops \cup {r}
AddEnergyDrop(c) ==
  /\ Now(c, "tip", "write") /\ InsertDrop(Drop(c)) /\ Moves(c, "tell")
  /\ UNCHANGED <<items, history, interests, notes, linked, sent, cursor, shown, due, cleared, handled>>

(* By now the tip is recorded: the answer of a panic does not undo it.     *)
TipSignal(c) ==
  /\ Now(c, "tip", "tell")
  /\ Publish(c, {"lumia.xp.award_requested", "lumia.signal.tipped"}, "done")
  /\ UNCHANGED <<stores, linked, cursor, shown, due, cleared, handled>>

-----------------------------------------------------------------------------
(* Search                                                                  *)

Search(c) ==
  /\ Arrives(c, "search") /\ Moves(c, IF Errand[c].arg = "" THEN "refused" ELSE "note")
  /\ UNCHANGED <<stores, linked, sent, cursor, shown, due, cleared, handled>>

(* A query made again moves to the front.                                  *)
UpsertQuery(u, q) ==
  history' = [history EXCEPT ![u] = {r \in @ : r.query # q} \cup {[query |-> q, created |-> Time]}]

(* Best effort: the search goes on without it.                             *)
SaveHistory(c) ==
  /\ Now(c, "search", "note") /\ Moves(c, "read")
  /\ UpsertQuery(By(c), Errand[c].arg) \/ UNCHANGED history
  /\ UNCHANGED <<items, drops, interests, notes, linked, sent, cursor, shown, due, cleared, handled>>

(* The answer is of the posts, of which this module knows nothing: texts   *)
(* that match and are not archived, whoever they are for.                  *)
FindPosts(c) ==
  /\ Now(c, "search", "read") /\ Moves(c, "done")
  /\ UNCHANGED <<stores, linked, sent, cursor, shown, due, cleared, handled>>

RecentQueries(u) == {r.query : r \in {r \in history[u] : Place(r, history[u]) <= HistoryShown}}
GetHistory(c) ==
  /\ Arrives(c, "history") /\ Moves(c, "done")
  /\ shown' = [shown EXCEPT ![c] = RecentQueries(By(c))]
  /\ UNCHANGED <<stores, linked, sent, cursor, due, cleared, handled>>

UpdateInterests(c) ==
  /\ Arrives(c, "choose") /\ Moves(c, "add")
  /\ UNCHANGED <<stores, linked, sent, cursor, shown, due, cleared, handled>>

InsertInterest(u, x) == interests' = [interests EXCEPT ![u] = @ \cup {x}]

(* One statement each; one that fails is passed over in silence.           *)
AddInterest(c) ==
  /\ Now(c, "choose", "add")
  /\ IF cursor[c] = Len(Errand[c].arg) THEN Moves(c, "done") /\ UNCHANGED <<interests, cursor>>
     ELSE /\ cursor' = [cursor EXCEPT ![c] = @ + 1] /\ UNCHANGED at
          /\ InsertInterest(By(c), Errand[c].arg[cursor[c] + 1]) \/ UNCHANGED interests
  /\ UNCHANGED <<items, drops, history, notes, linked, sent, shown, due, cleared, handled>>

GetInterests(c) ==
  /\ Arrives(c, "interests") /\ Moves(c, "done")
  /\ shown' = [shown EXCEPT ![c] = interests[By(c)]]
  /\ UNCHANGED <<stores, linked, sent, cursor, due, cleared, handled>>

-----------------------------------------------------------------------------
(* Notifications.  Notify is the service's; no handler calls it yet.       *)

Create(r) == notes' = notes \cup {r}
Notify(c) ==
  /\ Arrives(c, "notify")
  /\ \/ Create(Note(c)) /\ Moves(c, "done")
     \/ Moves(c, "failed") /\ UNCHANGED notes
  /\ UNCHANGED <<items, drops, history, interests, linked, sent, cursor, shown, due, cleared, handled>>

NotesOf(u) == {r \in notes : r.receiver = u}

(* Mutant: the offset of page 1 is one row too far.                        *)
GetForUserLate(u, page) ==
  LET Shows(k) == page * (PageSize + 1) < k /\ k <= (page + 1) * (PageSize + 1) - 1
  IN  Ids({r \in NotesOf(u) : Shows(Place(r, NotesOf(u)))})

GetForUser(u, page) ==
  LET Shows(k) == page * PageSize < k /\ k <= (page + 1) * PageSize
  IN  Ids({r \in NotesOf(u) : Shows(Place(r, NotesOf(u)))})

(* The user turns the pages, a request each, until one is empty.           *)
GetActivity(c) ==
  /\ Arrives(c, "activity") \/ Now(c, "activity", "turn")
  /\ LET page == GetForUser(By(c), cursor[c])
     IN  /\ ShowRows(c, page) /\ Moves(c, IF page = {} THEN "done" ELSE "turn")
         /\ cursor' = [cursor EXCEPT ![c] = @ + 1]
  /\ due' = IF at[c] = "idle" THEN [due EXCEPT ![c] = Ids(NotesOf(By(c)))] ELSE due
  /\ UNCHANGED <<stores, linked, sent, cleared>>

SetRead(c, ids) ==
  /\ notes' = {IF r.id \in ids THEN [r EXCEPT !.read = TRUE] ELSE r : r \in notes}
  /\ Handle(c, ids)

(* Somebody else's, or none: answered all the same.                        *)
MarkAsRead(c) ==
  /\ Arrives(c, "markRead") /\ Moves(c, "done")
  /\ SetRead(c, {Errand[c].arg} \cap Ids(NotesOf(By(c))))
  /\ UNCHANGED <<items, drops, history, interests, linked, sent, cursor, shown, due, cleared>>

UnreadOf(u) == Ids({r \in NotesOf(u) : ~r.read})

MarkAllRead(c) ==
  /\ Arrives(c, "markAll") /\ Moves(c, "done") /\ SetRead(c, UnreadOf(By(c)))
  /\ UNCHANGED <<items, drops, history, interests, linked, sent, cursor, shown, due, cleared>>

(* The answer is how many there are.                                       *)
UnreadCount(c) ==
  /\ Arrives(c, "unread") /\ Moves(c, "done")
  /\ shown' = [shown EXCEPT ![c] = UnreadOf(By(c))] /\ Handle(c, UnreadOf(By(c)))
  /\ UNCHANGED <<stores, linked, sent, cursor, due, cleared>>

ClearForUser(u) ==
  /\ notes' = notes \ NotesOf(u)
  /\ cleared' = cleared \cup Ids(NotesOf(u))

ClearAll(c) ==
  /\ Arrives(c, "clear") /\ Moves(c, "done") /\ ClearForUser(By(c)) /\ Handle(c, Ids(NotesOf(By(c))))
  /\ UNCHANGED <<items, drops, history, interests, linked, sent, cursor, shown, due>>

PersonalNext ==
  \E c \in Errands :
    \/ StatementFails(c)
    \/ StoreItem(c) \/ ListItems(c) \/ AuditAccessAttempt(c) \/ AddItem(c) \/ GetItems(c)
    \/ Tip(c) \/ AddEnergyDrop(c) \/ TipSignal(c)
    \/ Search(c) \/ SaveHistory(c) \/ FindPosts(c) \/ GetHistory(c)
    \/ UpdateInterests(c) \/ AddInterest(c) \/ GetInterests(c)
    \/ Notify(c) \/ GetActivity(c) \/ MarkAsRead(c) \/ MarkAllRead(c) \/ UnreadCount(c) \/ ClearAll(c)

-----------------------------------------------------------------------------
(* Correctness                                                             *)

(* What was answered with success is kept: the item, the tip and its two   *)
(* events, the notification unless its receiver has cleared it since.      *)
AnsweredIsKept ==
  \A c \in Errands : at[c] = "done" =>
    /\ Errand[c].op = "store" => c \in Ids(items)
    /\ Errand[c].op = "tip" => Drop(c) \in drops /\ Cardinality({e \in sent : e[2] = c}) = 2
    /\ Errand[c].op = "notify" => c \in Ids(notes) \cup cleared

(* No item comes into the vault, and none out of it, without an audit.     *)
VaultIsAudited ==
  \A c \in Errands :
    (c \in Ids(items) \/ (Errand[c].op = "items" /\ shown[c] # {})) => <<"vault.access.audited", c>> \in sent

(* A user who turns the pages to the end has seen every notification that  *)
(* was there at the beginning and still is, however many come meanwhile.   *)
ActivityIsComplete ==
  \A c \in Errands : Now(c, "activity", "done") => due[c] \cap Ids(notes) \subseteq shown[c]

(* Items and notifications are shown to their owner, and marked or cleared *)
(* by their receiver; a query is in a history once.                        *)
RowsAreOnesOwn ==
  /\ \A h \in handled : \A c \in Errands :
       c = h[2] => h[1] = IF Errand[c].op = "notify" THEN Errand[c].arg ELSE By(c)
  /\ \A u \in Users : \A r, s \in history[u] : r.query = s.query => r = s

PersonalIsKept == AnsweredIsKept /\ VaultIsAudited /\ ActivityIsComplete /\ RowsAreOnesOwn
=============================================================================
