-------------------------------- MODULE Rooms --------------------------------
(***************************************************************************)
(* backend/internal/modules/messaging as its handlers see it: rooms and    *)
(* their members, messages, reads, reactions and mutes, the public keys of *)
(* users, and the history that a client reads page by page.  With ScyllaDB *)
(* the newest page comes from the mirror and the older ones from           *)
(* PostgreSQL; MessageMirror has the tasks that fill the mirror.  A call   *)
(* is an action of its handler; what its statement leaves is an operator.  *)
(***************************************************************************)
EXTENDS Integers, Sequences, FiniteSets, SequencesExt

CONSTANTS
  Chatters, ChatRooms,
  MembersOfFirst,   \* of each room: its members, {} of one that is yet to be opened
  ChatCalls,
  ChatCall,         \* of each: op, by, room, about (a message), with (whom a room is for), arg
  PageSize,         \* 50
  MaxChats          \* bound: the calls made in one behaviour

ChatOps ==
  {"direct", "group", "rooms", "send", "edit", "delete", "react", "read", "unread", "mute", "history",
   "upload", "key"}

(* A message is named by the call that sends it.                           *)
ASSUME RoomsAssumption ==
  /\ MembersOfFirst \in [ChatRooms -> SUBSET Chatters]
  /\ PageSize \in Nat \ {0} /\ MaxChats \in Nat
  /\ \A c \in ChatCalls :
       /\ ChatCall[c].op \in ChatOps /\ ChatCall[c].by \in Chatters /\ ChatCall[c].room \in ChatRooms
       /\ ChatCall[c].about \in ChatCalls /\ ChatCall[c].with \subseteq Chatters
       /\ ChatCall[c].arg \in Nat

VARIABLES
  mirrored,   \* whether ScyllaDB was there at the start
  members,    \* chat_members
  written,    \* chat_messages of each room, the oldest first
  copied,     \* chat_messages_by_room, in the order of the mirror's own times
  edited, removed,   \* messages with is_edited, is_deleted
  reads, hearts,     \* message_reads and message_reactions: <<message, user>>
  heartsCopied,      \* reactions_by_target
  muted,      \* room_mutes: <<room, user>>
  publicKeys, \* user_e2ee_public_keys: [owner, key], a key named by the call that brought it
  chat,       \* where each call is
  page, seen, \* of each reader: the cursor, what it saw,
  owed,       \* what was there when it began
  lacked      \* and what the mirror kept from it

logRows == <<written, edited, removed>>
markRows == <<reads, hearts, heartsCopied, muted, publicKeys>>
reading == <<page, seen, owed, lacked>>
roomVars == <<mirrored, members, logRows, copied, markRows, chat, reading>>

RoomsInit ==
  /\ mirrored \in BOOLEAN
  /\ members = MembersOfFirst
  /\ written = [r \in ChatRooms |-> <<>>] /\ copied = [r \in ChatRooms |-> <<>>]
  /\ edited = {} /\ removed = {} /\ reads = {} /\ hearts = {} /\ heartsCopied = {} /\ muted = {}
  /\ publicKeys = {}
  /\ chat = [c \in ChatCalls |-> "idle"]
  /\ page = [c \in ChatCalls |-> 0] /\ seen = [c \in ChatCalls |-> {}] /\ owed = [c \in ChatCalls |-> {}]
  /\ lacked = [c \in ChatCalls |-> {}]

Sender(c) == ChatCall[c].by
Room(c) == ChatCall[c].room
About(c) == ChatCall[c].about
Chats(c, op) == ChatCall[c].op = op
ChatGoto(c, l) == chat' = [chat EXCEPT ![c] = l]
Begins(c, op) ==
  Chats(c, op) /\ chat[c] = "idle" /\ Cardinality({d \in ChatCalls : chat[d] # "idle"}) < MaxChats
Shows(c, answer) == seen' = [seen EXCEPT ![c] = @ \cup answer] /\ UNCHANGED <<page, owed, lacked>>

-----------------------------------------------------------------------------
(* Rooms                                                                   *)

(* The room and its members are one transaction; a user named twice is     *)
(* inserted once.                                                          *)
CreateRoom(r, users) == members' = [members EXCEPT ![r] = users]

OpenRoom(c, users) ==
  /\ members[Room(c)] = {} /\ CreateRoom(Room(c), users) /\ ChatGoto(c, "done")
  /\ UNCHANGED <<mirrored, logRows, copied, markRows, reading>>
CreateDirectChat(c) ==
  Begins(c, "direct") /\ \E other \in ChatCall[c].with : OpenRoom(c, {Sender(c), other})
CreateGroupChat(c) == Begins(c, "group") /\ OpenRoom(c, ChatCall[c].with \cup {Sender(c)})

(* The rows of the JOIN.  No call archives a room.                         *)
GetUserRooms(u) ==
  {[id |-> r, is_archived |-> FALSE, muted |-> <<r, u>> \in muted] : r \in {q \in ChatRooms : u \in members[q]}}

(* What the list of conversations says of a room: not that it is muted.    *)
Conversation(room) == [id |-> room.id, is_archived |-> room.is_archived]
GetRooms(c) ==
  /\ Begins(c, "rooms") /\ ChatGoto(c, "done")
  /\ Shows(c, {Conversation(room) : room \in GetUserRooms(Sender(c))})
  /\ UNCHANGED <<mirrored, members, logRows, copied, markRows>>

RequireRoomMember(r, u) == \E room \in GetUserRooms(u) : room.id = r

-----------------------------------------------------------------------------
(* Messages                                                                *)

ChatMessage(c) == [id |-> c, room |-> Room(c), author |-> Sender(c)]

(* The member is looked up first; the row of one is inserted later.        *)
SendMessage(c) ==
  /\ Begins(c, "send")
  /\ ChatGoto(c, IF RequireRoomMember(Room(c), Sender(c)) THEN "insert" ELSE "refused")
  /\ UNCHANGED <<mirrored, members, logRows, copied, markRows, reading>>

InsertMessage(m) == written' = [written EXCEPT ![m.room] = Append(@, m)]
CreateChatMessage(c) ==
  /\ Chats(c, "send") /\ chat[c] = "insert" /\ ChatGoto(c, "done")
  /\ InsertMessage(ChatMessage(c))
  /\ UNCHANGED <<mirrored, members, edited, removed, copied, markRows, reading>>

(* A call that fails before its rows, or between two pages.                *)
ChatFails(c) ==
  /\ chat[c] \in {"insert", "next"} /\ ChatGoto(c, "failed")
  /\ UNCHANGED <<mirrored, members, logRows, copied, markRows, reading>>

GetMessageByID(m) == {row \in ToSet(written[Room(m)]) : row.id = m}

(* The task of a worker, at any time later, if at all.                     *)
CopyMessage(m) == copied' = [copied EXCEPT ![m.room] = Append(@, m)]
MirrorMessage(c) ==
  /\ mirrored /\ Chats(c, "send") /\ GetMessageByID(c) \ ToSet(copied[Room(c)]) # {}
  /\ CopyMessage(ChatMessage(c))
  /\ UNCHANGED <<mirrored, members, logRows, markRows, chat, reading>>

Wrote(u, m) == \E row \in GetMessageByID(m) : row.author = u

(* UPDATE ... RETURNING: no row is an error.                               *)
UpdateChatMessage(m) == edited' = edited \cup {m}
EditMessage(c) ==
  /\ Begins(c, "edit")
  /\ IF Wrote(Sender(c), About(c))
     THEN UpdateChatMessage(About(c)) /\ ChatGoto(c, "done")
     ELSE ChatGoto(c, "failed") /\ UNCHANGED edited
  /\ UNCHANGED <<mirrored, members, written, removed, copied, markRows, reading>>

(* An UPDATE of no row is answered like another.                           *)
SetDeleted(u, m) == removed' = IF Wrote(u, m) THEN removed \cup {m} ELSE removed
DeleteMessage(c) ==
  /\ Begins(c, "delete") /\ ChatGoto(c, "done") /\ SetDeleted(Sender(c), About(c))
  /\ UNCHANGED <<mirrored, members, written, edited, copied, markRows, reading>>

-----------------------------------------------------------------------------
(* Reads, reactions, mutes                                                 *)

(* The EXISTS of the INSERTs: a message of a room of the user.             *)
TakesPart(u, m) == GetMessageByID(m) # {} /\ u \in members[Room(m)]

MarkRead(m, u) == reads' = IF TakesPart(u, m) THEN reads \cup {<<m, u>>} ELSE reads
MarkAsRead(c) ==
  /\ Begins(c, "read") /\ ChatGoto(c, "done") /\ MarkRead(About(c), Sender(c))
  /\ UNCHANGED <<mirrored, members, logRows, copied, hearts, heartsCopied, muted, publicKeys, reading>>

AddReaction(m, u) == hearts' = IF TakesPart(u, m) THEN hearts \cup {<<m, u>>} ELSE hearts
React(c) ==
  /\ Begins(c, "react") /\ ChatGoto(c, "done") /\ AddReaction(About(c), Sender(c))
  /\ UNCHANGED <<mirrored, members, logRows, copied, reads, heartsCopied, muted, publicKeys, reading>>

(* The mirror asks nothing: a reaction that PostgreSQL left out is copied. *)
CopyReaction(m, u) == heartsCopied' = heartsCopied \cup {<<m, u>>}
MirrorReaction(c) ==
  /\ mirrored /\ Chats(c, "react") /\ chat[c] = "done" /\ <<About(c), Sender(c)>> \notin heartsCopied
  /\ CopyReaction(About(c), Sender(c))
  /\ UNCHANGED <<mirrored, members, logRows, copied, reads, hearts, muted, publicKeys, chat, reading>>

(* No end of the mute, no row.                                             *)
SetMuted(r, u, until) == muted' = IF until THEN muted \cup {<<r, u>>} ELSE muted \ {<<r, u>>}

(* With ScyllaDB the end of a mute is sent as the text of an expression,   *)
(* which is no time, and the statement fails.                              *)
MuteFails(minutes) == mirrored /\ minutes > 0
MuteRoom(c) ==
  /\ Begins(c, "mute")
  /\ IF MuteFails(ChatCall[c].arg)
     THEN ChatGoto(c, "failed") /\ UNCHANGED muted
     ELSE ChatGoto(c, "done") /\ SetMuted(Room(c), Sender(c), ChatCall[c].arg > 0)
  /\ UNCHANGED <<mirrored, members, logRows, copied, reads, hearts, heartsCopied, publicKeys, reading>>

-----------------------------------------------------------------------------
(* Public keys                                                             *)

UpsertPublicKey(u, key) ==
  publicKeys' = {row \in publicKeys : row.owner # u} \cup {[owner |-> u, key |-> key]}
Upload(c) ==
  /\ Begins(c, "upload") /\ ChatGoto(c, "done") /\ UpsertPublicKey(Sender(c), c)
  /\ UNCHANGED <<mirrored, members, logRows, copied, reads, hearts, heartsCopied, muted, reading>>

GetPublicKey(u) == {row \in publicKeys : row.owner = u}
GetKey(c) ==
  /\ Begins(c, "key")
  /\ \E u \in ChatCall[c].with :
       Shows(c, GetPublicKey(u)) /\ ChatGoto(c, IF GetPublicKey(u) = {} THEN "refused" ELSE "done")
  /\ UNCHANGED <<mirrored, members, logRows, copied, markRows>>

-----------------------------------------------------------------------------
(* The history.  What is_deleted says is not asked, nor is is_edited read. *)

Serialize(m) == [id |-> m.id, author_id |-> m.author, is_edited |-> FALSE]

Unread(u, r) ==
  {m \in ToSet(written[r]) :
     u \in members[r] /\ m.author # u /\ <<m.id, u>> \notin reads /\ m.id \notin removed}
GetUnread(c) ==
  /\ Begins(c, "unread") /\ ChatGoto(c, "done")
  /\ Shows(c, {Serialize(m) : m \in Unread(Sender(c), Room(c))})
  /\ UNCHANGED <<mirrored, members, logRows, copied, markRows>>

(* ORDER BY created_at DESC LIMIT PageSize OFFSET offset                   *)
Newest(s, offset) ==
  LET last == IF offset + PageSize < Len(s) THEN offset + PageSize ELSE Len(s)
  IN  SubSeq(Reverse(s), offset + 1, last)
GetMessages(r, offset) == Newest(written[r], offset)
NewestCopies(r) == Newest(copied[r], 0)

(* Mutant: with the mirror, too, page p begins at p pages.                 *)
PagesFromNought(p) == p * PageSize

(* GetRoomHistory: with the mirror, page 0 and page 1 are both the first.  *)
OffsetOf(p) == IF ~mirrored THEN p * PageSize ELSE IF p > 1 THEN (p - 1) * PageSize ELSE 0
FromMirror(r, p) == mirrored /\ p <= 1 /\ NewestCopies(r) # <<>>
GetRoomHistory(r, p) == IF FromMirror(r, p) THEN NewestCopies(r) ELSE GetMessages(r, OffsetOf(p))

(* What a page of the mirror keeps from its reader: those of the newest    *)
(* rows that it does not have and, if it is short of a page, and so ends   *)
(* the history, all that is older.                                         *)
Lacks(r, answer) ==
  ToSet(IF Len(answer) = PageSize THEN Newest(written[r], 0) ELSE written[r]) \ ToSet(answer)

(* A request for one page; the cursor of the next is in its answer.        *)
GetHistory(c) ==
  LET r == Room(c)
      answer == GetRoomHistory(r, page[c])
  IN  /\ Begins(c, "history") \/ (Chats(c, "history") /\ chat[c] = "next")
      /\ IF ~RequireRoomMember(r, Sender(c))
         THEN ChatGoto(c, "refused") /\ UNCHANGED reading
         ELSE /\ ChatGoto(c, IF Len(answer) = PageSize THEN "next" ELSE "done")
              /\ page' = [page EXCEPT ![c] = @ + 1]
              /\ seen' = [seen EXCEPT ![c] = @ \cup {Serialize(m) : m \in ToSet(answer)}]
              /\ owed' = [owed EXCEPT ![c] = IF chat[c] = "idle" THEN ToSet(written[r]) ELSE @]
              /\ lacked' = [lacked EXCEPT ![c] = IF FromMirror(r, page[c]) THEN @ \cup Lacks(r, answer) ELSE @]
      /\ UNCHANGED <<mirrored, members, logRows, copied, markRows>>

-----------------------------------------------------------------------------

Posed(ops) == {c \in ChatCalls : ChatCall[c].op \in ops /\ chat[c] \notin {"refused", "failed"}}

RoomsNext ==
  \/ \E c \in Posed({"direct", "group", "rooms"}) : CreateDirectChat(c) \/ CreateGroupChat(c) \/ GetRooms(c)
  \/ \E c \in Posed({"send"}) : SendMessage(c) \/ CreateChatMessage(c) \/ MirrorMessage(c)
  \/ \E c \in Posed({"edit", "delete", "read"}) : EditMessage(c) \/ DeleteMessage(c) \/ MarkAsRead(c)
  \/ \E c \in Posed({"react", "mute"}) : React(c) \/ MirrorReaction(c) \/ MuteRoom(c)
  \/ \E c \in Posed({"upload", "key", "unread"}) : Upload(c) \/ GetKey(c) \/ GetUnread(c)
  \/ \E c \in Posed({"history"}) : GetHistory(c)
  \/ \E c \in ChatCalls : ChatFails(c)

RoomsSpec == RoomsInit /\ [][RoomsNext]_roomVars

-----------------------------------------------------------------------------
(* Correctness                                                             *)

(* A client that follows the cursors to the end has been shown all that    *)
(* was in the room when it began, whatever was sent meanwhile, but for     *)
(* what a page of the mirror kept from it (Lacks).  Without ScyllaDB       *)
(* nothing is kept back; with it, the newest page shows what the mirror    *)
(* has, and no later page makes up for the rest.                           *)
PagesAreComplete == \A c \in ChatCalls :
  Chats(c, "history") /\ chat[c] = "done" => \A m \in owed[c] \ lacked[c] : Serialize(m) \in seen[c]
=============================================================================
