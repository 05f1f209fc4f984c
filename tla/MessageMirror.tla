---------------------------- MODULE MessageMirror ----------------------------
(***************************************************************************)
(* backend/internal/modules/messaging: a message is written to PostgreSQL  *)
(* by its handler, and to ScyllaDB, followed by an event, by a task of the *)
(* worker pools.  A task is tied to nothing: Submit may refuse it, the     *)
(* breaker or ScyllaDB may fail it, and tasks of one message run on        *)
(* different goroutines.  The pools are those of TaskPool.                 *)
(*                                                                         *)
(* One room.  PostgreSQL has the columns that the queries name.            *)
(***************************************************************************)
EXTENDS TaskPool, Naturals, Sequences

CONSTANTS
  Messages,
  Kind, MessageOf, \* "send", "edit" or "delete", and its message; Tasks are the calls
  Own,             \* the calls made by the author of their message, as every "send" is
  Faults,
  None, Blank      \* no row; the empty text

FaultKinds == {
  "primary",  \* a statement fails in PostgreSQL, or its answer is lost
  "mirror",   \* ScyllaDB fails, or the breaker is open
  "busy",     \* Submit finds a full queue
  "shutdown"}

ASSUME MirrorAssumption ==
  /\ Kind \in [Tasks -> {"send", "edit", "delete"}] /\ MessageOf \in [Tasks -> Messages]
  /\ Own \subseteq Tasks /\ \A c \in Tasks : Kind[c] = "send" => c \in Own
  /\ Faults \subseteq FaultKinds
  /\ None \notin Tasks /\ Blank \notin Tasks /\ None # Blank

VARIABLES
  text,     \* chat_messages: the call whose text each message has, or None
  deleted,  \* chat_messages.is_deleted
  order,    \* the messages by created_at in PostgreSQL
  byRoom,   \* chat_messages_by_room: the text of each message
  byTime,   \* its rows by their created_at
  byId,     \* chat_message_by_id: the text of each message
  bus,      \* the calls whose event was handed to the bus, in order
  pc        \* how far each call is; then how far its task is

primary == <<text, deleted, order>>
mirror == <<byRoom, byTime, byId>>
vars == <<primary, mirror, bus, pc, poolVars>>

InitMirror ==
  /\ text = [m \in Messages |-> None] /\ deleted = {} /\ order = << >>
  /\ byRoom = [m \in Messages |-> None] /\ byTime = << >>
  /\ byId = [m \in Messages |-> None]
  /\ bus = << >>
  /\ pc = [c \in Tasks |-> "new"]

Init == PoolInit /\ InitMirror

Goto(c, l) == pc' = [pc EXCEPT ![c] = l]

-----------------------------------------------------------------------------
(* The handler                                                             *)

(* What both updates look for: the row of that message and author.         *)
HasRow(c) == c \in Own /\ text[MessageOf[c]] # None

(* INSERT, UPDATE ... RETURNING, and the UPDATE of DeleteMessage, which    *)
(* answers the same when it found no row: a deletion by somebody else, or  *)
(* of a message there never was, goes on like any other.                   *)
Insert(c) ==
  /\ Kind[c] = "send" /\ text[MessageOf[c]] = None
  /\ text' = [text EXCEPT ![MessageOf[c]] = c] /\ order' = Append(order, MessageOf[c])
  /\ UNCHANGED deleted

Update(c) ==
  /\ Kind[c] = "edit" /\ HasRow(c)
  /\ text' = [text EXCEPT ![MessageOf[c]] = c]
  /\ UNCHANGED <<deleted, order>>

Delete(c) ==
  /\ Kind[c] = "delete"
  /\ deleted' = IF HasRow(c) THEN deleted \cup {MessageOf[c]} ELSE deleted
  /\ UNCHANGED <<text, order>>

WriteRow(c) == Insert(c) \/ Update(c) \/ Delete(c)

Commit(c) ==
  /\ pc[c] = "new" /\ WriteRow(c) /\ Goto(c, "submit")
  /\ UNCHANGED <<mirror, bus, poolVars>>

(* pgx.ErrNoRows, from the RETURNING of UpdateMessage.                     *)
NotAuthor(c) ==
  /\ pc[c] = "new" /\ Kind[c] = "edit" /\ ~HasRow(c)
  /\ Goto(c, "failed")
  /\ UNCHANGED <<primary, mirror, bus, poolVars>>

(* An error of PostgreSQL, with or without its effect: nothing is          *)
(* submitted.                                                              *)
Fail(c) ==
  /\ "primary" \in Faults /\ pc[c] = "new"
  /\ \/ WriteRow(c)
     \/ UNCHANGED primary
  /\ Goto(c, "failed")
  /\ UNCHANGED <<mirror, bus, poolVars>>

(* Mutant: the task is submitted first.                                    *)
SubmitFirst(c) ==
  /\ pc[c] \in {"new", "submit"} /\ Accept(c)
  /\ Goto(c, "mirror")
  /\ UNCHANGED <<primary, mirror, bus>>

(* SubmitRealTime or SubmitBackground; the answer is the same whether the  *)
(* task was taken or not.                                                  *)
Submit(c) ==
  /\ pc[c] = "submit"
  /\ \/ Accept(c) /\ Goto(c, "mirror")
     \/ /\ "busy" \in Faults \/ pools # "open"
        /\ Refuse(c) /\ Goto(c, "unmirrored")
  /\ UNCHANGED <<primary, mirror, bus>>

-----------------------------------------------------------------------------
(* The task                                                                *)

Running(c) == fate[c] = "running"

(* A logged batch into both tables; created_at is the time of the mirror.  *)
MirrorSend(c) ==
  LET m == MessageOf[c]
  IN  /\ byRoom' = [byRoom EXCEPT ![m] = c] /\ byTime' = Append(byTime, m)
      /\ byId' = [byId EXCEPT ![m] = c]

(* An UPDATE is an upsert, and the last one to be executed wins.           *)
MirrorEdit(c) ==
  /\ byId' = [byId EXCEPT ![MessageOf[c]] = IF Kind[c] = "edit" THEN c ELSE Blank]
  /\ UNCHANGED <<byRoom, byTime>>

Mirror(c) ==
  /\ Running(c) /\ pc[c] = "mirror"
  /\ IF Kind[c] = "send" THEN MirrorSend(c) ELSE MirrorEdit(c)
  /\ Goto(c, "publish")
  /\ UNCHANGED <<primary, bus, poolVars>>

(* Mutant: the task ends with the error.                                   *)
MirrorFailsTask(c) ==
  /\ "mirror" \in Faults /\ Running(c) /\ pc[c] = "mirror"
  /\ Goto(c, "end") /\ End(c)
  /\ UNCHANGED <<primary, mirror, bus>>

(* The error of the breaker, of ScyllaDB or of a context cancelled by the  *)
(* signal is dropped.  An error with its effect looks like Mirror.         *)
MirrorFails(c) ==
  /\ "mirror" \in Faults \/ pools # "open"
  /\ Running(c) /\ pc[c] = "mirror"
  /\ Goto(c, "publish")
  /\ UNCHANGED <<primary, mirror, bus, poolVars>>

(* Mutant: the task is left running, as by a retry.                        *)
PublishAgain(c) ==
  /\ Running(c) /\ pc[c] = "publish"
  /\ bus' = Append(bus, c) /\ Len(bus) < 3
  /\ UNCHANGED <<primary, mirror, pc, poolVars>>

(* bus.Publish, whose error is logged, is the end of the task.             *)
Publish(c) ==
  /\ pc[c] = "publish" /\ End(c)
  /\ bus' = Append(bus, c) /\ Goto(c, "end")
  /\ UNCHANGED <<primary, mirror>>

Start(c) == Begin(c) /\ UNCHANGED <<primary, mirror, bus, pc>>

(* Mutant: cleanup does not wait for the tasks.                            *)
ShutdownAtOnce ==
  /\ "shutdown" \in Faults
  /\ \/ Close
     \/ pools = "closing" /\ pools' = "closed" /\ UNCHANGED fate
  /\ UNCHANGED <<primary, mirror, bus, pc>>

(* The signal; then cleanup, which begins with Stop.                       *)
Shutdown ==
  "shutdown" \in Faults /\ (Close \/ Closed) /\ UNCHANGED <<primary, mirror, bus, pc>>

(* Nothing is under way.                                                   *)
AtRest ==
  \A c \in Tasks : pc[c] # "submit" /\ fate[c] # "running"
                   /\ (fate[c] = "waiting" => pools = "closed")

Idle == AtRest /\ UNCHANGED vars

TaskStep(c) == Start(c) \/ Mirror(c) \/ MirrorFails(c) \/ Publish(c)

Next ==
  \/ \E c \in Tasks : Commit(c) \/ NotAuthor(c) \/ Fail(c) \/ Submit(c) \/ TaskStep(c)
  \/ Shutdown \/ Idle

Spec == Init /\ [][Next]_vars

-----------------------------------------------------------------------------
(* GetRoomHistory, first page: ScyllaDB if it has rows of the room,        *)
(* PostgreSQL otherwise; neither leaves out deleted messages.              *)
History ==
  IF byTime # << >>
  THEN [row |-> byRoom, at |-> byTime] ELSE [row |-> text, at |-> order]

-----------------------------------------------------------------------------
(* Correctness                                                             *)

TypeOK ==
  /\ text \in [Messages -> Tasks \cup {None}] /\ deleted \subseteq Messages
  /\ order \in Seq(Messages)
  /\ byRoom \in [Messages -> Tasks \cup {None}] /\ byTime \in Seq(Messages)
  /\ byId \in [Messages -> Tasks \cup {None, Blank}]
  /\ bus \in Seq(Tasks)
  /\ pc \in [Tasks -> {"new", "submit", "failed", "unmirrored", "mirror", "publish", "end"}]
  /\ fate \in [Tasks -> {"none", "waiting", "refused", "running", "done"}]
  /\ pools \in {"open", "closing", "closed"}

(* The mirror and the bus never run ahead with a text: one that they show  *)
(* is that of a message PostgreSQL has, and a text that was sent or edited *)
(* by its author.  Deletions are left out, since nothing asks whether      *)
(* PostgreSQL applied one: byId may be Blank, and a deletion be announced, *)
(* for a message that is not deleted or that there never was.              *)
NothingAhead ==
  /\ \A m \in Messages :
        /\ byRoom[m] # None => text[m] # None
        /\ byId[m] \notin {None, Blank} => text[m] # None /\ byId[m] \in Own
  /\ \A i \in 1..Len(bus) :
        Kind[bus[i]] # "delete" => text[MessageOf[bus[i]]] # None /\ bus[i] \in Own

(* The event of a call goes out once at most, and only after its task ran. *)
OneEvent == \A i, j \in 1..Len(bus) : bus[i] = bus[j] => i = j

(* Once the pools are closed nothing writes to ScyllaDB or to the bus,     *)
(* whose clients cleanup closes next.                                      *)
SilentOnceClosed == [][pools = "closed" => UNCHANGED <<mirror, bus>>]_vars

(* The inductive invariant: how far a call is tells what became of its     *)
(* task, and that its statement was executed.                              *)
Fates(c) ==
  /\ pc[c] \in {"new", "submit", "failed"} => fate[c] = "none"
  /\ pc[c] = "unmirrored" => fate[c] = "refused"
  /\ pc[c] = "mirror" => fate[c] \in {"waiting", "running"}
  /\ pc[c] = "publish" => fate[c] = "running"
  /\ pc[c] = "end" => fate[c] = "done"

Written(c) == pc[c] \notin {"new", "failed"} /\ Kind[c] # "delete" => HasRow(c)

PublishedAtTheEnd == \A i \in 1..Len(bus) : pc[bus[i]] = "end"

AllStopped == pools = "closed" => \A c \in Tasks : fate[c] # "running"

IInv ==
  /\ TypeOK /\ NothingAhead /\ OneEvent /\ PublishedAtTheEnd /\ AllStopped
  /\ \A c \in Tasks : Fates(c) /\ Written(c)

(* While the process runs, the event of an accepted task goes out whatever *)
(* becomes of its mirror.                                                  *)
EventDespiteMirror ==
  \A c \in Tasks : fate[c] = "waiting" ~> (\E i \in 1..Len(bus) : bus[i] = c) \/ pools # "open"

(* The mirror never diverges from the primary: once nothing is under way,  *)
(* the history shows each message with the text that PostgreSQL has.       *)
HistoryAgrees == AtRest => \A m \in Messages : History.row[m] \in {None, text[m]}

(* ... and it shows every message.                                         *)
HistoryComplete == AtRest => \A m \in Messages : text[m] # None => History.row[m] # None

(* The order of a conversation is that of PostgreSQL.                      *)
HistoryInOrder ==
  \A i, j \in 1..Len(History.at) : i < j =>
    \E k, l \in 1..Len(order) : k < l /\ order[k] = History.at[i] /\ order[l] = History.at[j]

(* A deleted message has no text left in chat_message_by_id.               *)
DeletionIsMirrored ==
  AtRest => \A m \in deleted :
    (\A c \in Tasks : MessageOf[c] = m => pc[c] \in {"new", "end"}) => byId[m] \in {None, Blank}

(* ... and one that has none left there is deleted.                        *)
DeletionIsReal ==
  AtRest => \A m \in Messages : text[m] # None /\ byId[m] = Blank => m \in deleted

(* The mirror never silently diverges from the primary.                    *)
MirrorFollows ==
  HistoryAgrees /\ HistoryComplete /\ HistoryInOrder /\ DeletionIsMirrored /\ DeletionIsReal
=============================================================================
