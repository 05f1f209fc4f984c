----------------------------- MODULE RealtimeHub -----------------------------
(***************************************************************************)
(* backend/internal/core/realtime: the connections of a process and the    *)
(* bridge that writes the events of NATS to them.                          *)
(*                                                                         *)
(* Serve adds a connection to its shard at once and reads it in the        *)
(* handler's goroutine; Run takes it out, through a channel, once the      *)
(* reading ends.  Each subscription has a goroutine, which handles one     *)
(* event after another and writes to copies of the lists of connections.   *)
(***************************************************************************)
EXTENDS Naturals, Sequences, SequencesExt

CONSTANTS
  Clients, Users, UserOf,  \* the connections, and the user of each
  Bridges,                 \* the subscriptions, chat.* and e2ee.*
  MaxEvents,               \* bound: the events of each subscription
  UnregisterCap            \* capacity of the unregister channel

ASSUME HubAssumption ==
  /\ UserOf \in [Clients -> Users]
  /\ MaxEvents \in Nat /\ UnregisterCap \in Nat \ {0}

VARIABLES
  clients,    \* the connections of each user, in the shards
  conn,       \* how far each connection is
  open,       \* the connections that can be written
  unregister, \* the channel to Run
  running,    \* Run has not met ctx.Done()
  closedFor,  \* the users whose shard Stop has passed
  event,      \* the events that each bridge has taken
  audience,    \* the members that its event has still to be delivered to
  targets,    \* the connections that LocalDelivery has still to write
  got         \* what each connection was sent: bridges and their events

hub == <<clients, conn, open, unregister, running, closedFor>>
bridge == <<event, audience, targets>>
hubVars == <<hub, bridge, got>>

HubInit ==
  /\ clients = [u \in Users |-> << >>]
  /\ conn = [c \in Clients |-> "new"] /\ open = {}
  /\ unregister = << >> /\ running = TRUE /\ closedFor = {}
  /\ event = [b \in Bridges |-> 0]
  /\ audience = [b \in Bridges |-> {}]
  /\ targets = [b \in Bridges |-> << >>]
  /\ got = [c \in Clients |-> << >>]

Registered(c) == c \in Range(clients[UserOf[c]])
Queued(c) == c \in Range(unregister)

-----------------------------------------------------------------------------
(* The connections                                                         *)

(* The registration, and handleIncoming from here on.                      *)
Serve(c) ==
  /\ conn[c] = "new"
  /\ conn' = [conn EXCEPT ![c] = "reading"] /\ open' = open \cup {c}
  /\ clients' = [clients EXCEPT ![UserOf[c]] = Append(@, c)]
  /\ UNCHANGED <<unregister, running, closedFor, bridge, got>>

(* The client or the network closes, a read times out, a ping fails.       *)
Disconnect(c) ==
  /\ c \in open /\ open' = open \ {c}
  /\ UNCHANGED <<clients, conn, unregister, running, closedFor, bridge, got>>

(* ReadMessage fails; the deferred select sends if there is room, and does *)
(* not wait for it.  Either way the library closes the connection when the *)
(* handler returns.                                                        *)
ReadFails(c) ==
  /\ conn[c] = "reading" /\ c \notin open
  /\ conn' = [conn EXCEPT ![c] = "left"]
  /\ unregister' = IF Len(unregister) < UnregisterCap THEN Append(unregister, c) ELSE unregister
  /\ UNCHANGED <<clients, open, running, closedFor, bridge, got>>

-----------------------------------------------------------------------------
(* Run                                                                     *)

(* Mutant: it deletes the user and not the connection.                     *)
UnregisterUser ==
  /\ running /\ unregister # << >>
  /\ clients' = [clients EXCEPT ![UserOf[Head(unregister)]] = << >>]
  /\ unregister' = Tail(unregister)
  /\ UNCHANGED <<conn, open, running, closedFor, bridge, got>>

(* Mutant: the loop over the connections does not look at the first.       *)
UnregisterNext ==
  /\ running /\ unregister # << >>
  /\ LET c == Head(unregister)
     IN  clients' = [clients EXCEPT ![UserOf[c]] = IF @ # << >> /\ Head(@) = c THEN @ ELSE Remove(@, c)]
  /\ unregister' = Tail(unregister)
  /\ UNCHANGED <<conn, open, running, closedFor, bridge, got>>

Unregister ==
  /\ running /\ unregister # << >>
  /\ LET c == Head(unregister) IN clients' = [clients EXCEPT ![UserOf[c]] = RemoveFirst(@, c)]
  /\ unregister' = Tail(unregister)
  /\ UNCHANGED <<conn, open, running, closedFor, bridge, got>>

Signal ==
  /\ running /\ running' = FALSE
  /\ UNCHANGED <<clients, conn, open, unregister, closedFor, bridge, got>>

(* Hub.Stop, one shard after another.                                      *)
Stop(u) ==
  /\ ~running /\ u \notin closedFor
  /\ open' = open \ Range(clients[u])
  /\ clients' = [clients EXCEPT ![u] = << >>]
  /\ closedFor' = closedFor \cup {u}
  /\ UNCHANGED <<conn, unregister, running, bridge, got>>

-----------------------------------------------------------------------------
(* The bridge                                                              *)

(* A message of NATS; the lookup of the members finds some, or fails.      *)
Receive(b) ==
  /\ targets[b] = << >> /\ audience[b] = {} /\ event[b] < MaxEvents
  /\ event' = [event EXCEPT ![b] = @ + 1]
  /\ \E ms \in {{}, Users} : audience' = [audience EXCEPT ![b] = ms]
  /\ UNCHANGED <<hub, targets, got>>

(* LocalDelivery copies the list under the lock of the shard.              *)
Copy(b) ==
  /\ targets[b] = << >>
  /\ \E u \in audience[b] :
       /\ audience' = [audience EXCEPT ![b] = @ \ {u}]
       /\ targets' = [targets EXCEPT ![b] = clients[u]]
  /\ UNCHANGED <<hub, event, got>>

(* Mutant: a write is tried a second time.                                 *)
WriteAgain(b) ==
  /\ targets[b] # << >>
  /\ LET c == Head(targets[b])
     IN  IF c \in open
         THEN /\ got' = [got EXCEPT ![c] = Append(@, <<b, event[b]>>)]
              /\ Len(got[c]) < MaxEvents
         ELSE UNCHANGED got
  /\ targets' \in {targets, [targets EXCEPT ![b] = Tail(@)]}
  /\ UNCHANGED <<hub, event, audience>>

(* Mutant: a failed write ends the loop.                                   *)
WriteOrReturn(b) ==
  /\ targets[b] # << >>
  /\ LET c == Head(targets[b])
     IN  IF c \in open
         THEN /\ got' = [got EXCEPT ![c] = Append(@, <<b, event[b]>>)]
              /\ targets' = [targets EXCEPT ![b] = Tail(@)]
         ELSE targets' = [targets EXCEPT ![b] = << >>] /\ UNCHANGED got
  /\ UNCHANGED <<hub, event, audience>>

(* writeText; a connection that cannot be written is closed once more.     *)
Write(b) ==
  /\ targets[b] # << >>
  /\ LET c == Head(targets[b])
     IN  got' = IF c \in open THEN [got EXCEPT ![c] = Append(@, <<b, event[b]>>)] ELSE got
  /\ targets' = [targets EXCEPT ![b] = Tail(@)]
  /\ UNCHANGED <<hub, event, audience>>

(* A write that meets its deadline: the client does not read.              *)
WriteTimesOut(b) ==
  /\ targets[b] # << >>
  /\ open' = open \ {Head(targets[b])}
  /\ targets' = [targets EXCEPT ![b] = Tail(@)]
  /\ UNCHANGED <<clients, conn, unregister, running, closedFor, event, audience, got>>

BridgeStep(b) == Receive(b) \/ Copy(b) \/ Write(b) \/ WriteTimesOut(b)

(* A process may have no connections and no events for as long as it runs. *)
Quiet ==
  /\ \A c \in Clients : conn[c] = "left" \/ (conn[c] = "reading" /\ c \in open)
  /\ \A b \in Bridges : event[b] = MaxEvents /\ audience[b] = {} /\ targets[b] = << >>
  /\ UNCHANGED hubVars

HubNext ==
  \/ \E c \in Clients : Serve(c) \/ Disconnect(c) \/ ReadFails(c)
  \/ Unregister \/ Signal
  \/ \E u \in Users : Stop(u)
  \/ \E b \in Bridges : BridgeStep(b)
  \/ Quiet

HubSpec == HubInit /\ [][HubNext]_hubVars

-----------------------------------------------------------------------------
(* Correctness                                                             *)

(* An open connection is found by every delivery: nobody but its own       *)
(* handler, or Stop, which closes it, takes it out of its shard.           *)
OpenIsRegistered == \A c \in open : conn[c] = "reading" /\ Registered(c)

(* What a connection is sent by a bridge comes in the order of the events, *)
(* none of them twice.                                                     *)
InOrder ==
  \A c \in Clients : \A i, j \in 1..Len(got[c]) :
    i < j /\ got[c][i][1] = got[c][j][1] => got[c][i][2] < got[c][j][2]

(* A connection that stays open gets every event whose delivery to its     *)
(* user begins after its Serve, whatever happens to the others.            *)
OpenIsServed ==
  \A b \in Bridges, c \in Clients, n \in 1..MaxEvents :
    c \in open /\ event[b] = n /\ UserOf[c] \in audience[b]
      ~> <<b, n>> \in Range(got[c]) \/ c \notin open

(* A connection that left through the channel is forgotten, unless the     *)
(* process shuts down.                                                     *)
LeftIsForgotten == \A c \in Clients : Queued(c) ~> ~Registered(c) \/ ~running
=============================================================================
