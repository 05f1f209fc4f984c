---------------------------- MODULE Conversations ----------------------------
(***************************************************************************)
(* What a user talks through: the rooms, the tasks that mirror and         *)
(* announce what is written in them, and the connections over which events *)
(* come.  Each is modelled with a state of its own, so a behaviour follows *)
(* one of them while the others stay as they were.                         *)
(***************************************************************************)
EXTENDS RealtimeHub, Rooms, MessageMirror

VARIABLE part   \* the component that is followed

conversationVars == <<hubVars, roomVars, vars, part>>

ConversationsInit ==
  /\ HubInit /\ RoomsInit /\ Init /\ part \in {"hub", "rooms", "tasks"}
  /\ part # "rooms" => mirrored

HubPart == part = "hub" /\ HubNext /\ UNCHANGED <<roomVars, vars, part>>

(* Nobody need ever call again.                                            *)
RoomsPart == part = "rooms" /\ (RoomsNext \/ UNCHANGED roomVars) /\ UNCHANGED <<hubVars, vars, part>>

TasksPart == part = "tasks" /\ Next /\ UNCHANGED <<hubVars, roomVars, part>>

ConversationsNext == HubPart \/ RoomsPart \/ TasksPart

(* A goroutine that can go on does; events and disconnections may stay     *)
(* away, and so may the signal.  Of a task it is what AcceptedRuns of      *)
(* Orchestrator justifies.                                                 *)
ConversationsFairness ==
  /\ WF_hubVars(part = "hub" /\ Unregister)
  /\ \A c \in Clients : WF_hubVars(part = "hub" /\ ReadFails(c))
  /\ \A b \in Bridges :
       WF_hubVars(part = "hub" /\ Copy(b)) /\ WF_hubVars(part = "hub" /\ (Write(b) \/ WriteTimesOut(b)))
  /\ \A c \in Tasks : WF_vars(part = "tasks" /\ TaskStep(c))

ConversationsSpec == ConversationsInit /\ [][ConversationsNext]_conversationVars /\ ConversationsFairness
=============================================================================
