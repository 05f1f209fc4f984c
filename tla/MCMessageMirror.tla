--------------------------- MODULE MCMessageMirror ---------------------------
(* Messages of one room: one that its author sends, edits and deletes, the *)
(* last perhaps before it is there, and that another member changes and    *)
(* deletes; and one that is only sent.                                     *)
EXTENDS MessageMirror, TLC

CONSTANTS v1, v2, send1, edit1, delete1, change1, other1, send2

MCKind == [c \in Tasks |->
  CASE c \in {send1, send2} -> "send"
    [] c \in {edit1, change1} -> "edit"
    [] c \in {delete1, other1} -> "delete"]
MCMessageOf == [c \in Tasks |-> IF c = send2 THEN v2 ELSE v1]
MCOwn == Tasks \ {change1, other1}

AllFaults == FaultKinds
NoFaults == {}
=============================================================================
