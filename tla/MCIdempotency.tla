---------------------------- MODULE MCIdempotency ----------------------------
(***************************************************************************)
(* Three deliveries of one key, the last with another body, and one of a   *)
(* second key; and ann, who registers and goes in from three places.       *)
(***************************************************************************)
EXTENDS Gate, TLC

CONSTANTS a1, a2, a3, b1, keyA, keyB, body, otherBody

MCReqs == {a1, a2, a3, b1}
OneKeyReqs == {a1, a2, a3}
OneKeyResOf == [r \in OneKeyReqs |-> keyA]
OneKeyBodyOf == [r \in OneKeyReqs |-> IF r = a3 THEN otherBody ELSE body]
MCResOf == [r \in MCReqs |-> IF r = b1 THEN keyB ELSE keyA]
MCBodyOf == [r \in MCReqs |-> IF r = a3 THEN otherBody ELSE body]

AllFaults == FaultKinds
OnlyOverlap == {"overlap"}

CONSTANTS ann, here, there, near, n1, n2, n3, n4, n5, n6, n7, n8
EC(op, p, w) == [op |-> op, name |-> ann, from |-> p, with |-> w]
MCEntry ==
  n1 :> EC("register", here, n1) @@ n2 :> EC("register", there, n2) @@
  n3 :> EC("login", here, n3) @@ n4 :> EC("login", there, n4) @@
  n5 :> EC("me", here, n3) @@ n6 :> EC("refresh", there, n1) @@
  n7 :> EC("refresh", here, n1) @@ n8 :> EC("login", near, n8)
(* Near is another agent, of the same address as here.                      *)
MCAddress == [p \in {here, there, near} |-> IF p = there THEN there ELSE here]
=============================================================================
