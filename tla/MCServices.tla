------------------------------ MODULE MCServices ------------------------------
EXTENDS Services, TLC

CONSTANTS ann, bob

(* Four carts over two products: x has two, y two and is still to be posted *)
(* (z asks for nothing, and is refused); some ask for the same               *)
(* rows in the opposite order, some more than there is.                     *)
CONSTANTS b1, b2, b3, b4, x, y, z
L(p, n) == [product |-> p, quantity |-> n]
MCCart == b1 :> <<L(x, 1), L(y, 2)>> @@ b2 :> <<L(y, 1), L(x, 1)>> @@ b3 :> <<L(x, 2), L(x, 1)>> @@ b4 :> <<L(x, 2)>>
MCPrice == x :> 2 @@ y :> 1 @@ z :> 0
MCStock == x :> 2 @@ y :> 2 @@ z :> 0

(* A group of ann's that bob is in, and a closed one that bob founds.       *)
CONSTANTS g1, g2, k1, k2, k3, k4, k5, k6, k7, k8, k9, e1, e2, e3, e4, e5, e6, e7, e8, e9, f1, f2, f3, f4
GC(op, u, g, o, a) == [op |-> op, by |-> u, group |-> g, other |-> o, arg |-> a]
MCGroupCall ==
  k1 :> GC("found", bob, g2, bob, "") @@ k2 :> GC("join", bob, g1, bob, "") @@ k3 :> GC("leave", bob, g1, bob, "") @@
  k4 :> GC("ban", ann, g1, bob, "") @@ k5 :> GC("unban", ann, g1, bob, "") @@ k6 :> GC("role", ann, g1, bob, "member") @@
  k7 :> GC("guide", ann, g1, ann, "") @@ k8 :> GC("guide", ann, g1, ann, "") @@ k9 :> GC("organize", ann, g1, ann, "") @@
  e1 :> GC("rsvp", bob, g1, k9, "") @@ e2 :> GC("cancel", ann, g1, k9, "") @@ e3 :> GC("gather", ann, g1, ann, "") @@
  e4 :> GC("enter", bob, g1, e3, "") @@ e5 :> GC("thread", bob, g1, e3, "") @@ e6 :> GC("resonate", ann, g1, e5, 1) @@
  e7 :> GC("pin", ann, g1, e5, TRUE) @@ e8 :> GC("lock", ann, g1, e5, TRUE) @@ e9 :> GC("reply", ann, g1, e5, "") @@
  f1 :> GC("subscribe", bob, g1, ann, "") @@ f2 :> GC("unsubscribe", bob, g1, f1, "") @@ f3 :> GC("tier", bob, g1, f1, "") @@
  f4 :> GC("settings", ann, g1, ann, "")
MCOwner == g1 :> ann @@ g2 :> bob
MCMembers == {<<g1, bob>>}

(* An app of ann's with one part of each kind, and one that bob registers.  *)
CONSTANTS a1, a2, y1, y2, w1, w2, z1, z2, d1, d2, d3, d4, d5, d6, d7, d8, d9, x1, x2, x3, x4, x5, x6, x7, x8, x9,
  u1, u2, u3, u4, u5, u6, u7
DC(op, u, a, p, f) == [op |-> op, by |-> u, app |-> a, part |-> p, active |-> f]
MCDevCall ==
  d1 :> DC("register", bob, a2, y1, TRUE) @@ d2 :> DC("editApp", ann, a1, y1, TRUE) @@
  d3 :> DC("verify", ann, a1, y1, TRUE) @@ d4 :> DC("dropApp", ann, a1, y1, TRUE) @@
  d5 :> DC("add", ann, a1, y2, TRUE) @@ d6 :> DC("add", ann, a1, w2, TRUE) @@ d7 :> DC("add", ann, a1, z2, TRUE) @@
  d8 :> DC("edit", ann, a1, y1, TRUE) @@ d9 :> DC("edit", ann, a1, w1, FALSE) @@ x1 :> DC("edit", bob, a1, z1, FALSE) @@
  u4 :> DC("edit", ann, a1, z1, FALSE) @@
  x2 :> DC("revoke", ann, a1, y1, TRUE) @@ x3 :> DC("drop", ann, a1, w1, TRUE) @@ x4 :> DC("drop", ann, a1, z1, TRUE) @@
  x5 :> DC("test", ann, a1, w1, TRUE) @@ x6 :> DC("list", ann, a1, w1, TRUE) @@ x7 :> DC("readApp", ann, a1, w1, TRUE) @@
  x8 :> DC("list", ann, a1, y1, TRUE) @@ x9 :> DC("list", ann, a1, z1, TRUE) @@ u1 :> DC("read", ann, a1, y1, TRUE) @@
  u2 :> DC("read", ann, a1, w1, TRUE) @@ u3 :> DC("read", ann, a1, z1, TRUE) @@
  u7 :> DC("apps", bob, a2, y1, TRUE) @@
  u5 :> DC("measure", ann, a1, z1, TRUE) @@ u6 :> DC("suite", ann, a1, z1, TRUE)
MCAppOwner == a1 :> ann @@ a2 :> bob
MCPartOf == y1 :> a1 @@ y2 :> a1 @@ w1 :> a1 @@ w2 :> a1 @@ z1 :> a1 @@ z2 :> a1
(* Three items and tips, searches, and two notifications to ann, whose      *)
(* pages hold one.                                                          *)
CONSTANTS p1, p2, p3, p4, p5, p6, p7, p8, p9, q1, q2, q3, q4, q5, q6, q7, q8
PC(op, u, a) == [op |-> op, by |-> u, arg |-> a]
MCErrand ==
  p1 :> PC("store", ann, "whole") @@ p2 :> PC("store", bob, "") @@ p3 :> PC("items", ann, "") @@ p4 :> PC("tip", ann, "") @@
  p5 :> PC("search", ann, "a query") @@ p6 :> PC("search", ann, "another") @@ p7 :> PC("search", bob, "") @@
  p8 :> PC("history", ann, "") @@ p9 :> PC("choose", ann, <<"go", "tea">>) @@ q1 :> PC("interests", ann, "") @@
  q2 :> PC("notify", bob, ann) @@ q3 :> PC("notify", bob, ann) @@ q4 :> PC("activity", ann, "") @@
  q5 :> PC("unread", ann, "") @@ q6 :> PC("markRead", bob, q2) @@ q7 :> PC("markAll", ann, "") @@ q8 :> PC("clear", ann, "")
===============================================================================
