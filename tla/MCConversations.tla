--------------------------- MODULE MCConversations ---------------------------
EXTENDS Conversations, MCMessageMirror, TLC

(* A user with two devices and one with a single one.  The channel has      *)
(* room for one, so that it is met full.                                    *)
CONSTANTS phone, laptop, tablet, ann, bob, cyd
MCUserOf == phone :> ann @@ laptop :> ann @@ tablet :> bob

(* A room of ann and bob, that cyd is not in, and two that are yet to be    *)
(* opened.                                                                  *)
CONSTANTS o1, o2, o3, m1, m2, m3, m4, n1, n2, n3, n4, n5, n6, n7, n8, n9, p1, p2, p3, p4
CC(op, u, r, m, w, a) == [op |-> op, by |-> u, room |-> r, about |-> m, with |-> w, arg |-> a]
MCChatCall ==
  m1 :> CC("send", ann, o1, m1, {}, 0) @@ m2 :> CC("send", bob, o1, m2, {}, 0) @@ m3 :> CC("send", ann, o1, m3, {}, 0) @@
  m4 :> CC("send", cyd, o1, m4, {}, 0) @@
  n1 :> CC("direct", ann, o2, m1, {bob}, 0) @@ n9 :> CC("group", cyd, o3, m1, {ann, bob}, 0) @@
  n2 :> CC("edit", ann, o1, m1, {}, 0) @@ n3 :> CC("delete", ann, o1, m1, {}, 0) @@
  n4 :> CC("history", bob, o1, m1, {}, 0) @@ n5 :> CC("react", cyd, o1, m1, {}, 0) @@ n6 :> CC("mute", bob, o1, m1, {}, 5) @@
  n7 :> CC("read", bob, o1, m1, {}, 0) @@ n8 :> CC("history", cyd, o1, m1, {}, 0) @@ p1 :> CC("rooms", bob, o1, m1, {}, 0) @@
  p2 :> CC("unread", bob, o1, m1, {}, 0) @@ p3 :> CC("upload", ann, o1, m1, {}, 0) @@ p4 :> CC("key", bob, o1, m1, {ann}, 0)
MCMembersOfFirst == o1 :> {ann, bob} @@ o2 :> {} @@ o3 :> {}
===============================================================================
