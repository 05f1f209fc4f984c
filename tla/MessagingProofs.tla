-------------------------- MODULE MessagingProofs -----------------------------
(***************************************************************************)
(* Theorems of the connections, of the rooms, and of the tasks that copy   *)
(* and announce a message, for any users, connections, subscriptions,      *)
(* rooms, messages and faults.                                             *)
(***************************************************************************)
EXTENDS Conversations, WellFoundedInduction, SequenceTheorems, TLAPS

-----------------------------------------------------------------------------
(* RealtimeHub                                                              *)

(* A set of naturals that is not empty has a least element, since they are  *)
(* well founded.                                                            *)
LEMMA SmallestOfSome ==
  ASSUME NEW T, T \subseteq Nat, T # {}
  PROVE  \E x \in T : \A y \in T : x <= y
<1> DEFINE R == OpToRel(<, Nat)
<1>1. \E x \in T : \A y \in T : ~ (<<y, x>> \in R)
  BY WFMin, NatLessThanWellFounded
<1>2. \A x, y \in Nat : y < x => <<y, x>> \in R
  BY DEF OpToRel
<1> HIDE DEF R
<1>3. PICK x \in T : \A y \in T : ~ (<<y, x>> \in R)
  BY <1>1
<1>4. ASSUME NEW y \in T
      PROVE  x <= y
  <2>1. x \in Nat /\ y \in Nat
    OBVIOUS
  <2>2. ~(y < x)
    BY <1>2, <1>3, <2>1
  <2> QED
    BY <2>1, <2>2
<1> QED
  BY <1>4

(* One place of e goes, if there is any, and the others close up.          *)
LEMMA RemoveFirstOf ==
  ASSUME NEW S, NEW s \in Seq(S), NEW e
  PROVE  LET t == RemoveFirst(s, e)
         IN  /\ t \in Seq(S)
             /\ \/ t = s
                \/ \E k \in 1..Len(s) :
                     s[k] = e /\ Len(t) = Len(s) - 1 /\ \A j \in 1..Len(t) : t[j] = IF j < k THEN s[j] ELSE s[j + 1]
<1> DEFINE I == {i \in 1..Len(s) : s[i] = e}
           k == Min(I)
           a == SubSeq(s, 1, k - 1)
           b == SubSeq(s, k + 1, Len(s))
<1>1. CASE I = {}
  BY <1>1 DEF RemoveFirst
<1>2. CASE I # {}
  <2>0. Len(s) \in Nat
    OBVIOUS
  <2>1. I \subseteq Nat /\ \A i \in I : i \in 1..Len(s) /\ s[i] = e
    OBVIOUS
  <2>2. RemoveFirst(s, e) = a \o b
    BY <1>2 DEF RemoveFirst, RemoveAt, SelectInSeq
  <2> HIDE DEF I
  <2>3. \E x \in I : \A y \in I : x <= y
    BY <1>2, <2>1, SmallestOfSome
  <2>4. k \in I
    BY <2>3 DEF Min
  <2>5. k \in 1..Len(s) /\ s[k] = e /\ Len(s) \in Nat
    BY <2>0, <2>1, <2>4
  <2> HIDE DEF k
  <2>6. a \in Seq(S) /\ Len(a) = k - 1 /\ \A j \in 1..(k - 1) : a[j] = s[j]
    BY <2>5
  <2>7. b \in Seq(S) /\ Len(b) = Len(s) - k /\ \A j \in 1..(Len(s) - k) : b[j] = s[j + k]
    BY <2>5
  <2> HIDE DEF a, b
  <2>8. a \o b \in Seq(S) /\ Len(a \o b) = Len(a) + Len(b)
    BY <2>6, <2>7
  <2>10. Len(a \o b) = Len(s) - 1
    BY <2>5, <2>6, <2>7, <2>8
  <2>11. ASSUME NEW j \in 1..(Len(s) - 1)
         PROVE  (a \o b)[j] = IF j < k THEN s[j] ELSE s[j + 1]
    <3>1. CASE j < k
      BY <2>5, <2>6, <2>7, <3>1
    <3>2. CASE j >= k
      <4>0. j > Len(a) /\ j <= Len(a) + Len(b) /\ j \in Nat /\ Len(a) \in Nat /\ Len(b) \in Nat
        BY <2>5, <2>6, <2>7, <3>2
      <4>1. (a \o b)[j] = b[j - Len(a)] /\ j - Len(a) \in 1..Len(b)
        <5>1. j - Len(a) \in 1..Len(b)
          BY <4>0
        <5>2. a \in Seq(S) /\ b \in Seq(S) /\ j \in 1..(Len(a) + Len(b)) /\ ~ (j <= Len(a))
          BY <2>6, <2>7, <4>0
        <5> QED
          BY <5>1, <5>2, ConcatProperties
      <4>2. j - Len(a) \in 1..(Len(s) - k) /\ (j - Len(a)) + k = j + 1
        BY <2>5, <2>6, <2>7, <4>1
      <4>3. b[j - Len(a)] = s[(j - Len(a)) + k]
        BY <2>7, <4>2
      <4>4. ~ (j < k)
        BY <2>5, <3>2
      <4> QED
        BY <4>1, <4>2, <4>3, <4>4
    <3>3. j \in Nat /\ k \in Nat
      BY <2>5
    <3>4. j < k \/ j >= k
      BY <3>3
    <3> QED
      BY <3>1, <3>2, <3>4
  <2> QED
    BY <2>2, <2>5, <2>8, <2>10, <2>11
<1> QED
  BY <1>1, <1>2

(* Nothing is in s twice.                                                  *)
Once(s) == \A i, j \in 1..Len(s) : s[i] = s[j] => i = j

(* Whatever is not e stays, and what was there once is there once at most.  *)
LEMMA RemoveFirstKeeps ==
  ASSUME NEW S, NEW s \in Seq(S), NEW e
  PROVE  LET t == RemoveFirst(s, e)
         IN  /\ t \in Seq(S) /\ Range(t) \subseteq Range(s)
             /\ \A d \in Range(s) : d # e => d \in Range(t)
             /\ Once(s) => Once(t)
<1> DEFINE t == RemoveFirst(s, e)
<1>1. t \in Seq(S) /\ Len(s) \in Nat /\ Len(t) \in Nat
  BY RemoveFirstOf
<1>2. Range(s) = {s[i] : i \in 1..Len(s)} /\ Range(t) = {t[i] : i \in 1..Len(t)}
  BY <1>1 DEF Range
<1>3. CASE t = s
  BY <1>1, <1>3
<1>4. CASE t # s
  <2>1. PICK k \in 1..Len(s) :
          s[k] = e /\ Len(t) = Len(s) - 1 /\ \A j \in 1..Len(t) : t[j] = IF j < k THEN s[j] ELSE s[j + 1]
    BY <1>4, RemoveFirstOf
  <2> HIDE DEF t
  <2>2. \A j \in 1..Len(t) : j \in 1..Len(s) /\ j + 1 \in 1..Len(s)
    BY <1>1, <2>1
  <2>3. Range(t) \subseteq Range(s)
    BY <1>2, <2>1, <2>2
  <2>4. ASSUME NEW d \in Range(s), d # e
        PROVE  d \in Range(t)
    <3>1. PICK i \in 1..Len(s) : s[i] = d
      BY <1>2
    <3>2. CASE i < k
      <4>1. i \in 1..Len(t) /\ t[i] = d
        BY <1>1, <2>1, <3>1, <3>2
      <4> QED
        BY <1>2, <4>1
    <3>3. CASE i > k
      <4>1. i - 1 \in 1..Len(t) /\ ~(i - 1 < k) /\ (i - 1) + 1 = i
        BY <1>1, <2>1, <3>3
      <4>2. t[i - 1] = d
        BY <2>1, <3>1, <4>1
      <4> QED
        BY <1>2, <4>1, <4>2
    <3>4. i # k
      BY <2>1, <2>4, <3>1
    <3> QED
      BY <1>1, <3>2, <3>3, <3>4
  <2>5. ASSUME Once(s), NEW i \in 1..Len(t), NEW j \in 1..Len(t), t[i] = t[j]
        PROVE  i = j
    BY <1>1, <2>1, <2>2, <2>5 DEF Once
  <2> QED
    BY <1>1, <2>3, <2>4, <2>5 DEF t, Once
<1> QED
  BY <1>3, <1>4

(* One more at the end, and what was there stays.                           *)
LEMMA AppendKeeps ==
  ASSUME NEW S, NEW s \in Seq(S), NEW e \in S
  PROVE  /\ Append(s, e) \in Seq(S) /\ Range(Append(s, e)) = Range(s) \cup {e}
         /\ Once(s) /\ e \notin Range(s) => Once(Append(s, e))
<1>1. /\ Append(s, e) \in Seq(S) /\ Len(Append(s, e)) = Len(s) + 1 /\ Len(s) \in Nat
      /\ Append(s, e)[Len(s) + 1] = e /\ \A i \in 1..Len(s) : Append(s, e)[i] = s[i]
      /\ \A i \in 1..(Len(s) + 1) : i \in 1..Len(s) \/ i = Len(s) + 1
  OBVIOUS
<1>2. Range(s) = {s[i] : i \in 1..Len(s)} /\ Range(Append(s, e)) = {Append(s, e)[i] : i \in 1..(Len(s) + 1)}
  BY <1>1 DEF Range
<1>3. \A i \in 1..Len(s) : i \in 1..(Len(s) + 1)
  BY <1>1
<1>4. Range(Append(s, e)) = Range(s) \cup {e}
  <2>1. Len(s) + 1 \in 1..(Len(s) + 1)
    BY <1>1
  <2> QED
    BY <1>1, <1>2, <1>3, <2>1
<1>5. ASSUME Once(s), e \notin Range(s), NEW i \in 1..(Len(s) + 1), NEW j \in 1..(Len(s) + 1),
             Append(s, e)[i] = Append(s, e)[j]
      PROVE  i = j
  BY <1>1, <1>2, <1>5 DEF Once
<1> QED
  BY <1>1, <1>4, <1>5 DEF Once

(* The head goes, and is not found again in a list that has it once.        *)
LEMMA TailKeeps ==
  ASSUME NEW S, NEW s \in Seq(S), s # << >>
  PROVE  /\ Tail(s) \in Seq(S) /\ Head(s) \in S /\ Head(s) \in Range(s) /\ Range(Tail(s)) \subseteq Range(s)
         /\ Once(s) => Once(Tail(s)) /\ Head(s) \notin Range(Tail(s))
<1>1. /\ Tail(s) \in Seq(S) /\ Len(s) \in Nat /\ Len(s) > 0 /\ Len(Tail(s)) = Len(s) - 1
      /\ Head(s) = s[1] /\ Head(s) \in S /\ \A i \in 1..(Len(s) - 1) : Tail(s)[i] = s[i + 1]
  OBVIOUS
<1>2. Range(s) = {s[i] : i \in 1..Len(s)} /\ Range(Tail(s)) = {Tail(s)[i] : i \in 1..(Len(s) - 1)}
  <2>1. DOMAIN s = 1..Len(s) /\ DOMAIN Tail(s) = 1..Len(Tail(s))
    BY <1>1
  <2> QED
    BY <1>1, <2>1 DEF Range
<1>3. 1 \in 1..Len(s) /\ \A i \in 1..(Len(s) - 1) : i + 1 \in 1..Len(s) /\ i + 1 # 1
  BY <1>1
<1>4. Head(s) \in Range(s) /\ Range(Tail(s)) \subseteq Range(s)
  BY <1>1, <1>2, <1>3
<1>5. ASSUME Once(s), NEW i \in 1..(Len(s) - 1), NEW j \in 1..(Len(s) - 1), Tail(s)[i] = Tail(s)[j]
      PROVE  i = j
  BY <1>1, <1>3, <1>5 DEF Once
<1>6. ASSUME Once(s)
      PROVE  Head(s) \notin Range(Tail(s))
  BY <1>1, <1>2, <1>3, <1>6 DEF Once
<1> QED
  BY <1>1, <1>4, <1>5, <1>6 DEF Once

(* The elements of a sequence over S are in S.                              *)
LEMMA RangeIn ==
  ASSUME NEW S, NEW s \in Seq(S)
  PROVE  Range(s) \subseteq S
BY DEF Range

HubTypes ==
  /\ clients \in [Users -> Seq(Clients)] /\ conn \in [Clients -> {"new", "reading", "left"}]
  /\ open \subseteq Clients /\ unregister \in Seq(Clients)
  /\ event \in [Bridges -> Nat] /\ audience \in [Bridges -> SUBSET Users] /\ targets \in [Bridges -> Seq(Clients)]
  /\ got \in [Clients -> Seq(Bridges \X Nat)]

(* A list has connections of its user, once each; what is in the channel   *)
(* has been left.                                                          *)
ListsAreSound ==
  /\ \A u \in Users : Once(clients[u]) /\ \A c \in Range(clients[u]) : UserOf[c] = u /\ conn[c] # "new"
  /\ \A c \in Range(unregister) : conn[c] = "left"

(* A bridge has each target once, of a user that is no longer awaited.     *)
TargetsAreSound ==
  \A b \in Bridges : Once(targets[b]) /\ \A c \in Range(targets[b]) : UserOf[c] \notin audience[b]

(* Nothing a connection got is newer than the event of its bridge, nor as  *)
(* new while that event may still come to it.                              *)
Awaits(b, c) == c \in Range(targets[b]) \/ UserOf[c] \in audience[b]
GotIsSound ==
  \A c \in Clients : \A i \in 1..Len(got[c]) :
    LET b == got[c][i][1]
    IN  got[c][i][2] <= event[b] /\ (Awaits(b, c) => got[c][i][2] < event[b])

HubInv == HubTypes /\ ListsAreSound /\ OpenIsRegistered /\ TargetsAreSound /\ GotIsSound /\ InOrder

(* What a connection got is a sequence of bridges and events.               *)
LEMMA GotTypes ==
  ASSUME HubTypes, NEW c \in Clients
  PROVE  /\ got[c] \in Seq(Bridges \X Nat) /\ Len(got[c]) \in Nat
         /\ \A i \in 1..Len(got[c]) : got[c][i][1] \in Bridges /\ got[c][i][2] \in Nat
<1>1. got[c] \in Seq(Bridges \X Nat)
  BY DEF HubTypes
<1> QED
  BY <1>1

(* The connections move, and nothing is delivered.                         *)
LEMMA ConnectionStep ==
  ASSUME HubInv,
         \/ \E c \in Clients : Serve(c) \/ Disconnect(c) \/ ReadFails(c)
         \/ Unregister \/ Signal \/ \E u \in Users : Stop(u)
  PROVE  HubInv'
<1> USE HubAssumption DEF HubAssumption
<1>1. HubTypes /\ ListsAreSound /\ OpenIsRegistered /\ TargetsAreSound /\ GotIsSound /\ InOrder
  BY DEF HubInv
<1>2. UNCHANGED <<event, audience, targets, got>>
  BY DEF Serve, Disconnect, ReadFails, Unregister, Signal, Stop, bridge
<1>3. TargetsAreSound' /\ GotIsSound' /\ InOrder'
  BY <1>1, <1>2 DEF TargetsAreSound, GotIsSound, InOrder, Awaits
<1> SUFFICES HubTypes' /\ ListsAreSound' /\ OpenIsRegistered'
  BY <1>3 DEF HubInv
<1>4. ASSUME NEW c \in Clients, Serve(c)
      PROVE  HubTypes' /\ ListsAreSound' /\ OpenIsRegistered'
  <2> DEFINE l == Append(clients[UserOf[c]], c)
  <2>1. UserOf[c] \in Users /\ clients[UserOf[c]] \in Seq(Clients) /\ conn[c] = "new"
    BY <1>1, <1>4 DEF HubTypes, Serve
  <2>2. c \notin Range(clients[UserOf[c]]) /\ c \notin open /\ c \notin Range(unregister)
    BY <1>1, <2>1 DEF ListsAreSound, OpenIsRegistered
  <2>3. l \in Seq(Clients) /\ Range(l) = Range(clients[UserOf[c]]) \cup {c} /\ Once(l)
    BY <1>1, <2>1, <2>2, AppendKeeps DEF ListsAreSound
  <2> HIDE DEF l
  <2>4. /\ clients' = [clients EXCEPT ![UserOf[c]] = l] /\ conn' = [conn EXCEPT ![c] = "reading"]
        /\ open' = open \cup {c} /\ unregister' = unregister
    BY <1>4 DEF Serve, l
  <2>5. HubTypes'
    BY <1>1, <1>2, <2>1, <2>3, <2>4 DEF HubTypes
  <2>6. /\ clients'[UserOf[c]] = l /\ \A u \in Users \ {UserOf[c]} : clients'[u] = clients[u]
        /\ conn'[c] = "reading" /\ \A d \in Clients \ {c} : conn'[d] = conn[d]
    BY <1>1, <2>1, <2>4 DEF HubTypes
  <2>7. ListsAreSound'
    <3>1. ASSUME NEW u \in Users
          PROVE  Once(clients'[u]) /\ \A d \in Range(clients'[u]) : UserOf[d] = u /\ conn'[d] # "new"
      <4>1. \A d \in Range(clients[u]) : d \in Clients /\ UserOf[d] = u /\ conn[d] # "new"
        BY <1>1, RangeIn DEF ListsAreSound, HubTypes
      <4>2. CASE u = UserOf[c]
        BY <2>3, <2>6, <4>1, <4>2
      <4>3. CASE u # UserOf[c]
        BY <1>1, <2>6, <4>1, <4>3 DEF ListsAreSound
      <4> QED
        BY <4>2, <4>3
    <3>2. \A d \in Range(unregister') : conn'[d] = "left"
      <4>1. \A d \in Range(unregister) : d \in Clients
        BY <1>1, RangeIn DEF HubTypes
      <4> QED
        BY <1>1, <2>2, <2>4, <2>6, <4>1 DEF ListsAreSound
    <3> QED
      BY <3>1, <3>2 DEF ListsAreSound, Once
  <2>8. OpenIsRegistered'
    <3> SUFFICES ASSUME NEW d \in open' PROVE conn'[d] = "reading" /\ d \in Range(clients'[UserOf[d]])
      BY DEF OpenIsRegistered, Registered
    <3>1. d = c \/ (d \in open /\ d \in Clients /\ conn[d] = "reading" /\ d \in Range(clients[UserOf[d]]))
      BY <1>1, <2>4 DEF OpenIsRegistered, Registered, HubTypes
    <3> QED
      BY <2>1, <2>3, <2>6, <3>1
  <2> QED
    BY <2>5, <2>7, <2>8
<1>5. ASSUME NEW c \in Clients, Disconnect(c)
      PROVE  HubTypes' /\ ListsAreSound' /\ OpenIsRegistered'
  <2>1. open' = open \ {c} /\ UNCHANGED <<clients, conn, unregister>>
    BY <1>5 DEF Disconnect
  <2> QED
    BY <1>1, <1>2, <2>1 DEF HubTypes, ListsAreSound, OpenIsRegistered, Registered
<1>6. ASSUME NEW c \in Clients, ReadFails(c)
      PROVE  HubTypes' /\ ListsAreSound' /\ OpenIsRegistered'
  <2>1. /\ conn[c] = "reading" /\ c \notin open /\ UNCHANGED <<clients, open>>
        /\ conn' = [conn EXCEPT ![c] = "left"] /\ unregister' \in {unregister, Append(unregister, c)}
    BY <1>6 DEF ReadFails
  <2>2. unregister' \in Seq(Clients) /\ Range(unregister') \subseteq Range(unregister) \cup {c}
    <3>1. unregister \in Seq(Clients)
      BY <1>1 DEF HubTypes
    <3>2. Append(unregister, c) \in Seq(Clients) /\ Range(Append(unregister, c)) = Range(unregister) \cup {c}
      BY <3>1, AppendKeeps
    <3> QED
      BY <2>1, <3>1, <3>2
  <2>3. HubTypes'
    BY <1>1, <1>2, <2>1, <2>2 DEF HubTypes
  <2>4. conn'[c] = "left" /\ \A d \in Clients \ {c} : conn'[d] = conn[d]
    BY <1>1, <2>1 DEF HubTypes
  <2>5. ListsAreSound'
    <3>1. ASSUME NEW u \in Users
          PROVE  Once(clients'[u]) /\ \A d \in Range(clients'[u]) : UserOf[d] = u /\ conn'[d] # "new"
      <4>1. \A d \in Range(clients[u]) : d \in Clients /\ UserOf[d] = u /\ conn[d] # "new"
        BY <1>1, RangeIn DEF ListsAreSound, HubTypes
      <4> QED
        BY <1>1, <2>1, <2>4, <4>1 DEF ListsAreSound
    <3>2. \A d \in Range(unregister') : conn'[d] = "left"
      <4>1. \A d \in Range(unregister) : d \in Clients
        BY <1>1, RangeIn DEF HubTypes
      <4> QED
        BY <1>1, <2>2, <2>4, <4>1 DEF ListsAreSound
    <3> QED
      BY <3>1, <3>2 DEF ListsAreSound, Once
  <2>6. OpenIsRegistered'
    BY <1>1, <2>1, <2>4 DEF OpenIsRegistered, Registered, HubTypes
  <2> QED
    BY <2>3, <2>5, <2>6
<1>7. CASE Unregister
  <2> DEFINE c == Head(unregister)
             l == RemoveFirst(clients[UserOf[c]], c)
  <2>1. /\ unregister # << >> /\ UNCHANGED <<conn, open>> /\ unregister' = Tail(unregister)
        /\ clients' = [clients EXCEPT ![UserOf[c]] = l]
    BY <1>7 DEF Unregister
  <2>2. /\ c \in Clients /\ c \in Range(unregister) /\ unregister' \in Seq(Clients)
        /\ Range(unregister') \subseteq Range(unregister)
    BY <1>1, <2>1, TailKeeps DEF HubTypes
  <2>3. UserOf[c] \in Users /\ clients[UserOf[c]] \in Seq(Clients) /\ Once(clients[UserOf[c]])
    BY <1>1, <2>2 DEF HubTypes, ListsAreSound
  <2>4. /\ l \in Seq(Clients) /\ Range(l) \subseteq Range(clients[UserOf[c]]) /\ Once(l)
        /\ \A d \in Range(clients[UserOf[c]]) : d # c => d \in Range(l)
    BY <2>3, RemoveFirstKeeps
  <2>5. conn[c] = "left" /\ c \notin open
    BY <1>1, <2>2 DEF ListsAreSound, OpenIsRegistered
  <2> HIDE DEF c, l
  <2>6. HubTypes'
    BY <1>1, <1>2, <2>1, <2>2, <2>4 DEF HubTypes
  <2>7. clients'[UserOf[c]] = l /\ \A u \in Users \ {UserOf[c]} : clients'[u] = clients[u]
    BY <1>1, <2>1, <2>3 DEF HubTypes
  <2>8. ListsAreSound'
    <3>1. ASSUME NEW u \in Users
          PROVE  Once(clients'[u]) /\ \A d \in Range(clients'[u]) : UserOf[d] = u /\ conn'[d] # "new"
      <4>1. CASE u = UserOf[c]
        BY <1>1, <2>1, <2>4, <2>7, <4>1 DEF ListsAreSound
      <4>2. CASE u # UserOf[c]
        BY <1>1, <2>1, <2>7, <4>2 DEF ListsAreSound
      <4> QED
        BY <4>1, <4>2
    <3> QED
      BY <1>1, <2>1, <2>2, <3>1 DEF ListsAreSound, Once
  <2>9. OpenIsRegistered'
    <3> SUFFICES ASSUME NEW d \in open' PROVE conn'[d] = "reading" /\ d \in Range(clients'[UserOf[d]])
      BY DEF OpenIsRegistered, Registered
    <3>1. d # c /\ d \in Clients /\ UserOf[d] \in Users /\ conn[d] = "reading" /\ d \in Range(clients[UserOf[d]])
      BY <1>1, <2>1, <2>5 DEF OpenIsRegistered, Registered, HubTypes
    <3> QED
      BY <2>1, <2>4, <2>7, <3>1
  <2> QED
    BY <2>6, <2>8, <2>9
<1>8. CASE Signal
  <2>1. UNCHANGED <<clients, conn, open, unregister>>
    BY <1>8 DEF Signal
  <2> QED
    BY <1>1, <1>2, <2>1 DEF HubTypes, ListsAreSound, OpenIsRegistered, Registered
<1>9. ASSUME NEW u \in Users, Stop(u)
      PROVE  HubTypes' /\ ListsAreSound' /\ OpenIsRegistered'
  <2>1. /\ open' = open \ Range(clients[u]) /\ clients' = [clients EXCEPT ![u] = << >>]
        /\ UNCHANGED <<conn, unregister>>
    BY <1>9 DEF Stop
  <2>2. HubTypes'
    BY <1>1, <1>2, <2>1 DEF HubTypes
  <2>3. clients'[u] = << >> /\ \A v \in Users \ {u} : clients'[v] = clients[v]
    BY <1>1, <2>1 DEF HubTypes
  <2>4. Range(<< >>) = {} /\ Once(<< >>)
    BY DEF Range, Once
  <2>5. ListsAreSound'
    BY <1>1, <2>1, <2>3, <2>4 DEF ListsAreSound, Once
  <2>6. OpenIsRegistered'
    <3> SUFFICES ASSUME NEW d \in open' PROVE conn'[d] = "reading" /\ d \in Range(clients'[UserOf[d]])
      BY DEF OpenIsRegistered, Registered
    <3>1. d \notin Range(clients[u]) /\ UserOf[d] \in Users /\ conn[d] = "reading" /\ d \in Range(clients[UserOf[d]])
      BY <1>1, <2>1 DEF OpenIsRegistered, Registered, HubTypes
    <3> QED
      BY <2>1, <2>3, <3>1
  <2> QED
    BY <2>2, <2>5, <2>6
<1> QED
  BY <1>4, <1>5, <1>6, <1>7, <1>8, <1>9

(* A bridge delivers, and the connections stay as they are.                *)
LEMMA BridgeStepKeeps ==
  ASSUME HubInv, NEW b \in Bridges, BridgeStep(b)
  PROVE  HubInv'
<1> USE HubAssumption DEF HubAssumption
<1>1. HubTypes /\ ListsAreSound /\ OpenIsRegistered /\ TargetsAreSound /\ GotIsSound /\ InOrder
  BY DEF HubInv
<1>2. /\ UNCHANGED <<clients, conn, unregister>> /\ open' \subseteq open
  BY DEF BridgeStep, Receive, Copy, Write, WriteTimesOut, hub
<1>3. ListsAreSound' /\ OpenIsRegistered'
  BY <1>1, <1>2 DEF ListsAreSound, OpenIsRegistered, Registered, Once
<1>4. targets[b] \in Seq(Clients) /\ event[b] \in Nat /\ Range(<< >>) = {} /\ Once(<< >>)
  BY <1>1 DEF HubTypes, Range, Once
<1> SUFFICES HubTypes' /\ TargetsAreSound' /\ GotIsSound' /\ InOrder'
  BY <1>3 DEF HubInv
<1>5. CASE Receive(b)
  <2>1. PICK ms \in {{}, Users} :
          /\ event' = [event EXCEPT ![b] = @ + 1] /\ audience' = [audience EXCEPT ![b] = ms]
          /\ UNCHANGED <<targets, got, open>> /\ targets[b] = << >> /\ audience[b] = {}
    BY <1>5 DEF Receive, hub
  <2>2. HubTypes'
    BY <1>1, <1>2, <2>1 DEF HubTypes
  <2>3. /\ event'[b] = event[b] + 1 /\ audience'[b] = ms
        /\ \A a \in Bridges \ {b} : event'[a] = event[a] /\ audience'[a] = audience[a]
    BY <1>1, <2>1 DEF HubTypes
  <2>4. TargetsAreSound'
    BY <1>1, <1>4, <2>1, <2>3 DEF TargetsAreSound, Once
  <2>5. GotIsSound'
    <3> SUFFICES ASSUME NEW c \in Clients, NEW i \in 1..Len(got[c]), NEW a, a = got[c][i][1]
                 PROVE  got[c][i][2] <= event'[a] /\ (Awaits(a, c)' => got[c][i][2] < event'[a])
      BY <2>1 DEF GotIsSound
    <3>1. a \in Bridges /\ got[c][i][2] \in Nat /\ event[a] \in Nat
      BY <1>1, GotTypes DEF HubTypes
    <3>2. got[c][i][2] <= event[a] /\ (Awaits(a, c) => got[c][i][2] < event[a])
      BY <1>1 DEF GotIsSound
    <3>3. CASE a = b
      BY <2>3, <3>1, <3>2, <3>3
    <3>4. CASE a # b
      BY <2>1, <2>3, <3>1, <3>2, <3>4 DEF Awaits
    <3> QED
      BY <3>3, <3>4
  <2>6. InOrder'
    BY <1>1, <2>1 DEF InOrder
  <2> QED
    BY <2>2, <2>4, <2>5, <2>6
<1>6. CASE Copy(b)
  <2>1. PICK u \in audience[b] :
          /\ audience' = [audience EXCEPT ![b] = @ \ {u}] /\ targets' = [targets EXCEPT ![b] = clients[u]]
          /\ UNCHANGED <<event, got, open>>
    BY <1>6 DEF Copy, hub
  <2>2. u \in Users /\ clients[u] \in Seq(Clients)
    BY <1>1, <2>1 DEF HubTypes
  <2>3. HubTypes'
    BY <1>1, <1>2, <2>1, <2>2 DEF HubTypes
  <2>4. /\ targets'[b] = clients[u] /\ audience'[b] = audience[b] \ {u}
        /\ \A a \in Bridges \ {b} : targets'[a] = targets[a] /\ audience'[a] = audience[a]
    BY <1>1, <2>1 DEF HubTypes
  <2>5. Once(clients[u]) /\ \A c \in Range(clients[u]) : UserOf[c] = u
    BY <1>1, <2>2 DEF ListsAreSound
  <2>6. TargetsAreSound'
    BY <1>1, <2>4, <2>5 DEF TargetsAreSound, Once
  <2>7. \A a \in Bridges, c \in Clients : Awaits(a, c)' => Awaits(a, c)
    <3> TAKE a \in Bridges, c \in Clients
    <3>1. CASE a = b
      BY <2>1, <2>4, <2>5, <3>1 DEF Awaits
    <3>2. CASE a # b
      BY <2>4, <3>2 DEF Awaits
    <3> QED
      BY <3>1, <3>2
  <2>8. GotIsSound'
    BY <1>1, <2>1, <2>7, GotTypes DEF GotIsSound
  <2>9. InOrder'
    BY <1>1, <2>1 DEF InOrder
  <2> QED
    BY <2>3, <2>6, <2>8, <2>9
<1>7. ASSUME NEW t, t = Head(targets[b]), targets[b] # << >>, targets' = [targets EXCEPT ![b] = Tail(@)],
             UNCHANGED <<event, audience>>
      PROVE  /\ targets' \in [Bridges -> Seq(Clients)] /\ TargetsAreSound'
             /\ \A a \in Bridges, c \in Clients : Awaits(a, c)' => Awaits(a, c)
             /\ t \in Clients /\ Awaits(b, t) /\ ~Awaits(b, t)'
  <2>1. /\ Tail(targets[b]) \in Seq(Clients) /\ t \in Clients /\ t \in Range(targets[b])
        /\ Range(Tail(targets[b])) \subseteq Range(targets[b])
        /\ Once(targets[b]) => Once(Tail(targets[b])) /\ t \notin Range(Tail(targets[b]))
    BY <1>4, <1>7, TailKeeps
  <2>2. /\ targets'[b] = Tail(targets[b]) /\ \A a \in Bridges \ {b} : targets'[a] = targets[a]
    BY <1>1, <1>7 DEF HubTypes
  <2>3. targets' \in [Bridges -> Seq(Clients)]
    BY <1>1, <1>7, <2>1 DEF HubTypes
  <2>4. TargetsAreSound'
    <3> SUFFICES ASSUME NEW a \in Bridges
                 PROVE  Once(targets'[a]) /\ \A c \in Range(targets'[a]) : UserOf[c] \notin audience[a]
      BY <1>7 DEF TargetsAreSound, Once
    <3>1. Once(targets[a]) /\ \A c \in Range(targets[a]) : UserOf[c] \notin audience[a]
      BY <1>1 DEF TargetsAreSound
    <3>2. CASE a = b
      BY <2>1, <2>2, <3>1, <3>2
    <3>3. CASE a # b
      BY <2>2, <3>1, <3>3
    <3> QED
      BY <3>2, <3>3
  <2>5. \A a \in Bridges, c \in Clients : Awaits(a, c)' => Awaits(a, c)
    <3> TAKE a \in Bridges, c \in Clients
    <3>1. CASE a = b
      BY <1>7, <2>1, <2>2, <3>1 DEF Awaits
    <3>2. CASE a # b
      BY <1>7, <2>2, <3>2 DEF Awaits
    <3> QED
      BY <3>1, <3>2
  <2>6. Once(targets[b]) /\ UserOf[t] \notin audience[b]
    BY <1>1, <2>1 DEF TargetsAreSound
  <2>7. Awaits(b, t)
    BY <2>1 DEF Awaits
  <2>8. ~Awaits(b, t)'
    BY <1>7, <2>1, <2>2, <2>6 DEF Awaits
  <2> QED
    BY <2>1, <2>3, <2>4, <2>5, <2>7, <2>8
<1>8. CASE WriteTimesOut(b)
  <2>1. targets[b] # << >> /\ targets' = [targets EXCEPT ![b] = Tail(@)] /\ UNCHANGED <<event, audience, got>>
    BY <1>8 DEF WriteTimesOut
  <2>2. HubTypes' /\ TargetsAreSound' /\ \A a \in Bridges, c \in Clients : Awaits(a, c)' => Awaits(a, c)
    <3>1. open' \subseteq Clients
      BY <1>1, <1>2 DEF HubTypes
    <3> QED
      BY <1>1, <1>2, <1>7, <2>1, <3>1 DEF HubTypes
  <2>3. GotIsSound' /\ InOrder'
    BY <1>1, <2>1, <2>2, GotTypes DEF GotIsSound, InOrder
  <2> QED
    BY <2>2, <2>3
<1>9. CASE Write(b)
  <2>1. PICK t : t = Head(targets[b])
    OBVIOUS
  <2> DEFINE e == <<b, event[b]>>
  <2>2. /\ targets[b] # << >> /\ targets' = [targets EXCEPT ![b] = Tail(@)] /\ UNCHANGED <<event, audience, open>>
        /\ got' = (IF t \in open THEN [got EXCEPT ![t] = Append(@, e)] ELSE got)
    BY <1>9, <2>1 DEF Write, hub
  <2>3. /\ targets' \in [Bridges -> Seq(Clients)] /\ TargetsAreSound'
        /\ \A a \in Bridges, c \in Clients : Awaits(a, c)' => Awaits(a, c)
        /\ t \in Clients /\ Awaits(b, t) /\ ~Awaits(b, t)'
    BY <1>7, <2>1, <2>2
  <2>4. CASE t \notin open
    <3>1. HubTypes'
      BY <1>1, <1>2, <2>2, <2>3, <2>4 DEF HubTypes
    <3>2. GotIsSound' /\ InOrder'
      BY <1>1, <2>2, <2>3, <2>4, GotTypes DEF GotIsSound, InOrder
    <3> QED
      BY <2>3, <3>1, <3>2
  <2>5. CASE t \in open
    <3> DEFINE s == got[t]
               n == Len(s) + 1
    <3>1. s \in Seq(Bridges \X Nat) /\ e \in Bridges \X Nat /\ Len(s) \in Nat
      BY <1>4, <2>3, GotTypes, <1>1
    <3>2. /\ Append(s, e) \in Seq(Bridges \X Nat) /\ Len(Append(s, e)) = n /\ Append(s, e)[n] = e
          /\ \A i \in 1..Len(s) : Append(s, e)[i] = s[i]
      BY <3>1
    <3>3. got' = [got EXCEPT ![t] = Append(s, e)]
      BY <2>2, <2>5
    <3>4. got'[t] = Append(s, e) /\ \A c \in Clients \ {t} : got'[c] = got[c]
      BY <1>1, <2>3, <3>3 DEF HubTypes
    <3>5. HubTypes'
      <4>1. got' \in [Clients -> Seq(Bridges \X Nat)]
        BY <1>1, <3>2, <3>3 DEF HubTypes
      <4> QED
        BY <1>1, <1>2, <2>2, <2>3, <4>1 DEF HubTypes
    (* An entry is an old one, or the one just written.                    *)
    <3>6. ASSUME NEW c \in Clients, NEW i \in 1..Len(got'[c])
          PROVE  \/ i \in 1..Len(got[c]) /\ got'[c][i] = got[c][i]
                 \/ c = t /\ i = n /\ got'[c][i] = e
      <4>1. CASE c = t
        <5>1. got'[c] = Append(s, e) /\ i \in 1..n /\ Len(s) \in Nat
          BY <3>1, <3>2, <3>4, <4>1
        <5>2. i \in 1..Len(s) \/ i = n
          BY <5>1
        <5> QED
          BY <3>2, <4>1, <5>1, <5>2
      <4>2. CASE c # t
        BY <3>4, <4>2
      <4> QED
        BY <4>1, <4>2
    <3>7. e[1] = b /\ e[2] = event[b] /\ event[b] \in Nat
      BY <1>4
    <3> HIDE DEF e, s
    <3>8. GotIsSound'
      <4> SUFFICES ASSUME NEW c \in Clients, NEW i \in 1..Len(got'[c]), NEW a, a = got'[c][i][1]
                   PROVE  got'[c][i][2] <= event[a] /\ (Awaits(a, c)' => got'[c][i][2] < event[a])
        BY <2>2 DEF GotIsSound
      <4>1. CASE i \in 1..Len(got[c]) /\ got'[c][i] = got[c][i]
        <5>1. a \in Bridges
          BY <1>1, <4>1, GotTypes
        <5>2. got[c][i][2] <= event[a] /\ (Awaits(a, c) => got[c][i][2] < event[a])
          BY <1>1, <4>1 DEF GotIsSound
        <5> QED
          BY <2>3, <4>1, <5>1, <5>2
      <4>2. CASE c = t /\ i = n /\ got'[c][i] = e
        BY <2>3, <3>7, <4>2
      <4> QED
        BY <3>6, <4>1, <4>2
    <3>9. InOrder'
      <4> SUFFICES ASSUME NEW c \in Clients, NEW i \in 1..Len(got'[c]), NEW j \in 1..Len(got'[c]),
                          i < j, got'[c][i][1] = got'[c][j][1]
                   PROVE  got'[c][i][2] < got'[c][j][2]
        BY DEF InOrder
      <4>1. CASE /\ i \in 1..Len(got[c]) /\ got'[c][i] = got[c][i]
                 /\ j \in 1..Len(got[c]) /\ got'[c][j] = got[c][j]
        BY <1>1, <4>1 DEF InOrder
      <4>2. CASE i \in 1..Len(got[c]) /\ got'[c][i] = got[c][i] /\ c = t /\ j = n /\ got'[c][j] = e
        BY <1>1, <2>3, <3>7, <4>2 DEF GotIsSound
      <4>3. CASE c = t /\ i = n
        <5>1. Len(got'[c]) = n /\ n \in Nat
          BY <3>1, <3>2, <3>4, <4>3 DEF s
        <5> QED
          BY <4>3, <5>1
      <4> QED
        BY <3>6, <4>1, <4>2, <4>3
    <3> QED
      BY <2>3, <3>5, <3>8, <3>9
  <2> QED
    BY <2>4, <2>5
<1> QED
  BY <1>5, <1>6, <1>8, <1>9 DEF BridgeStep

(* No connection, no delivery and no event yet.                             *)
LEMMA HubInitially == HubInit => HubInv
<1> SUFFICES ASSUME HubInit PROVE HubInv
  OBVIOUS
<1> USE HubAssumption DEF HubAssumption
<1>1. Range(<< >>) = {} /\ Once(<< >>) /\ Len(<< >>) = 0
  BY DEF Range, Once
<1>2. HubTypes
  BY DEF HubInit, HubTypes
<1>3. ListsAreSound /\ OpenIsRegistered /\ TargetsAreSound
  BY <1>1 DEF HubInit, ListsAreSound, OpenIsRegistered, TargetsAreSound
<1>4. \A c \in Clients : got[c] = << >>
  BY DEF HubInit
<1>5. GotIsSound /\ InOrder
  BY <1>1, <1>4 DEF GotIsSound, InOrder
<1> QED
  BY <1>2, <1>3, <1>5 DEF HubInv

(* Every step of the hub keeps the invariant.                               *)
LEMMA HubStep == HubInv /\ [HubNext]_hubVars => HubInv'
<1> SUFFICES ASSUME HubInv, [HubNext]_hubVars PROVE HubInv'
  OBVIOUS
<1>1. CASE UNCHANGED hubVars
  BY <1>1 DEF hubVars, hub, bridge, HubInv, HubTypes, ListsAreSound, OpenIsRegistered, Registered,
              TargetsAreSound, GotIsSound, InOrder, Awaits, Once
<1>2. CASE Quiet
  BY <1>1, <1>2 DEF Quiet
<1> QED
  BY <1>1, <1>2, ConnectionStep, BridgeStepKeeps DEF HubNext

-----------------------------------------------------------------------------
(* Rooms                                                                    *)

Histories == {c \in ChatCalls : Chats(c, "history")}
ChatMessages == {ChatMessage(c) : c \in ChatCalls}

RoomsTypes ==
  /\ mirrored \in BOOLEAN
  /\ written \in [ChatRooms -> Seq(ChatMessages)] /\ copied \in [ChatRooms -> Seq(ChatMessages)]
  /\ DOMAIN chat = ChatCalls /\ page \in [ChatCalls -> Nat]
  /\ DOMAIN seen = ChatCalls /\ owed \in [ChatCalls -> SUBSET ChatMessages] /\ DOMAIN lacked = ChatCalls

(* A message is there, or owed, once its call has ended.                   *)
SentIsDone ==
  /\ \A r \in ChatRooms : \A i \in 1..Len(written[r]) : chat[written[r][i].id] = "done"
  /\ \A c \in Histories : \A m \in owed[c] : chat[m.id] = "done"

(* How many of the newest messages a client has been shown after p pages:  *)
(* with the mirror, the second page may be the first again.                *)
Covered(p) == IF mirrored /\ p > 1 THEN (p - 1) * PageSize ELSE p * PageSize

(* What a reader is still to be shown at the end.                          *)
Due(c) == owed[c] \ lacked[c]

(* Of what is due, a reader has seen what is no older than that.           *)
ReadersKeepUp ==
  \A c \in Histories :
    LET w == written[Room(c)]
    IN  /\ chat[c] = "next" =>
             /\ page[c] > 0
             /\ \A m \in owed[c] : \E i \in 1..Len(w) : w[i] = m
             /\ \A i \in 1..Len(w) :
                  w[i] \in Due(c) /\ i + Covered(page[c]) > Len(w) => Serialize(w[i]) \in seen[c]
        /\ chat[c] = "done" => \A m \in Due(c) : Serialize(m) \in seen[c]
        /\ chat[c] = "idle" => owed[c] = {} /\ page[c] = 0

RoomsInv == RoomsTypes /\ SentIsDone /\ ReadersKeepUp

(* A page of PageSize rows, or what is left.                               *)
LEMMA NewestRows ==
  ASSUME NEW S, NEW s \in Seq(S), NEW offset \in Nat
  PROVE  /\ Len(Newest(s, offset)) = PageSize => offset + PageSize <= Len(s)
         /\ offset + PageSize <= Len(s) => Len(Newest(s, offset)) = PageSize
         /\ \A i \in 1..Len(s) : i + offset <= Len(s) /\ i + offset + PageSize > Len(s) => s[i] \in ToSet(Newest(s, offset))
<1> DEFINE last == IF offset + PageSize < Len(s) THEN offset + PageSize ELSE Len(s)
           t == Reverse(s)
           n == Newest(s, offset)
<1>1. PageSize \in Nat \ {0} /\ Len(s) \in Nat
  BY RoomsAssumption DEF RoomsAssumption
<1>2. t \in Seq(S) /\ Len(t) = Len(s) /\ \A j \in 1..Len(s) : t[j] = s[(Len(s) - j) + 1]
  BY DEF Reverse
<1> HIDE DEF t
<1>3. n = SubSeq(t, offset + 1, last) /\ last \in Nat
  BY <1>1 DEF Newest, t
<1>4. CASE offset < Len(s)
  <2>1. offset + 1 \in 1..Len(t) /\ last \in 1..Len(t) /\ offset + 1 <= last
    BY <1>1, <1>2, <1>4
  <2> HIDE DEF last
  <2>2. Len(n) = last - offset /\ \A k \in 1..(last - offset) : n[k] = t[offset + k]
    BY <1>1, <1>2, <1>3, <2>1
  <2>3. ASSUME NEW i \in 1..Len(s), i + offset <= Len(s), i + offset + PageSize > Len(s)
        PROVE  s[i] \in ToSet(n)
    <3> DEFINE k == Len(s) + 1 - i - offset
    <3>1. k \in 1..(last - offset) /\ offset + k \in 1..Len(s) /\ (Len(s) - (offset + k)) + 1 = i
      BY <1>1, <2>3 DEF last
    <3>2. n[k] = s[i]
      BY <1>2, <2>2, <3>1
    <3>3. DOMAIN n = 1..Len(n)
      BY <1>2, <1>3, <2>1
    <3> HIDE DEF k
    <3> QED
      BY <2>2, <3>1, <3>2, <3>3 DEF ToSet
  <2>4. Len(n) = PageSize <=> offset + PageSize <= Len(s)
    <3>1. Len(n) = last - offset
      BY <2>2
    <3> HIDE DEF n
    <3> QED
      BY <1>1, <1>4, <3>1 DEF last
  <2> QED
    BY <2>3, <2>4
<1>5. CASE offset >= Len(s)
  <2>1. n = << >>
    BY <1>1, <1>2, <1>3, <1>5
  <2> QED
    BY <1>1, <1>5, <2>1
<1> QED
  BY <1>1, <1>4, <1>5

(* The room and the message of a call.                                      *)
LEMMA CallTypes ==
  ASSUME NEW c \in ChatCalls
  PROVE  Room(c) \in ChatRooms /\ ChatMessage(c) \in ChatMessages /\ ChatMessage(c).id = c
         /\ \A m \in ChatMessages : m.id \in ChatCalls
BY RoomsAssumption DEF RoomsAssumption, Room, ChatMessage, ChatMessages

(* The rows of a room are messages, each named by a call.                   *)
LEMMA RowTypes ==
  ASSUME RoomsTypes, NEW r \in ChatRooms
  PROVE  /\ written[r] \in Seq(ChatMessages) /\ Len(written[r]) \in Nat
         /\ copied[r] \in Seq(ChatMessages) /\ Len(copied[r]) \in Nat
         /\ \A i \in 1..Len(written[r]) : written[r][i] \in ChatMessages /\ written[r][i].id \in ChatCalls
<1>1. written[r] \in Seq(ChatMessages) /\ copied[r] \in Seq(ChatMessages)
  BY DEF RoomsTypes
<1>2. \A m \in ChatMessages : m.id \in ChatCalls
  BY DEF ChatMessages, ChatMessage
<1> QED
  BY <1>1, <1>2

(* A step that reads no page leaves every reader where it is, or fails it. *)
LEMMA ReadersFrame ==
  ASSUME RoomsInv, RoomsTypes', UNCHANGED <<mirrored, page, owed, lacked>>,
         \A d \in ChatCalls : chat[d] = "done" => chat'[d] = "done",
         \A d \in Histories : chat'[d] \in {chat[d], "failed", "refused"},
         \A d \in ChatCalls : seen[d] \subseteq seen'[d],
         \A r \in ChatRooms : written'[r] = written[r] \/
           \E c \in ChatCalls : written'[r] = Append(written[r], ChatMessage(c))
                                /\ chat[c] # "done" /\ chat'[c] = "done"
  PROVE  SentIsDone' /\ ReadersKeepUp'
<1>1. RoomsTypes /\ SentIsDone /\ ReadersKeepUp
  BY DEF RoomsInv
<1>2. ASSUME NEW r \in ChatRooms, written'[r] # written[r]
      PROVE  \E c \in ChatCalls :
               /\ chat[c] # "done" /\ chat'[c] = "done" /\ Len(written'[r]) = Len(written[r]) + 1
               /\ written'[r][Len(written'[r])].id = c
               /\ \A i \in 1..Len(written[r]) : written'[r][i] = written[r][i]
  <2>1. PICK c \in ChatCalls : written'[r] = Append(written[r], ChatMessage(c)) /\ chat[c] # "done" /\ chat'[c] = "done"
    BY <1>2
  <2>2. written[r] \in Seq(ChatMessages) /\ ChatMessage(c) \in ChatMessages /\ ChatMessage(c).id = c
    BY <1>1, CallTypes, RowTypes
  <2> QED
    BY <2>1, <2>2
<1>3. SentIsDone'
  <2>1. ASSUME NEW r \in ChatRooms, NEW i \in 1..Len(written'[r])
        PROVE  chat'[written'[r][i].id] = "done"
    <3>1. Len(written[r]) \in Nat /\ \A j \in 1..Len(written[r]) : written[r][j].id \in ChatCalls /\ chat[written[r][j].id] = "done"
      BY <1>1, RowTypes DEF SentIsDone
    <3>2. CASE written'[r] = written[r]
      BY <2>1, <3>1, <3>2
    <3>3. CASE written'[r] # written[r]
      <4>1. PICK c \in ChatCalls :
              /\ chat'[c] = "done" /\ Len(written'[r]) = Len(written[r]) + 1
              /\ written'[r][Len(written'[r])].id = c
              /\ \A j \in 1..Len(written[r]) : written'[r][j] = written[r][j]
        BY <1>2, <3>3
      <4>2. i \in 1..Len(written[r]) \/ i = Len(written'[r])
        BY <2>1, <3>1, <4>1
      <4>3. CASE i \in 1..Len(written[r])
        BY <3>1, <4>1, <4>3
      <4> QED
        BY <4>1, <4>2, <4>3
    <3> QED
      BY <3>2, <3>3
  <2>2. ASSUME NEW c \in Histories, NEW m \in owed'[c]
        PROVE  chat'[m.id] = "done"
    <3>1. c \in ChatCalls /\ m \in ChatMessages /\ m.id \in ChatCalls
      BY <1>1, <2>2, CallTypes DEF RoomsTypes, Histories
    <3> QED
      BY <1>1, <2>2, <3>1 DEF SentIsDone
  <2> QED
    BY <2>1, <2>2 DEF SentIsDone
<1>4. ReadersKeepUp'
  <2> SUFFICES ASSUME NEW c \in Histories
               PROVE  LET w == written'[Room(c)]
                      IN  /\ chat'[c] = "next" =>
                               /\ page'[c] > 0
                               /\ \A m \in owed'[c] : \E i \in 1..Len(w) : w[i] = m
                               /\ \A i \in 1..Len(w) :
                                    w[i] \in Due(c)' /\ i + Covered(page[c])' > Len(w) => Serialize(w[i]) \in seen'[c]
                          /\ chat'[c] = "done" => \A m \in Due(c)' : Serialize(m) \in seen'[c]
                          /\ chat'[c] = "idle" => owed'[c] = {} /\ page'[c] = 0
    BY DEF ReadersKeepUp
  <2> DEFINE r == Room(c)
             w == written[r]
             cov == Covered(page[c])
  <2>1. c \in ChatCalls /\ r \in ChatRooms /\ Len(w) \in Nat /\ PageSize \in Nat
    BY <1>1, CallTypes, RowTypes, RoomsAssumption DEF Histories, RoomsTypes, RoomsAssumption
  <2>2. cov \in Nat /\ Covered(page[c])' = cov
    BY <1>1, <2>1 DEF Covered, RoomsTypes
  <2>3. /\ chat[c] = "next" =>
             /\ page[c] > 0
             /\ \A m \in owed[c] : \E i \in 1..Len(w) : w[i] = m
             /\ \A i \in 1..Len(w) : w[i] \in Due(c) /\ i + cov > Len(w) => Serialize(w[i]) \in seen[c]
        /\ chat[c] = "done" => \A m \in Due(c) : Serialize(m) \in seen[c]
        /\ chat[c] = "idle" => owed[c] = {} /\ page[c] = 0
    BY <1>1 DEF ReadersKeepUp
  <2>4. Len(written'[r]) \in Nat /\ seen[c] \subseteq seen'[c] /\ page'[c] = page[c] /\ owed'[c] = owed[c]
        /\ Due(c)' = Due(c) /\ Due(c) \subseteq owed[c]
    BY <2>1 DEF RoomsTypes, Due
  <2>5. CASE chat'[c] \in {"failed", "refused"}
    BY <2>5
  <2>6. CASE chat'[c] = chat[c] /\ written'[r] = w
    BY <2>1, <2>2, <2>3, <2>4, <2>6
  <2>7. CASE chat'[c] = chat[c] /\ written'[r] # w
    <3>1. PICK d \in ChatCalls :
               /\ chat[d] # "done" /\ chat'[d] = "done" /\ Len(written'[r]) = Len(w) + 1
               /\ written'[r][Len(written'[r])].id = d
               /\ \A i \in 1..Len(w) : written'[r][i] = w[i]
      BY <1>2, <2>1, <2>7
    <3>2. written'[r][Len(written'[r])] \notin owed[c]
      BY <1>1, <3>1 DEF SentIsDone
    <3>3. ASSUME chat[c] = "next"
          PROVE  \A m \in owed[c] : \E i \in 1..Len(written'[r]) : written'[r][i] = m
      <4> TAKE m \in owed[c]
      <4>1. PICK i \in 1..Len(w) : w[i] = m
        BY <2>3, <3>3
      <4>2. i \in 1..Len(written'[r]) /\ written'[r][i] = m
        BY <2>1, <3>1, <4>1
      <4> QED
        BY <4>2
    <3>4. ASSUME chat[c] = "next", NEW i \in 1..Len(written'[r]), written'[r][i] \in Due(c),
                 i + cov > Len(written'[r])
          PROVE  Serialize(written'[r][i]) \in seen'[c]
      <4>1. i \in 1..Len(w) /\ i + cov > Len(w)
        BY <2>1, <2>2, <2>4, <3>1, <3>2, <3>4
      <4> QED
        BY <2>3, <2>4, <3>1, <3>4, <4>1
    <3> HIDE DEF r, cov
    <3> QED
      BY <2>1, <2>2, <2>3, <2>4, <2>7, <3>3, <3>4 DEF r
  <2> QED
    BY <2>5, <2>6, <2>7
<1> QED
  BY <1>3, <1>4

(* A call that is not a reader's, or fails, and shows no page.             *)
LEMMA QuietStep ==
  ASSUME RoomsInv, NEW c \in ChatCalls,
         \/ SendMessage(c) \/ ChatFails(c) \/ EditMessage(c) \/ DeleteMessage(c) \/ MarkAsRead(c) \/ React(c)
         \/ MirrorReaction(c) \/ MuteRoom(c) \/ Upload(c) \/ CreateDirectChat(c) \/ CreateGroupChat(c)
         \/ GetRooms(c) \/ GetUnread(c) \/ GetKey(c)
  PROVE  RoomsInv'
<1>1. RoomsTypes
  BY DEF RoomsInv
<1>2. UNCHANGED <<mirrored, written, copied, page, owed, lacked>>
  BY DEF SendMessage, ChatFails, EditMessage, DeleteMessage, MarkAsRead, React, MirrorReaction, MuteRoom, Upload,
     CreateDirectChat, CreateGroupChat, OpenRoom, GetRooms, GetUnread, GetKey, Shows, reading, logRows
<1>3. seen' = seen \/ \E answer : seen' = [seen EXCEPT ![c] = @ \cup answer]
  BY DEF SendMessage, ChatFails, EditMessage, DeleteMessage, MarkAsRead, React, MirrorReaction, MuteRoom, Upload,
     CreateDirectChat, CreateGroupChat, OpenRoom, GetRooms, GetUnread, GetKey, Shows, reading
<1>4. DOMAIN seen' = ChatCalls /\ \A d \in ChatCalls : seen[d] \subseteq seen'[d]
  BY <1>1, <1>3 DEF RoomsTypes
<1>5. \/ chat' = chat
      \/ chat[c] # "done" /\ \E l : chat' = [chat EXCEPT ![c] = l] /\ (c \in Histories => l = "failed")
  <2>1. CASE ChatFails(c)
    BY <2>1 DEF ChatFails, ChatGoto
  <2>2. CASE SendMessage(c) \/ EditMessage(c) \/ DeleteMessage(c) \/ MarkAsRead(c) \/ React(c) \/ MuteRoom(c) \/ Upload(c)
    BY <2>2 DEF SendMessage, EditMessage, DeleteMessage, MarkAsRead, React, MuteRoom, Upload,
       Begins, Chats, Histories, ChatGoto
  <2>3. CASE CreateDirectChat(c) \/ CreateGroupChat(c) \/ GetRooms(c) \/ GetUnread(c) \/ GetKey(c)
    BY <2>3 DEF CreateDirectChat, CreateGroupChat, OpenRoom, GetRooms, GetUnread, GetKey,
       Begins, Chats, Histories, ChatGoto
  <2>4. CASE MirrorReaction(c)
    BY <2>4 DEF MirrorReaction
  <2> QED
    BY <2>1, <2>2, <2>3, <2>4
<1>6. /\ DOMAIN chat' = ChatCalls
      /\ \A d \in ChatCalls : chat[d] = "done" => chat'[d] = "done"
      /\ \A d \in Histories : chat'[d] = chat[d] \/ chat'[d] = "failed"
  BY <1>1, <1>5 DEF RoomsTypes, Histories
<1>7. RoomsTypes'
  BY <1>1, <1>2, <1>4, <1>6 DEF RoomsTypes
<1> QED
  BY <1>2, <1>4, <1>6, <1>7, ReadersFrame DEF RoomsInv

(* A message is stored, or copied to the mirror: no reader sees less than   *)
(* it had.                                                                  *)
LEMMA RowStep ==
  ASSUME RoomsInv, NEW c \in ChatCalls, CreateChatMessage(c) \/ MirrorMessage(c)
  PROVE  RoomsInv'
<1> DEFINE r == Room(c)
           m == ChatMessage(c)
<1>1. RoomsTypes /\ r \in ChatRooms /\ m \in ChatMessages /\ m.room = r
  BY CallTypes DEF RoomsInv, ChatMessage
<1>2. written[r] \in Seq(ChatMessages) /\ copied[r] \in Seq(ChatMessages)
  BY <1>1, RowTypes
<1> HIDE DEF r, m
<1>3. CASE CreateChatMessage(c)
  <2>1. /\ UNCHANGED <<mirrored, copied, page, seen, owed, lacked>> /\ chat[c] = "insert" /\ Chats(c, "send")
        /\ chat' = [chat EXCEPT ![c] = "done"] /\ written' = [written EXCEPT ![r] = Append(@, m)]
    BY <1>1, <1>3 DEF CreateChatMessage, InsertMessage, ChatGoto, reading, m
  <2>2. RoomsTypes'
    BY <1>1, <1>2, <2>1 DEF RoomsTypes
  <2>3. /\ \A d \in ChatCalls : chat[d] = "done" => chat'[d] = "done"
        /\ \A d \in Histories : chat'[d] = chat[d]
        /\ chat[c] # "done" /\ chat'[c] = "done"
    BY <1>1, <2>1 DEF RoomsTypes, Histories, Chats
  <2>4. \A q \in ChatRooms : written'[q] = written[q] \/ written'[q] = Append(written[q], ChatMessage(c))
    BY <1>1, <2>1 DEF RoomsTypes, m
  <2>5. \A d \in ChatCalls : seen[d] \subseteq seen'[d]
    BY <2>1
  <2> QED
    BY <2>1, <2>2, <2>3, <2>4, <2>5, ReadersFrame DEF RoomsInv
<1>4. CASE MirrorMessage(c)
  <2>1. /\ UNCHANGED <<mirrored, written, chat, page, seen, owed, lacked>> /\ copied' = [copied EXCEPT ![r] = Append(@, m)]
    BY <1>1, <1>4 DEF MirrorMessage, CopyMessage, reading, logRows, m
  <2>2. RoomsTypes'
    BY <1>1, <1>2, <2>1 DEF RoomsTypes
  <2>3. \A d \in ChatCalls : seen[d] \subseteq seen'[d]
    BY <2>1
  <2> QED
    BY <2>1, <2>2, <2>3, ReadersFrame DEF RoomsInv
<1> QED
  BY <1>3, <1>4

(* The page after p, where it begins, and how far it covers what there is. *)
LEMMA OffsetsCover ==
  ASSUME NEW p \in Nat, mirrored \in BOOLEAN
  PROVE  /\ OffsetOf(p) \in Nat /\ Covered(p) \in Nat /\ Covered(0) = 0 /\ Covered(1) = PageSize /\ OffsetOf(0) = 0
         /\ Covered(p + 1) = OffsetOf(p) + PageSize \/ (mirrored /\ p = 1 /\ Covered(2) = PageSize)
         /\ p = 0 \/ OffsetOf(p) = Covered(p) \/ (mirrored /\ p = 1)
<1>1. PageSize \in Nat
  BY RoomsAssumption DEF RoomsAssumption
<1>2. p * PageSize \in Nat /\ (p + 1) * PageSize = p * PageSize + PageSize /\ 0 * PageSize = 0 /\ 1 * PageSize = PageSize
  BY <1>1
<1>3. p > 0 => (p - 1) * PageSize \in Nat /\ p * PageSize = (p - 1) * PageSize + PageSize
  BY <1>1
<1> QED
  BY <1>1, <1>2, <1>3 DEF OffsetOf, Covered

(* What a page shows a reader that is let in.                              *)
ReadsPage(c, answer) ==
  /\ chat' = [chat EXCEPT ![c] = IF Len(answer) = PageSize THEN "next" ELSE "done"]
  /\ page' = [page EXCEPT ![c] = @ + 1]
  /\ seen' = [seen EXCEPT ![c] = @ \cup {Serialize(m) : m \in ToSet(answer)}]
  /\ owed' = [owed EXCEPT ![c] = IF chat[c] = "idle" THEN ToSet(written[Room(c)]) ELSE @]
  /\ lacked' = [lacked EXCEPT ![c] =
       IF FromMirror(Room(c), page[c]) THEN @ \cup Lacks(Room(c), answer) ELSE @]
  /\ UNCHANGED <<mirrored, written, copied>>

(* One more page: what is due is covered to the page's end, and wholly if  *)
(* that page was the last.                                                 *)
LEMMA ReaderStep ==
  ASSUME RoomsInv, NEW c \in Histories, chat[c] \in {"idle", "next"},
         ReadsPage(c, GetRoomHistory(Room(c), page[c]))
  PROVE  LET w == written[Room(c)]
         IN  /\ chat'[c] \in {"next", "done"}
             /\ chat'[c] = "next" =>
                  /\ page'[c] > 0
                  /\ \A m \in owed'[c] : \E i \in 1..Len(w) : w[i] = m
                  /\ \A i \in 1..Len(w) :
                       w[i] \in Due(c)' /\ i + Covered(page'[c]) > Len(w) => Serialize(w[i]) \in seen'[c]
             /\ chat'[c] = "done" => \A m \in Due(c)' : Serialize(m) \in seen'[c]
<1> DEFINE r == Room(c)
           w == written[r]
           A == GetRoomHistory(r, page[c])
           p == page[c]
           o == owed'[c]
           due == Due(c)'
<1>1. /\ RoomsTypes /\ c \in ChatCalls /\ r \in ChatRooms /\ p \in Nat /\ mirrored \in BOOLEAN
      /\ w \in Seq(ChatMessages) /\ Len(w) \in Nat /\ copied[r] \in Seq(ChatMessages) /\ Len(copied[r]) \in Nat
      /\ PageSize \in Nat \ {0} /\ DOMAIN w = 1..Len(w)
  <2>1. RoomsTypes /\ c \in ChatCalls
    BY DEF RoomsInv, Histories
  <2> QED
    BY <2>1, CallTypes, RowTypes, RoomsAssumption DEF RoomsTypes, RoomsAssumption
<1>2. /\ chat'[c] = IF Len(A) = PageSize THEN "next" ELSE "done"
      /\ page'[c] = p + 1 /\ \A m \in ToSet(A) : Serialize(m) \in seen'[c]
      /\ seen[c] \subseteq seen'[c]
  BY <1>1 DEF ReadsPage, RoomsTypes
<1>3. /\ o = IF chat[c] = "idle" THEN ToSet(w) ELSE owed[c]
      /\ lacked'[c] = IF FromMirror(r, p) THEN lacked[c] \cup Lacks(r, A) ELSE lacked[c]
  BY <1>1 DEF ReadsPage, RoomsTypes
<1>4. /\ chat[c] = "next" =>
           /\ p > 0
           /\ \A m \in owed[c] : \E i \in 1..Len(w) : w[i] = m
           /\ \A i \in 1..Len(w) : w[i] \in Due(c) /\ i + Covered(p) > Len(w) => Serialize(w[i]) \in seen[c]
      /\ chat[c] = "idle" => owed[c] = {} /\ p = 0
  BY DEF RoomsInv, ReadersKeepUp
<1>5. /\ OffsetOf(p) \in Nat /\ Covered(p) \in Nat /\ Covered(0) = 0 /\ Covered(1) = PageSize /\ OffsetOf(0) = 0
      /\ Covered(p + 1) = OffsetOf(p) + PageSize \/ (mirrored /\ p = 1 /\ Covered(2) = PageSize)
      /\ p = 0 \/ OffsetOf(p) = Covered(p) \/ (mirrored /\ p = 1)
      /\ mirrored => OffsetOf(1) = 0
  <2>1. mirrored => OffsetOf(1) = 0
    BY DEF OffsetOf
  <2> QED
    BY <1>1, <2>1, OffsetsCover
<1>6. \A m \in o : \E i \in 1..Len(w) : w[i] = m
  BY <1>1, <1>3, <1>4 DEF ToSet
<1>7. /\ due \subseteq o
      /\ chat[c] = "next" => due \subseteq Due(c)
      /\ FromMirror(r, p) => due \cap Lacks(r, A) = {}
  BY <1>3 DEF Due
<1>8. chat[c] = "next" =>
        \A i \in 1..Len(w) : w[i] \in due /\ i + Covered(p) > Len(w) => Serialize(w[i]) \in seen'[c]
  BY <1>2, <1>4, <1>7
<1> HIDE DEF A, w, r, p, o, due
<1>9. SUFFICES /\ Len(A) = PageSize =>
                    \A i \in 1..Len(w) : w[i] \in due /\ i + Covered(p + 1) > Len(w) => Serialize(w[i]) \in seen'[c]
               /\ Len(A) # PageSize => \A i \in 1..Len(w) : w[i] \in due => Serialize(w[i]) \in seen'[c]
  <2>1. p + 1 > 0 /\ page'[c] = p + 1
    BY <1>1, <1>2
  <2>2. Len(A) # PageSize => \A m \in due : Serialize(m) \in seen'[c]
    BY <1>6, <1>7, <1>9
  <2> QED
    BY <1>2, <1>6, <1>9, <2>1, <2>2 DEF w, r, p, o, due
<1>10. CASE FromMirror(r, p)
  <2>1. mirrored /\ (p = 0 \/ p = 1)
    BY <1>1, <1>10 DEF FromMirror
  <2>2. CASE Len(A) # PageSize
    <3>1. \A i \in 1..Len(w) : w[i] \in ToSet(w)
      BY <1>1 DEF ToSet
    <3>2. Lacks(r, A) = ToSet(w) \ ToSet(A)
      BY <2>2 DEF Lacks, w
    <3> QED
      BY <1>2, <1>7, <1>10, <2>2, <3>1, <3>2
  <2>3. CASE Len(A) = PageSize /\ p = 0
    <3>1. Lacks(r, A) = ToSet(Newest(w, 0)) \ ToSet(A)
      BY <2>3 DEF Lacks, w
    <3>2. \A i \in 1..Len(w) : i <= Len(w) /\ i + PageSize > Len(w) => w[i] \in ToSet(Newest(w, 0))
      <4>1. \A i \in 1..Len(w) : i + 0 <= Len(w) /\ i + 0 + PageSize > Len(w) => w[i] \in ToSet(Newest(w, 0))
        BY <1>1, NewestRows
      <4> QED
        BY <1>1, <4>1
    <3>3. \A i \in 1..Len(w) : w[i] \in due /\ i + PageSize > Len(w) => Serialize(w[i]) \in seen'[c]
      BY <1>1, <1>2, <1>7, <1>10, <3>1, <3>2
    <3>4. Covered(p + 1) = PageSize
      BY <1>5, <2>3
    <3> QED
      BY <2>3, <3>3, <3>4
  <2>4. CASE Len(A) = PageSize /\ p = 1
    <3>1. chat[c] = "next" /\ Covered(p + 1) = Covered(p)
      <4>1. Covered(2) = PageSize
        BY <1>1, <2>1, OffsetsCover DEF Covered
      <4> QED
        BY <1>4, <1>5, <2>4, <4>1
    <3> QED
      BY <1>8, <2>4, <3>1
  <2> QED
    BY <2>1, <2>2, <2>3, <2>4
<1>11. CASE ~FromMirror(r, p)
  <2>1. A = Newest(w, OffsetOf(p))
    BY <1>11 DEF GetRoomHistory, GetMessages, A, w, p
  <2>2. /\ \A i \in 1..Len(w) :
             i + OffsetOf(p) <= Len(w) /\ i + OffsetOf(p) + PageSize > Len(w) => w[i] \in ToSet(A)
        /\ (Len(A) = PageSize) <=> (OffsetOf(p) + PageSize <= Len(w))
    BY <1>1, <1>5, <2>1, NewestRows
  <2>3. \A i \in 1..Len(w) : w[i] \in due /\ i + Covered(p) > Len(w) => Serialize(w[i]) \in seen'[c]
    <3>1. CASE p = 0
      BY <1>1, <1>5, <3>1
    <3>2. CASE p # 0
      BY <1>2, <1>4, <1>8, <3>2
    <3> QED
      BY <3>1, <3>2
  <2>4. CASE mirrored /\ p = 1
    <3>1. OffsetOf(p) = 0 /\ Covered(p) = PageSize /\ Covered(p + 1) = PageSize
      <4>1. Covered(2) = PageSize
        BY <1>1, <2>4, OffsetsCover DEF Covered
      <4> QED
        BY <1>5, <2>4, <4>1
    <3>2. CASE Len(A) = PageSize
      BY <2>3, <3>1, <3>2
    <3>3. CASE Len(A) # PageSize
      <4>1. ~(PageSize <= Len(w))
        BY <1>1, <2>2, <3>1, <3>3
      <4>2. \A i \in 1..Len(w) : i + PageSize > Len(w)
        BY <1>1, <4>1
      <4> QED
        BY <2>3, <3>1, <3>3, <4>2
    <3> QED
      BY <3>2, <3>3
  <2>5. CASE ~(mirrored /\ p = 1)
    <3>1. OffsetOf(p) = Covered(p) /\ Covered(p + 1) = Covered(p) + PageSize
      BY <1>5, <2>5
    <3>2. \A i \in 1..Len(w) : w[i] \in due /\ i + Covered(p + 1) > Len(w) => Serialize(w[i]) \in seen'[c]
      <4> TAKE i \in 1..Len(w)
      <4>1. CASE i + Covered(p) > Len(w)
        BY <2>3, <4>1
      <4>2. CASE i + Covered(p) <= Len(w) /\ i + Covered(p + 1) > Len(w)
        <5>1. i + Covered(p) + PageSize > Len(w)
          BY <1>1, <1>5, <3>1, <4>2
        <5>2. w[i] \in ToSet(A)
          BY <2>2, <3>1, <4>2, <5>1
        <5> QED
          BY <1>2, <5>2
      <4> QED
        BY <1>1, <1>5, <4>1, <4>2
    <3>3. Len(A) # PageSize => \A i \in 1..Len(w) : i + Covered(p + 1) > Len(w)
      BY <1>1, <1>5, <2>2, <3>1
    <3> QED
      BY <3>2, <3>3
  <2> QED
    BY <2>4, <2>5
<1> QED
  BY <1>10, <1>11

(* A request for a page keeps the invariant, the other readers' part        *)
(* included.                                                                *)
LEMMA HistoryStep ==
  ASSUME RoomsInv, NEW c \in Histories, GetHistory(c)
  PROVE  RoomsInv'
<1> DEFINE r == Room(c)
           A == GetRoomHistory(r, page[c])
<1>1. /\ RoomsTypes /\ SentIsDone /\ ReadersKeepUp /\ c \in ChatCalls /\ r \in ChatRooms
      /\ written[r] \in Seq(ChatMessages) /\ chat[c] \in {"idle", "next"}
  BY CallTypes, RowTypes DEF RoomsInv, Histories, GetHistory, Begins
<1>2. \A m \in ToSet(written[r]) : m \in ChatMessages /\ chat[m.id] = "done"
  <2>1. DOMAIN written[r] = 1..Len(written[r])
    BY <1>1
  <2> QED
    BY <1>1, <2>1, RowTypes DEF ToSet, SentIsDone
<1>3. CASE ~RequireRoomMember(r, Sender(c))
  <2>1. UNCHANGED <<mirrored, written, copied, page, seen, owed, lacked>> /\ chat' = [chat EXCEPT ![c] = "refused"]
    BY <1>3 DEF GetHistory, ChatGoto, reading, logRows
  <2>2. RoomsTypes' /\ (\A d \in ChatCalls : chat[d] = "done" => chat'[d] = "done")
        /\ \A d \in Histories : chat'[d] \in {chat[d], "failed", "refused"}
    BY <1>1, <2>1 DEF RoomsTypes, Histories
  <2>3. \A d \in ChatCalls : seen[d] \subseteq seen'[d]
    BY <2>1
  <2> QED
    BY <2>1, <2>2, <2>3, ReadersFrame DEF RoomsInv
<1>4. CASE RequireRoomMember(r, Sender(c))
  <2>1. ReadsPage(c, A)
    BY <1>4 DEF GetHistory, ReadsPage, ChatGoto, logRows
  <2> HIDE DEF A
  <2>2. /\ UNCHANGED <<mirrored, written, copied>>
        /\ DOMAIN chat' = ChatCalls /\ DOMAIN seen' = ChatCalls /\ page' \in [ChatCalls -> Nat]
        /\ DOMAIN lacked' = ChatCalls
        /\ \A d \in ChatCalls \ {c} :
             /\ chat'[d] = chat[d] /\ page'[d] = page[d] /\ seen'[d] = seen[d]
             /\ owed'[d] = owed[d] /\ Due(d)' = Due(d)
    BY <1>1, <2>1 DEF ReadsPage, RoomsTypes, Due
  <2>3. owed' \in [ChatCalls -> SUBSET ChatMessages]
    BY <1>1, <1>2, <2>1 DEF ReadsPage, RoomsTypes
  <2>4. RoomsTypes'
    BY <1>1, <2>2, <2>3 DEF RoomsTypes
  <2>5. SentIsDone'
    <3>1. \A d \in ChatCalls : chat[d] = "done" => chat'[d] = "done"
      BY <1>1, <2>2
    <3>2. \A q \in ChatRooms : \A i \in 1..Len(written[q]) : chat'[written[q][i].id] = "done"
      BY <1>1, <3>1, RowTypes DEF SentIsDone
    <3>3. ASSUME NEW d \in Histories, NEW m \in owed'[d]
          PROVE  chat'[m.id] = "done"
      <4>1. m \in ChatMessages /\ m.id \in ChatCalls /\ d \in ChatCalls
        BY <2>3, <3>3, CallTypes DEF Histories
      <4>2. m \in owed[d] \/ m \in ToSet(written[r])
        BY <1>1, <2>1, <2>2, <3>3, <4>1 DEF ReadsPage, RoomsTypes
      <4> QED
        BY <1>1, <1>2, <3>1, <4>1, <4>2 DEF SentIsDone
    <3> QED
      BY <2>2, <3>2, <3>3 DEF SentIsDone
  <2>6. ReadersKeepUp'
    <3> SUFFICES ASSUME NEW d \in Histories
                 PROVE  LET w == written[Room(d)]
                        IN  /\ chat'[d] = "next" =>
                                 /\ page'[d] > 0
                                 /\ \A m \in owed'[d] : \E i \in 1..Len(w) : w[i] = m
                                 /\ \A i \in 1..Len(w) :
                                      w[i] \in Due(d)' /\ i + Covered(page'[d]) > Len(w) => Serialize(w[i]) \in seen'[d]
                            /\ chat'[d] = "done" => \A m \in Due(d)' : Serialize(m) \in seen'[d]
                            /\ chat'[d] = "idle" => owed'[d] = {} /\ page'[d] = 0
      BY <2>2 DEF ReadersKeepUp, Covered
    <3>1. CASE d = c
      BY <1>1, <2>1, <3>1, ReaderStep DEF A
    <3>2. CASE d # c
      BY <1>1, <2>2, <3>2 DEF ReadersKeepUp, Histories
    <3> QED
      BY <3>1, <3>2
  <2> QED
    BY <2>4, <2>5, <2>6 DEF RoomsInv
<1> QED
  BY <1>3, <1>4

(* Every step of the rooms keeps the invariant.                             *)
LEMMA RoomsStep == RoomsInv /\ [RoomsNext]_roomVars => RoomsInv'
<1> SUFFICES ASSUME RoomsInv, [RoomsNext]_roomVars PROVE RoomsInv'
  OBVIOUS
<1>1. CASE UNCHANGED roomVars
  <2>1. UNCHANGED <<mirrored, written, copied, chat, page, seen, owed, lacked>>
    BY <1>1 DEF roomVars, logRows, reading
  <2>2. RoomsTypes'
    BY <2>1 DEF RoomsInv, RoomsTypes
  <2> QED
    BY <2>1, <2>2, ReadersFrame DEF RoomsInv
<1>2. CASE RoomsNext
  <2>1. \A ops : Posed(ops) \subseteq ChatCalls /\ (\A c \in Posed(ops) : ChatCall[c].op \in ops)
    BY DEF Posed
  <2>2. Posed({"history"}) \subseteq Histories
    BY DEF Posed, Histories, Chats
  <2> QED
    BY <1>2, <2>1, <2>2, QuietStep, RowStep, HistoryStep DEF RoomsNext
<1> QED
  BY <1>1, <1>2

(* Nothing is sent and nothing is read at the start.                        *)
LEMMA RoomsInitially == RoomsInit => RoomsInv
<1> SUFFICES ASSUME RoomsInit PROVE RoomsInv
  OBVIOUS
<1>1. RoomsTypes
  BY DEF RoomsInit, RoomsTypes
<1>2. SentIsDone /\ ReadersKeepUp
  <2>1. \A r \in ChatRooms : 1..Len(written[r]) = {}
    BY DEF RoomsInit
  <2> QED
    BY <2>1 DEF RoomsInit, SentIsDone, ReadersKeepUp, Histories
<1> QED
  BY <1>1, <1>2 DEF RoomsInv

(* A reader that is done has seen what was due.                             *)
LEMMA RoomsSuffice == RoomsInv => PagesAreComplete
BY DEF RoomsInv, ReadersKeepUp, PagesAreComplete, Histories, Due

-----------------------------------------------------------------------------
(* Conversations                                                            *)

(* Which component is followed does not change, and the others are at rest.*)
LEMMA PartSteps ==
  ASSUME [ConversationsNext]_conversationVars
  PROVE  [HubNext]_hubVars /\ [RoomsNext]_roomVars /\ [Next]_vars
BY DEF ConversationsNext, HubPart, RoomsPart, TasksPart, conversationVars

(* An open connection, of any number of them and of any users, is in the   *)
(* list of its user until Stop, or the end of its own reading, closes it:  *)
(* Run takes out the one connection whose handler has returned.            *)
THEOREM OpenIsRegisteredAlways == ConversationsSpec => []OpenIsRegistered
<1>1. ConversationsInit => HubInv
  BY HubInitially DEF ConversationsInit
<1>2. HubInv /\ [ConversationsNext]_conversationVars => HubInv'
  BY HubStep, PartSteps
<1>3. HubInv => OpenIsRegistered
  BY DEF HubInv
<1> QED
  BY <1>1, <1>2, <1>3, PTL DEF ConversationsSpec

(* What a connection is sent by a bridge comes in the order in which the   *)
(* bridge took it, and once, however many connections come and go while it *)
(* delivers.                                                               *)
THEOREM InOrderAlways == ConversationsSpec => []InOrder
<1>1. ConversationsInit => HubInv
  BY HubInitially DEF ConversationsInit
<1>2. HubInv /\ [ConversationsNext]_conversationVars => HubInv'
  BY HubStep, PartSteps
<1>3. HubInv => InOrder
  BY DEF HubInv
<1> QED
  BY <1>1, <1>2, <1>3, PTL DEF ConversationsSpec

(* A client that follows the cursors of GetRoomHistory to the end has seen *)
(* all that was in the room when it began, for any size of a page and      *)
(* whatever is sent meanwhile: the offset counts from the newest, and what *)
(* comes meanwhile shifts it to rows already shown.  With the mirror it    *)
(* holds but for what the mirror's page did not have of the newest rows,   *)
(* and of all rows if that page was short (Lacks).                         *)
THEOREM PagesAreCompleteAlways == ConversationsSpec => []PagesAreComplete
<1>1. ConversationsInit => RoomsInv
  BY RoomsInitially DEF ConversationsInit
<1>2. RoomsInv /\ [ConversationsNext]_conversationVars => RoomsInv'
  BY RoomsStep, PartSteps
<1> QED
  BY <1>1, <1>2, RoomsSuffice, PTL DEF ConversationsSpec

-----------------------------------------------------------------------------
(* MessageMirror                                                           *)

(* At the start there are no rows and no requests.                         *)
LEMMA MirrorStarts == Init => IInv
BY MirrorAssumption
   DEF MirrorAssumption, Init, PoolInit, InitMirror, IInv, TypeOK, NothingAhead, OneEvent,
       PublishedAtTheEnd, AllStopped, Fates, Written, HasRow

(* A message that has a row keeps one: there is no DELETE.                 *)
LEMMA RowsStay ==
  ASSUME TypeOK, [Next]_vars, NEW m \in Messages, text[m] # None
  PROVE  text'[m] # None
<1> USE MirrorAssumption DEF MirrorAssumption
<1>1. ASSUME NEW c \in Tasks, WriteRow(c)
      PROVE  text'[m] # None
  BY <1>1 DEF WriteRow, Insert, Update, HasRow, Delete, TypeOK
<1>2. CASE UNCHANGED text
  BY <1>2
<1> QED
  BY <1>1, <1>2
     DEF Next, TaskStep, Commit, NotAuthor, Fail, Submit, Start, Mirror, MirrorFails, Publish,
         Shutdown, Idle, vars, primary

(* Every step keeps the types.                                             *)
LEMMA TypeStep ==
  ASSUME IInv, [Next]_vars
  PROVE  TypeOK'
<1> USE MirrorAssumption DEF MirrorAssumption
<1>1. TypeOK
  BY DEF IInv
<1>2. ASSUME NEW c \in Tasks, WriteRow(c)
      PROVE  /\ text' \in [Messages -> Tasks \cup {None}] /\ deleted' \subseteq Messages
             /\ order' \in Seq(Messages)
  <2>1. c \in Tasks /\ MessageOf[c] \in Messages
    OBVIOUS
  <2>2. CASE Insert(c)
    BY <1>1, <2>1, <2>2, AppendProperties DEF Insert, TypeOK
  <2>3. CASE Update(c)
    BY <1>1, <2>1, <2>3 DEF Update, TypeOK
  <2>4. CASE Delete(c)
    BY <1>1, <2>1, <2>4 DEF Delete, TypeOK
  <2> QED
    BY <1>2, <2>2, <2>3, <2>4 DEF WriteRow
<1>3. ASSUME NEW c \in Tasks, Commit(c) \/ NotAuthor(c) \/ Fail(c)
      PROVE  TypeOK'
  <2>1. /\ pc' \in [Tasks -> {"new", "submit", "failed", "unmirrored", "mirror", "publish", "end"}]
        /\ UNCHANGED <<mirror, bus, poolVars>> /\ (WriteRow(c) \/ UNCHANGED primary)
    BY <1>1, <1>3 DEF Commit, NotAuthor, Fail, Goto, TypeOK
  <2> QED
    BY <1>1, <1>2, <2>1 DEF TypeOK, mirror, poolVars, primary
<1>4. ASSUME NEW c \in Tasks, Submit(c) \/ Start(c)
      PROVE  TypeOK'
  <2>1. UNCHANGED <<primary, mirror, bus, pools>>
    BY <1>4 DEF Submit, Accept, Refuse, Start, Begin
  <2>2. fate' \in [Tasks -> {"none", "waiting", "refused", "running", "done"}]
    BY <1>1, <1>4 DEF TypeOK, Submit, Accept, Refuse, Start, Begin, Becomes
  <2>3. pc' \in [Tasks -> {"new", "submit", "failed", "unmirrored", "mirror", "publish", "end"}]
    BY <1>1, <1>4 DEF TypeOK, Submit, Start, Goto
  <2> QED
    BY <1>1, <2>1, <2>2, <2>3 DEF TypeOK, mirror, primary
<1>5. ASSUME NEW c \in Tasks, Mirror(c)
      PROVE  TypeOK'
  <2>1. /\ byRoom' \in [Messages -> Tasks \cup {None}]
        /\ byId' \in [Messages -> Tasks \cup {None, Blank}]
        /\ pc' \in [Tasks -> {"new", "submit", "failed", "unmirrored", "mirror", "publish", "end"}]
        /\ UNCHANGED <<primary, bus, poolVars>>
    BY <1>1, <1>5 DEF TypeOK, Mirror, MirrorSend, MirrorEdit, Goto
  <2>2. byTime' = byTime \/ byTime' = Append(byTime, MessageOf[c])
    BY <1>5 DEF Mirror, MirrorSend, MirrorEdit
  <2>3. byTime' \in Seq(Messages)
    <3>1. byTime \in Seq(Messages) /\ MessageOf[c] \in Messages
      BY <1>1 DEF TypeOK
    <3>2. Append(byTime, MessageOf[c]) \in Seq(Messages)
      BY <3>1, AppendProperties
    <3> QED
      BY <2>2, <3>1, <3>2
  <2> QED
    BY <1>1, <2>1, <2>3 DEF TypeOK, primary, poolVars
<1>6. ASSUME NEW c \in Tasks, MirrorFails(c) \/ Publish(c)
      PROVE  TypeOK'
  <2>1. bus' = bus \/ bus' = Append(bus, c)
    BY <1>6 DEF MirrorFails, Publish
  <2>2. bus' \in Seq(Tasks)
    <3>1. bus \in Seq(Tasks)
      BY <1>1 DEF TypeOK
    <3>2. Append(bus, c) \in Seq(Tasks)
      BY <3>1, AppendProperties
    <3> QED
      BY <2>1, <3>1, <3>2
  <2>3. pc' \in [Tasks -> {"new", "submit", "failed", "unmirrored", "mirror", "publish", "end"}]
    BY <1>1, <1>6 DEF TypeOK, MirrorFails, Publish, Goto
  <2>4. fate' \in [Tasks -> {"none", "waiting", "refused", "running", "done"}]
    BY <1>1, <1>6 DEF TypeOK, MirrorFails, Publish, End, Becomes, poolVars
  <2>5. UNCHANGED <<primary, mirror, pools>>
    BY <1>6 DEF MirrorFails, Publish, End, poolVars
  <2> QED
    BY <1>1, <2>2, <2>3, <2>4, <2>5 DEF TypeOK, primary, mirror
<1>7. CASE Shutdown \/ Idle \/ UNCHANGED vars
  BY <1>1, <1>7 DEF TypeOK, Shutdown, Close, Closed, Idle, vars, primary, mirror, poolVars
<1> QED
  BY <1>3, <1>4, <1>5, <1>6, <1>7 DEF Next, TaskStep

(* A call and its task go forward together, and one that is no deletion    *)
(* past "new" only with the author's row there.                            *)
LEMMA StageStep ==
  ASSUME IInv, [Next]_vars, NEW d \in Tasks
  PROVE  Fates(d)' /\ Written(d)'
<1> USE MirrorAssumption DEF MirrorAssumption
<1>1. TypeOK /\ Fates(d) /\ Written(d) /\ MessageOf[d] \in Messages
  BY DEF IInv
<1>2. HasRow(d) => HasRow(d)'
  BY <1>1, RowsStay DEF HasRow
<1>3. CASE pc'[d] = pc[d] /\ fate'[d] = fate[d]
  BY <1>1, <1>2, <1>3 DEF Fates, Written
<1>4. CASE Commit(d)
  <2>1. Kind[d] # "delete" => HasRow(d)'
    <3>1. CASE Insert(d)
      BY <1>1, <3>1 DEF Insert, HasRow, TypeOK
    <3>2. CASE Update(d)
      BY <1>1, <3>2 DEF Update, HasRow, TypeOK
    <3> QED
      BY <1>4, <3>1, <3>2 DEF Commit, WriteRow, Delete
  <2>2. pc[d] = "new" /\ pc'[d] = "submit" /\ fate'[d] = fate[d]
    BY <1>1, <1>4 DEF Commit, Goto, TypeOK, poolVars
  <2> QED
    BY <1>1, <2>1, <2>2 DEF Fates, Written
<1>5. CASE NotAuthor(d) \/ Fail(d)
  <2>1. pc[d] = "new" /\ pc'[d] = "failed" /\ fate'[d] = fate[d]
    BY <1>1, <1>5 DEF NotAuthor, Fail, Goto, TypeOK, poolVars
  <2> QED
    BY <1>1, <2>1 DEF Fates, Written
<1>6. CASE Submit(d)
  <2>1. /\ pc[d] = "submit"
        /\ \/ pc'[d] = "mirror" /\ fate'[d] = "waiting"
           \/ pc'[d] = "unmirrored" /\ fate'[d] = "refused"
    BY <1>1, <1>6 DEF Submit, Accept, Refuse, Becomes, Goto, TypeOK
  <2> QED
    BY <1>1, <1>2, <2>1 DEF Fates, Written
<1>7. CASE Start(d)
  <2>1. fate[d] = "waiting" /\ fate'[d] = "running" /\ pc'[d] = pc[d]
    BY <1>1, <1>7 DEF Start, Begin, Becomes, TypeOK
  <2>2. pc[d] = "mirror"
    BY <1>1, <2>1 DEF Fates, TypeOK
  <2> QED
    BY <1>1, <1>2, <2>1, <2>2 DEF Fates, Written
<1>8. CASE Mirror(d) \/ MirrorFails(d)
  <2>1. /\ pc[d] = "mirror" /\ pc'[d] = "publish"
        /\ fate[d] = "running" /\ fate'[d] = fate[d]
    BY <1>1, <1>8 DEF Mirror, MirrorFails, Running, Goto, TypeOK, poolVars
  <2> QED
    BY <1>1, <1>2, <2>1 DEF Fates, Written
<1>9. CASE Publish(d)
  <2>1. pc[d] = "publish" /\ pc'[d] = "end" /\ fate'[d] = "done"
    BY <1>1, <1>9 DEF Publish, End, Becomes, Goto, TypeOK
  <2> QED
    BY <1>1, <1>2, <2>1 DEF Fates, Written
<1>10. ASSUME NEW c \in Tasks, c # d,
              Commit(c) \/ NotAuthor(c) \/ Fail(c) \/ Submit(c) \/ TaskStep(c)
       PROVE  pc'[d] = pc[d] /\ fate'[d] = fate[d]
  BY <1>1, <1>10
     DEF TypeOK, Commit, NotAuthor, Fail, Submit, Accept, Refuse, TaskStep, Start, Begin, Mirror,
         MirrorFails, Publish, End, Becomes, Goto, poolVars
<1>11. CASE Shutdown \/ Idle \/ UNCHANGED vars
  BY <1>3, <1>11 DEF Shutdown, Close, Closed, Idle, vars, poolVars
<1> QED
  BY <1>3, <1>4, <1>5, <1>6, <1>7, <1>8, <1>9, <1>10, <1>11 DEF Next, TaskStep

(* A text is mirrored by a task whose row is there.                        *)
LEMMA AheadStep ==
  ASSUME IInv, [Next]_vars
  PROVE  NothingAhead'
<1> USE MirrorAssumption DEF MirrorAssumption
<1>1. TypeOK /\ NothingAhead /\ \A c \in Tasks : Fates(c) /\ Written(c)
  BY DEF IInv
<1>2. TypeOK'
  BY TypeStep
<1>3. \A m \in Messages : text[m] # None => text'[m] # None
  BY <1>1, RowsStay
<1>4. ASSUME NEW m \in Messages
      PROVE  /\ byRoom'[m] # None => text'[m] # None
             /\ byId'[m] \notin {None, Blank} => text'[m] # None /\ byId'[m] \in Own
  <2>1. CASE UNCHANGED mirror
    BY <1>1, <1>3, <1>4, <2>1 DEF NothingAhead, mirror
  <2>2. ASSUME NEW c \in Tasks, Mirror(c)
        PROVE  /\ byRoom'[m] # None => text'[m] # None
               /\ byId'[m] \notin {None, Blank} => text'[m] # None /\ byId'[m] \in Own
    <3>1. CASE m = MessageOf[c]
      <4>1. Kind[c] # "delete" => text'[m] # None /\ c \in Own
        BY <1>1, <1>3, <2>2, <3>1 DEF Mirror, Written, HasRow
      <4>2. CASE Kind[c] # "delete"
        <5>1. byId'[m] = c
          BY <1>1, <2>2, <3>1, <4>2 DEF Mirror, MirrorSend, MirrorEdit, TypeOK
        <5> QED
          BY <4>1, <4>2, <5>1
      <4>3. CASE Kind[c] = "delete"
        <5>1. byId'[m] = Blank /\ byRoom' = byRoom
          BY <1>1, <2>2, <3>1, <4>3 DEF Mirror, MirrorEdit, TypeOK
        <5> QED
          BY <1>1, <1>3, <5>1 DEF NothingAhead
      <4> QED
        BY <4>2, <4>3
    <3>2. CASE m # MessageOf[c]
      <4>1. byRoom'[m] = byRoom[m] /\ byId'[m] = byId[m]
        BY <1>1, <2>2, <3>2 DEF Mirror, MirrorSend, MirrorEdit, TypeOK
      <4> QED
        BY <1>1, <1>3, <1>4, <4>1 DEF NothingAhead
    <3> QED
      BY <3>1, <3>2
  <2> QED
    BY <2>1, <2>2
       DEF Next, TaskStep, Commit, NotAuthor, Fail, Submit, Start, MirrorFails, Publish,
           Shutdown, Idle, vars
<1>5. ASSUME NEW i \in 1..Len(bus')
      PROVE  Kind[bus'[i]] # "delete" => text'[MessageOf[bus'[i]]] # None /\ bus'[i] \in Own
  <2>1. CASE UNCHANGED bus
    BY <1>1, <1>3, <1>5, <2>1 DEF NothingAhead, TypeOK
  <2>2. ASSUME NEW c \in Tasks, Publish(c)
        PROVE  Kind[bus'[i]] # "delete" => text'[MessageOf[bus'[i]]] # None /\ bus'[i] \in Own
    <3>1. (i \in 1..Len(bus) /\ bus'[i] = bus[i]) \/ bus'[i] = c
      BY <1>1, <1>5, <2>2 DEF Publish, TypeOK
    <3>2. Kind[c] # "delete" => text[MessageOf[c]] # None /\ c \in Own
      BY <1>1, <2>2 DEF Publish, Written, HasRow
    <3>3. \A j \in 1..Len(bus) : bus[j] \in Tasks
      BY <1>1 DEF TypeOK
    <3> QED
      BY <1>1, <1>3, <3>1, <3>2, <3>3 DEF NothingAhead
  <2> QED
    BY <2>1, <2>2
       DEF Next, TaskStep, Commit, NotAuthor, Fail, Submit, Start, Mirror, MirrorFails,
           Shutdown, Idle, vars
<1> QED
  BY <1>4, <1>5 DEF NothingAhead

(* An event ends its call, and a call that has ended stays so.             *)
LEMMA BusStep ==
  ASSUME IInv, [Next]_vars
  PROVE  OneEvent' /\ PublishedAtTheEnd'
<1>1. TypeOK /\ OneEvent /\ PublishedAtTheEnd
  BY DEF IInv
<1>2. \A c \in Tasks : pc[c] = "end" => pc'[c] = "end"
  BY <1>1
     DEF TypeOK, Next, TaskStep, Commit, NotAuthor, Fail, Submit, Start, Mirror, MirrorFails,
         Publish, Shutdown, Idle, Goto, vars
<1>3. \A i \in 1..Len(bus) : bus[i] \in Tasks
  BY <1>1 DEF TypeOK
<1>4. CASE UNCHANGED bus
  BY <1>1, <1>2, <1>3, <1>4 DEF OneEvent, PublishedAtTheEnd
<1>5. ASSUME NEW c \in Tasks, Publish(c)
      PROVE  OneEvent' /\ PublishedAtTheEnd'
  <2>1. pc[c] = "publish" /\ pc'[c] = "end" /\ bus' = Append(bus, c)
    BY <1>1, <1>5 DEF Publish, Goto, TypeOK
  <2>2. /\ Len(bus) \in Nat /\ Len(bus') = Len(bus) + 1 /\ bus'[Len(bus) + 1] = c
        /\ \A i \in 1..Len(bus) : bus'[i] = bus[i] /\ bus[i] # c
    <3>1. bus \in Seq(Tasks) /\ c \in Tasks
      BY <1>1, <1>5 DEF TypeOK
    <3>2. \A i \in 1..Len(bus) : bus[i] # c
      BY <1>1, <1>3, <2>1 DEF PublishedAtTheEnd
    <3> QED
      BY <2>1, <3>1, <3>2, AppendProperties
  <2>3. \A i \in 1..Len(bus') : i \in 1..Len(bus) \/ i = Len(bus) + 1
    BY <2>2
  <2>4. OneEvent'
    BY <1>1, <2>2, <2>3 DEF OneEvent
  <2>5. PublishedAtTheEnd'
    BY <1>1, <1>2, <1>3, <2>1, <2>2, <2>3 DEF PublishedAtTheEnd
  <2> QED
    BY <2>4, <2>5
<1> QED
  BY <1>4, <1>5
     DEF Next, TaskStep, Commit, NotAuthor, Fail, Submit, Start, Mirror, MirrorFails,
         Shutdown, Idle, vars

(* Stop waits for the running tasks and none begins afterwards.            *)
LEMMA StopStep ==
  ASSUME IInv, [Next]_vars
  PROVE  AllStopped'
<1>1. TypeOK /\ AllStopped
  BY DEF IInv
<1>2. CASE UNCHANGED <<fate, pools>>
  BY <1>1, <1>2 DEF AllStopped
<1>3. ASSUME NEW c \in Tasks, Submit(c) \/ Publish(c) \/ Start(c)
      PROVE  AllStopped'
  BY <1>1, <1>3
     DEF AllStopped, Submit, Accept, Refuse, Publish, End, Start, Begin, Becomes, TypeOK
<1>4. CASE Shutdown
  BY <1>1, <1>4 DEF AllStopped, Shutdown, Close, Closed
<1> QED
  BY <1>2, <1>3, <1>4
     DEF Next, TaskStep, Commit, NotAuthor, Fail, Mirror, MirrorFails, Idle, vars, poolVars

(* The invariant holds in every behaviour.                                 *)
LEMMA MirrorSteps == ConversationsSpec => []IInv
<1>1. ConversationsInit => IInv
  BY MirrorStarts DEF ConversationsInit
<1>2. IInv /\ [ConversationsNext]_conversationVars => IInv'
  BY PartSteps, TypeStep, StageStep, AheadStep, BusStep, StopStep DEF IInv
<1> QED
  BY <1>1, <1>2, PTL DEF ConversationsSpec

(* No text is mirrored or announced ahead of PostgreSQL.  Of deletions it  *)
(* says nothing: they are mirrored and announced unasked.                  *)
THEOREM PrimaryComesFirst == ConversationsSpec => []NothingAhead
<1>1. IInv => NothingAhead
  BY DEF IInv
<1> QED
  BY <1>1, MirrorSteps, PTL

(* No call has two events.                                                 *)
THEOREM EventsAreSingle == ConversationsSpec => []OneEvent
<1>1. IInv => OneEvent
  BY DEF IInv
<1> QED
  BY <1>1, MirrorSteps, PTL

(* After Stop neither ScyllaDB nor the bus is written, so their clients    *)
(* can be closed.                                                          *)
THEOREM ClientsCanBeClosed == ConversationsSpec => SilentOnceClosed
<1>1. IInv /\ [Next]_vars => [pools = "closed" => UNCHANGED <<mirror, bus>>]_vars
  <2> SUFFICES ASSUME IInv, [Next]_vars, pools = "closed"
               PROVE  UNCHANGED <<mirror, bus>>
    OBVIOUS
  <2>1. \A c \in Tasks : fate[c] # "running"
    BY DEF IInv, AllStopped
  <2>2. \A c \in Tasks : ~Mirror(c) /\ ~Publish(c)
    BY <2>1 DEF Mirror, Running, Publish, End
  <2> QED
    BY <2>2
       DEF Next, TaskStep, Commit, NotAuthor, Fail, Submit, Start, MirrorFails, Shutdown, Idle,
           vars, mirror
<1>2. [ConversationsNext]_conversationVars => [Next]_vars
  BY PartSteps
<1> QED
  BY <1>1, <1>2, MirrorSteps, PTL DEF ConversationsSpec, SilentOnceClosed
=============================================================================
