------------------------- MODULE GamepadLinkProofs -------------------------
(***************************************************************************)
(* Theorems about GamepadLink, for any finite set of gamepads, any number  *)
(* of slots and ids, any buttons and any bounds: the Gateway ends up with  *)
(* the controllers the TV has announced, and the TV shows their mouse mode.*)
(*                                                                         *)
(* The invariant speaks of the messages under way.  After(C, q, k) are the *)
(* controllers the Gateway will have when it has read k messages of the    *)
(* control channel q: there are never more of them than slots, so no       *)
(* connection is refused, and after all of q they are the announced ones.  *)
(* What a message is about is gone from the manager, or was new to it, so  *)
(* messages about one controller are at most a connection and then a       *)
(* disconnection.                                                          *)
(***************************************************************************)
EXTENDS GamepadLink, InputBridgeProofs, FiniteSetTheorems

\* The control channel is open: both sides have been following it.
Live == stream \in {"starting", "on"}

\* The two messages of the control channel.
Connection(c) == [type |-> "gamepad-connected", id |-> c]
Disconnection(c) == [type |-> "gamepad-disconnected", id |-> c]

\* m is among the first k messages of q.
Among(m, q, k) == \E i \in 1..k : q[i] = m

\* The controllers connected once the Gateway, which has those of C, has read k of q.
After(C, q, k) == {c \in Ids : /\ c \in C \/ Among(Connection(c), q, k)
                               /\ ~Among(Disconnection(c), q, k)}

\* No message names c yet.
New(t, c) == c >= t.next \/ \E p \in Pads : t.records[p].id = c /\ ~t.records[p].announced

\* The values the parts of the state range over.
Record == [id : 0..MaxId, announced : BOOLEAN, hasSent : BOOLEAN,
           lastSent : SUBSET Buttons, mouseMode : BOOLEAN]

Manager == [records : [Pads -> Record], next : 1..MaxId + 1,
            hidden : BOOLEAN, menu : BOOLEAN, polling : BOOLEAN]

Device == [plugged : SUBSET Pads, event : SUBSET Pads, held : [Pads -> SUBSET Buttons]]

Sent == [id : Ids, pressed : SUBSET Buttons, stale : BOOLEAN]

Message == [type : {"gamepad-connected", "gamepad-disconnected"}, id : Ids]

\* The Gateway has the controllers of C, q is under way, and t is the TV's manager: no
\* message is there twice, a controller's connection is before its disconnection and not
\* repeated to a Gateway that has it, the Gateway will have the announced controllers, and
\* never more than there are slots on the way; what is new to t is nowhere.
ChannelOK(C, q, t) ==
    /\ \A i, j \in 1..Len(q) : q[i] = q[j] => i = j
    /\ \A i, j \in 1..Len(q), c \in Ids : q[i] = Disconnection(c) /\ q[j] = Connection(c) => j < i
    /\ \A c \in C : ~Among(Connection(c), q, Len(q))
    /\ After(C, q, Len(q)) = TV!AnnouncedIds(t)
    /\ \A k \in 0..Len(q) : Cardinality(After(C, q, k)) <= SlotCount
    /\ \A c \in Ids : New(t, c) => /\ c \notin C
                                   /\ ~Among(Connection(c), q, Len(q))
                                   /\ ~Among(Disconnection(c), q, Len(q))

\* Ids are given once, and no more gamepads are known than there are slots.
RecordsOK(t) ==
    /\ \A p \in Pads : t.records[p].id < t.next
    /\ \A p \in Pads : t.records[p].announced => t.records[p].id # 0
    /\ \A p, q \in TV!Known(t) : t.records[p].id = t.records[q].id => p = q
    /\ Cardinality(TV!Known(t)) <= SlotCount

\* The model's ids suffice for every gamepad that is plugged in (the code's count on).
IdsLeft(t, plugged) == t.next + Cardinality(plugged \ TV!Known(t)) <= MaxId + 1

\* The TV shows the mode it will hear last, or, with nothing under way, the Gateway's; of a
\* controller no message names yet it hears nothing.
MouseModesOK(b, t) ==
    /\ \A c \in Ids : c >= t.next => b.outbox[c] = <<>>
    /\ \A p \in TV!Known(t) :
         LET c    == t.records[p].id
             mode == b.controllers[c].mouseMode
         IN  /\ b.controllers[c].slot = NoSlot => b.outbox[c] = <<>>
             /\ b.outbox[c] = <<>> => t.records[p].mouseMode = mode
             /\ b.outbox[c] # <<>> => b.outbox[c][Len(b.outbox[c])] = mode

\* What holds at all times of the TV and of what it has sent.
TvInv == /\ device \in Device /\ tv \in Manager /\ RecordsOK(tv) /\ IdsLeft(tv, device.plugged)
         /\ control \in Seq(Message) /\ states \in Seq(Sent)

\* What holds while the channel is open, of the TV and the Gateway together.
LinkOK == /\ ~bridge.shutdown
          /\ ChannelOK(Connected, control, tv)
          /\ MouseModesOK(bridge, tv)

\* The inductive invariant; BridgeInv is that of the bridge by itself.
LinkInv == /\ BridgeInv /\ TvInv /\ stream \in {"starting", "on", "over", "closed"}
           /\ Live => LinkOK
-----------------------------------------------------------------------------
\* Operators reached through TV are symbols of their own; these are the same.
LEMMA CardinalityTV == \A S : TV!Cardinality(S) = Cardinality(S)
BY DEF TV!Cardinality, Cardinality

\* A set's messages are sent in some order, each once.
LEMMA SetToSeqTV ==
    ASSUME NEW S, IsFiniteSet(S)
    PROVE  LET s == TV!SetToSeq(S) IN
           /\ s \in Seq(S)
           /\ \A i, j \in 1..Len(s) : s[i] = s[j] => i = j
           /\ \A x \in S : \E i \in 1..Len(s) : s[i] = x
<1> DEFINE s == TV!SetToSeq(S)
           n == Cardinality(S)
<1>1. n \in Nat /\ ExistsBijection(1..n, S)
  BY FS_CardinalityType
<1>2. PICK f : f \in Bijection(1..n, S)
  BY <1>1 DEF ExistsBijection
<1>3. f \in [1..n -> S] /\ TV!IsInjective(f)
  BY <1>2 DEF Bijection, Injection, IsInjective, TV!IsInjective
<1>4. s \in [1..n -> S] /\ TV!IsInjective(s)
  BY <1>3, CardinalityTV DEF TV!SetToSeq
<1>5. s \in Injection(1..n, S)
  BY <1>4 DEF Injection, IsInjective, TV!IsInjective
<1>6. IsFiniteSet(1..n) /\ Cardinality(1..n) = n
  BY <1>1, FS_Interval
<1>7. s \in Surjection(1..n, S)
  BY <1>5, <1>6, FS_Injection
<1>8. s \in Seq(S) /\ Len(s) = n
  BY <1>1, <1>4
<1>9. QED
  BY <1>4, <1>7, <1>8 DEF Surjection, TV!IsInjective
-----------------------------------------------------------------------------
\* r is q with a connection appended for each of come, a disconnection for each of go.
Extended(q, r, come, go) ==
    /\ r \in Seq(Message) /\ Len(q) <= Len(r)
    /\ \A i \in 1..Len(q) : r[i] = q[i]
    /\ \A i \in Len(q) + 1..Len(r) : \/ \E c \in come : r[i] = Connection(c)
                                     \/ \E c \in go : r[i] = Disconnection(c)
    /\ \A c \in come : \E i \in Len(q) + 1..Len(r) : r[i] = Connection(c)
    /\ \A c \in go : \E i \in Len(q) + 1..Len(r) : r[i] = Disconnection(c)
    /\ \A i, j \in Len(q) + 1..Len(r) : r[i] = r[j] => i = j

\* Messages are told apart by type and id.
LEMMA Messages ==
    /\ \A c, d : Connection(c) # Disconnection(d)
    /\ \A c, d : Connection(c) = Connection(d) => c = d
    /\ \A c, d : Disconnection(c) = Disconnection(d) => c = d
    /\ \A c \in Ids : Connection(c) \in Message /\ Disconnection(c) \in Message
BY DEF Connection, Disconnection, Message

\* A finite set of controllers has finitely many messages.
LEMMA MessagesFinite ==
    ASSUME NEW S, IsFiniteSet(S)
    PROVE  IsFiniteSet({Connection(c) : c \in S}) /\ IsFiniteSet({Disconnection(c) : c \in S})
<1> DEFINE f == [c \in S |-> Connection(c)]
           g == [c \in S |-> Disconnection(c)]
<1>1. f \in Surjection(S, {Connection(c) : c \in S})
  BY DEF Surjection
<1>2. g \in Surjection(S, {Disconnection(c) : c \in S})
  BY DEF Surjection
<1>3. QED
  BY <1>1, <1>2, FS_Surjection

\* Sending connections, then disconnections, extends the channel by them.
LEMMA AppendingExtends ==
    ASSUME NEW q \in Seq(Message), NEW come \in SUBSET Ids, NEW go \in SUBSET Ids,
           NEW x, NEW y,
           x = TV!SetToSeq({Connection(c) : c \in come}),
           y = TV!SetToSeq({Disconnection(c) : c \in go})
    PROVE  Extended(q, q \o x \o y, come, go)
<1> DEFINE X == {Connection(c) : c \in come}
           Y == {Disconnection(c) : c \in go}
           r == q \o x \o y
<1>1. IsFiniteSet(come) /\ IsFiniteSet(go)
  <2>1. IsFiniteSet(1..MaxId) /\ Ids = 1..MaxId
    BY LinkAssumption, FS_Interval
  <2>2. QED
    BY <2>1, FS_Subset
<1>2. /\ x \in Seq(X)
      /\ \A i, j \in 1..Len(x) : x[i] = x[j] => i = j
      /\ \A m \in X : \E i \in 1..Len(x) : x[i] = m
  BY <1>1, MessagesFinite, SetToSeqTV
<1>3. /\ y \in Seq(Y)
      /\ \A i, j \in 1..Len(y) : y[i] = y[j] => i = j
      /\ \A m \in Y : \E i \in 1..Len(y) : y[i] = m
  BY <1>1, MessagesFinite, SetToSeqTV
<1>ends. /\ \A i \in 1..Len(x) : x[i] \in X
         /\ \A i \in 1..Len(y) : y[i] \in Y
  <2> HIDE DEF X, Y
  <2>1. QED
    BY <1>2, <1>3, ElementOfSeq
<1>4. X \subseteq Message /\ Y \subseteq Message
  BY Messages
<1>5. x \in Seq(Message) /\ y \in Seq(Message)
  BY <1>2, <1>3, <1>4
<1>6. r \in Seq(Message) /\ Len(r) = Len(q) + Len(x) + Len(y)
  BY <1>5
<1>7. /\ \A i \in 1..Len(q) : r[i] = q[i]
      /\ \A i \in 1..Len(x) : r[Len(q) + i] = x[i]
      /\ \A i \in 1..Len(y) : r[Len(q) + Len(x) + i] = y[i]
  BY <1>5
<1>8. \A i \in Len(q) + 1..Len(r) :
         \/ i - Len(q) \in 1..Len(x) /\ r[i] = x[i - Len(q)]
         \/ i - Len(q) - Len(x) \in 1..Len(y) /\ r[i] = y[i - Len(q) - Len(x)]
  <2> SUFFICES ASSUME NEW i \in Len(q) + 1..Len(r)
               PROVE  \/ i - Len(q) \in 1..Len(x) /\ r[i] = x[i - Len(q)]
                      \/ /\ i - Len(q) - Len(x) \in 1..Len(y)
                         /\ r[i] = y[i - Len(q) - Len(x)]
    OBVIOUS
  <2>1. Len(q) \in Nat /\ Len(x) \in Nat /\ Len(y) \in Nat /\ i \in Int
    BY <1>5, <1>6
  <2>2. CASE i - Len(q) \in 1..Len(x)
    <3>1. r[Len(q) + (i - Len(q))] = x[i - Len(q)]
      BY <1>7, <2>2
    <3>2. QED
      BY <2>1, <2>2, <3>1
  <2>3. CASE i - Len(q) \notin 1..Len(x)
    <3>1. i - Len(q) - Len(x) \in 1..Len(y)
      BY <1>6, <2>1, <2>3
    <3>2. r[Len(q) + Len(x) + (i - Len(q) - Len(x))] = y[i - Len(q) - Len(x)]
      BY <1>7, <3>1
    <3>3. QED
      BY <2>1, <3>1, <3>2
  <2>4. QED
    BY <2>2, <2>3
<1>9. \A c \in come : \E i \in Len(q) + 1..Len(r) : r[i] = Connection(c)
  <2> SUFFICES ASSUME NEW c \in come PROVE \E i \in Len(q) + 1..Len(r) : r[i] = Connection(c)
    OBVIOUS
  <2>1. PICK i \in 1..Len(x) : x[i] = Connection(c)
    BY <1>2
  <2>2. r[Len(q) + i] = Connection(c) /\ Len(q) + i \in Len(q) + 1..Len(r)
    BY <2>1, <1>5, <1>6, <1>7
  <2>3. QED
    BY <2>2
<1>10. \A c \in go : \E i \in Len(q) + 1..Len(r) : r[i] = Disconnection(c)
  <2> SUFFICES ASSUME NEW c \in go PROVE \E i \in Len(q) + 1..Len(r) : r[i] = Disconnection(c)
    OBVIOUS
  <2>1. PICK i \in 1..Len(y) : y[i] = Disconnection(c)
    BY <1>3
  <2>2. /\ r[Len(q) + Len(x) + i] = Disconnection(c)
        /\ Len(q) + Len(x) + i \in Len(q) + 1..Len(r)
    BY <2>1, <1>5, <1>6, <1>7
  <2>3. QED
    BY <2>2
<1>11. \A i \in Len(q) + 1..Len(r) : \/ \E c \in come : r[i] = Connection(c)
                                     \/ \E c \in go : r[i] = Disconnection(c)
  BY <1>8, <1>ends
<1>12. \A i, j \in Len(q) + 1..Len(r) : r[i] = r[j] => i = j
  <2> SUFFICES ASSUME NEW i \in Len(q) + 1..Len(r), NEW j \in Len(q) + 1..Len(r), r[i] = r[j]
               PROVE  i = j
    OBVIOUS
  <2>1. \A k \in 1..Len(x), l \in 1..Len(y) : x[k] # y[l]
    <3> SUFFICES ASSUME NEW k \in 1..Len(x), NEW l \in 1..Len(y) PROVE x[k] # y[l]
      OBVIOUS
    <3>1. PICK c \in come : x[k] = Connection(c)
      BY <1>ends
    <3>2. PICK d \in go : y[l] = Disconnection(d)
      BY <1>ends
    <3>3. QED
      BY <3>1, <3>2, Messages
  <2>2. i \in Nat /\ j \in Nat /\ Len(q) \in Nat /\ Len(x) \in Nat /\ Len(y) \in Nat
    BY <1>5, <1>6
  <2>3. \/ i - Len(q) \in 1..Len(x) /\ r[i] = x[i - Len(q)]
        \/ i - Len(q) - Len(x) \in 1..Len(y) /\ r[i] = y[i - Len(q) - Len(x)]
    BY <1>8
  <2>4. \/ j - Len(q) \in 1..Len(x) /\ r[j] = x[j - Len(q)]
        \/ j - Len(q) - Len(x) \in 1..Len(y) /\ r[j] = y[j - Len(q) - Len(x)]
    BY <1>8
  <2> HIDE DEF r, X, Y
  <2>5. CASE i - Len(q) \in 1..Len(x) /\ j - Len(q) \in 1..Len(x)
    <3>1. r[i] = x[i - Len(q)] /\ r[j] = x[j - Len(q)]
      BY <2>2, <2>3, <2>4, <2>5
    <3>2. x[i - Len(q)] = x[j - Len(q)]
      BY <3>1
    <3>3. i - Len(q) = j - Len(q)
      BY <1>2, <2>5, <3>2
    <3>4. QED
      BY <2>2, <3>3
  <2>6. CASE i - Len(q) \notin 1..Len(x) /\ j - Len(q) \notin 1..Len(x)
    <3>1. /\ r[i] = y[i - Len(q) - Len(x)] /\ r[j] = y[j - Len(q) - Len(x)]
          /\ i - Len(q) - Len(x) \in 1..Len(y) /\ j - Len(q) - Len(x) \in 1..Len(y)
      BY <2>3, <2>4, <2>6
    <3>2. y[i - Len(q) - Len(x)] = y[j - Len(q) - Len(x)]
      BY <3>1
    <3>3. i - Len(q) - Len(x) = j - Len(q) - Len(x)
      BY <1>3, <3>1, <3>2
    <3>4. QED
      BY <2>2, <3>3
  <2>7. ASSUME i - Len(q) \in 1..Len(x), j - Len(q) \notin 1..Len(x) PROVE FALSE
    <3>1. r[i] = x[i - Len(q)]
      BY <2>2, <2>3, <2>4, <2>7
    <3>2. r[j] = y[j - Len(q) - Len(x)] /\ j - Len(q) - Len(x) \in 1..Len(y)
      BY <2>3, <2>4, <2>7
    <3>3. x[i - Len(q)] # y[j - Len(q) - Len(x)]
      BY <2>1, <3>2, <2>7
    <3>4. QED
      BY <3>1, <3>2, <3>3
  <2>8. ASSUME j - Len(q) \in 1..Len(x), i - Len(q) \notin 1..Len(x) PROVE FALSE
    <3>1. r[j] = x[j - Len(q)]
      BY <2>2, <2>3, <2>4, <2>8
    <3>2. r[i] = y[i - Len(q) - Len(x)] /\ i - Len(q) - Len(x) \in 1..Len(y)
      BY <2>3, <2>4, <2>8
    <3>3. x[j - Len(q)] # y[i - Len(q) - Len(x)]
      BY <2>1, <3>2, <2>8
    <3>4. QED
      BY <3>1, <3>2, <3>3
  <2>9. QED
    BY <2>5, <2>6, <2>7, <2>8
<1>13. Len(q) <= Len(r)
  BY <1>5, <1>6
<1> HIDE DEF r, X, Y
<1>14. r \in Seq(Message) /\ \A i \in 1..Len(q) : r[i] = q[i]
  BY <1>6, <1>7
<1>15. Extended(q, r, come, go)
  BY <1>14, <1>13, <1>9, <1>10, <1>11, <1>12 DEF Extended
<1>16. QED
  BY <1>15 DEF r
-----------------------------------------------------------------------------
(***************************************************************************)
(* The channel, when the manager announces controllers and withdraws them. *)
(***************************************************************************)
\* From t to u a gamepad keeps its record, loses it, or gets one with a new id.
Evolves(t, u) ==
    /\ t.next <= u.next
    /\ \A p \in TV!Known(u) :
          \/ /\ p \in TV!Known(t) /\ u.records[p].id = t.records[p].id
             /\ t.records[p].announced => u.records[p].announced
             /\ u.records[p].mouseMode = t.records[p].mouseMode
          \/ t.next <= u.records[p].id /\ ~u.records[p].mouseMode

\* Ids are the numbers from 1; 0 is no id.
LEMMA IdsFacts == /\ Ids \subseteq Nat /\ 0 \notin Ids /\ IsFiniteSet(Ids)
                  /\ \A k : k \in 0..MaxId <=> k = 0 \/ k \in Ids
                  /\ MaxId \in Nat /\ SlotCount \in Nat
<1>1. MaxId \in Nat /\ Ids = 1..MaxId
  BY LinkAssumption
<1>2. IsFiniteSet(1..MaxId)
  BY <1>1, FS_Interval
<1>3. QED
  BY <1>1, <1>2, InputAssumption

\* What a record holds, a gamepad that has an id being known.
LEMMA RecordTypes ==
    ASSUME NEW t \in Manager
    PROVE  /\ t.next \in Nat
           /\ \A p \in Pads : /\ t.records[p] \in Record
                              /\ t.records[p].id = 0 \/ t.records[p].id \in Ids
                              /\ p \in TV!Known(t) <=> t.records[p].id \in Ids
                              /\ t.records[p].announced \in BOOLEAN
                              /\ t.records[p].mouseMode \in BOOLEAN
BY IdsFacts DEF Manager, Record, TV!Known

\* What no message names is not announced.
LEMMA NewNotAnnounced ==
    ASSUME NEW t \in Manager, RecordsOK(t), NEW c \in Ids, New(t, c)
    PROVE  c \notin TV!AnnouncedIds(t)
<1> SUFFICES ASSUME NEW p \in Pads, t.records[p].announced, t.records[p].id = c PROVE FALSE
  BY DEF TV!AnnouncedIds, TV!Announced
<1>1. t.records[p].id < t.next /\ p \in TV!Known(t) /\ t.next \in Nat /\ c \in Nat
  BY RecordTypes, IdsFacts DEF RecordsOK
<1>2. PICK q \in Pads : t.records[q].id = c /\ ~t.records[q].announced
  BY <1>1 DEF New
<1>3. q \in TV!Known(t)
  BY <1>2, RecordTypes
<1>4. QED
  BY <1>1, <1>2, <1>3 DEF RecordsOK

\* What is announced has an id.
LEMMA AnnouncedIsId ==
    ASSUME NEW t \in Manager, RecordsOK(t)
    PROVE  TV!AnnouncedIds(t) \subseteq Ids
BY RecordTypes DEF RecordsOK, TV!AnnouncedIds, TV!Announced

\* The manager does not make new again what messages have named.
LEMMA NewBefore ==
    ASSUME NEW t \in Manager, NEW u \in Manager, Evolves(t, u), NEW c \in Ids, New(u, c)
    PROVE  New(t, c)
<1>1. t.next <= u.next /\ t.next \in Nat /\ u.next \in Nat /\ c \in Nat
  BY RecordTypes, IdsFacts DEF Evolves
<1>2. CASE c >= u.next
  BY <1>1, <1>2 DEF New
<1>3. ASSUME NEW p \in Pads, u.records[p].id = c, ~u.records[p].announced PROVE New(t, c)
  BY <1>1, <1>3, RecordTypes DEF Evolves, New
<1>4. QED
  BY <1>2, <1>3 DEF New

\* A controller that comes to be announced was new.
LEMMA ComersAreNew ==
    ASSUME NEW t \in Manager, NEW u \in Manager, RecordsOK(u), Evolves(t, u),
           NEW c \in TV!AnnouncedIds(u) \ TV!AnnouncedIds(t)
    PROVE  New(t, c)
<1>1. PICK p \in Pads : u.records[p].announced /\ u.records[p].id = c
  BY DEF TV!AnnouncedIds, TV!Announced
<1>2. p \in TV!Known(u) /\ ~(t.records[p].id = c /\ t.records[p].announced)
  BY <1>1, RecordTypes DEF RecordsOK, TV!AnnouncedIds, TV!Announced
<1>3. t.next \in Nat /\ c \in Nat
  BY <1>1, <1>2, RecordTypes, IdsFacts
<1>4. QED
  BY <1>1, <1>2, <1>3 DEF Evolves, New

\* What is among the messages of an extended channel.
LEMMA AmongExtended ==
    ASSUME NEW q \in Seq(Message), NEW r, NEW come, NEW go, Extended(q, r, come, go)
    PROVE  /\ \A m, k : k \in 0..Len(q) => (Among(m, r, k) <=> Among(m, q, k))
           /\ \A c : Among(Connection(c), r, Len(r))
                        <=> Among(Connection(c), q, Len(q)) \/ c \in come
           /\ \A c : Among(Disconnection(c), r, Len(r))
                        <=> Among(Disconnection(c), q, Len(q)) \/ c \in go
           /\ \A k \in Len(q) + 1..Len(r) : \A c :
                 /\ Among(Connection(c), r, k) => Among(Connection(c), r, Len(r))
                 /\ Among(Disconnection(c), q, Len(q)) => Among(Disconnection(c), r, k)
<1> USE DEF Among
<1>0. /\ r \in Seq(Message) /\ Len(q) \in Nat /\ Len(r) \in Nat /\ Len(q) <= Len(r)
      /\ \A i \in 1..Len(q) : i \in 1..Len(r) /\ r[i] = q[i]
      /\ \A i \in 1..Len(r) : i \in 1..Len(q) \/ i \in Len(q) + 1..Len(r)
      /\ \A i \in Len(q) + 1..Len(r) : i \in 1..Len(r)
  BY DEF Extended
<1>1. ASSUME NEW m, NEW k \in 0..Len(q) PROVE Among(m, r, k) <=> Among(m, q, k)
  BY <1>0
<1>2. ASSUME NEW c
      PROVE  Among(Connection(c), r, Len(r)) <=> Among(Connection(c), q, Len(q)) \/ c \in come
  BY <1>0, Messages DEF Extended
<1>3. ASSUME NEW c
      PROVE  Among(Disconnection(c), r, Len(r)) <=> Among(Disconnection(c), q, Len(q)) \/ c \in go
  BY <1>0, Messages DEF Extended
<1>4. ASSUME NEW k \in Len(q) + 1..Len(r), NEW c
      PROVE  /\ Among(Connection(c), r, k) => Among(Connection(c), r, Len(r))
             /\ Among(Disconnection(c), q, Len(q)) => Among(Disconnection(c), r, k)
  <2>1. \A i \in 1..k : i \in 1..Len(r)
    BY <1>0
  <2>2. \A i \in 1..Len(q) : i \in 1..k /\ r[i] = q[i]
    BY <1>0
  <2>3. QED
    BY <2>1, <2>2
<1>5. QED
  BY <1>1, <1>2, <1>3, <1>4

\* When the manager becomes u and the messages of the difference are sent, the channel keeps
\* its invariant, if both together need no more slots than there are.
LEMMA SendingKeeps ==
    ASSUME NEW C \in SUBSET Ids, NEW q \in Seq(Message), NEW r,
           NEW t \in Manager, NEW u \in Manager, RecordsOK(t), RecordsOK(u),
           ChannelOK(C, q, t), Evolves(t, u),
           Cardinality(TV!AnnouncedIds(t) \cup TV!AnnouncedIds(u)) <= SlotCount,
           Extended(q, r, TV!AnnouncedIds(u) \ TV!AnnouncedIds(t),
                          TV!AnnouncedIds(t) \ TV!AnnouncedIds(u))
    PROVE  ChannelOK(C, r, u)
<1> DEFINE A    == TV!AnnouncedIds(t)
           B    == TV!AnnouncedIds(u)
           Old(m) == Among(m, q, Len(q))
           All(m) == Among(m, r, Len(r))
<1> HIDE DEF A, B, Old, All
<1>0. Extended(q, r, B \ A, A \ B)
  BY DEF A, B
<1>1. A \subseteq Ids /\ B \subseteq Ids
  BY AnnouncedIsId DEF A, B
<1>2. /\ \A c : All(Connection(c)) <=> Old(Connection(c)) \/ c \in B \ A
      /\ \A c : All(Disconnection(c)) <=> Old(Disconnection(c)) \/ c \in A \ B
  BY <1>0, AmongExtended DEF Old, All
<1>3. \A c \in Ids : New(t, c) => /\ c \notin C /\ c \notin A
                                  /\ ~Old(Connection(c)) /\ ~Old(Disconnection(c))
  BY NewNotAnnounced DEF ChannelOK, Old, A
<1>4. \A c \in Ids : c \in A <=> (c \in C \/ Old(Connection(c))) /\ ~Old(Disconnection(c))
  BY DEF ChannelOK, After, Old, A
<1>5. \A c \in B \ A : New(t, c)
  BY ComersAreNew DEF A, B
<1>6. /\ r \in Seq(Message) /\ Len(q) \in Nat /\ Len(r) \in Nat /\ Len(q) <= Len(r)
      /\ \A i \in 1..Len(q) : i \in 1..Len(r) /\ r[i] = q[i]
      /\ \A i \in 1..Len(r) : i \in 1..Len(q) \/ i \in Len(q) + 1..Len(r)
  BY <1>0 DEF Extended
<1>7. ASSUME NEW i \in 1..Len(r), NEW j \in 1..Len(r), r[i] = r[j] PROVE i = j
  <2>1. \A k \in 1..Len(q), l \in Len(q) + 1..Len(r) : r[k] # r[l]
    <3> SUFFICES ASSUME NEW k \in 1..Len(q), NEW l \in Len(q) + 1..Len(r), r[k] = r[l]
                 PROVE  FALSE
      OBVIOUS
    <3>1. q[k] = r[l]
      BY <1>6
    <3>2. ASSUME NEW c \in B \ A, r[l] = Connection(c) PROVE FALSE
      <4>1. Old(Connection(c))
        BY <3>1, <3>2 DEF Old, Among
      <4>2. QED
        BY <4>1, <1>1, <1>3, <1>5
    <3>3. ASSUME NEW c \in A \ B, r[l] = Disconnection(c) PROVE FALSE
      <4>1. Old(Disconnection(c))
        BY <3>1, <3>3 DEF Old, Among
      <4>2. QED
        BY <4>1, <1>1, <1>4
    <3>4. QED
      BY <3>2, <3>3, <1>0 DEF Extended
  <2>2. CASE i \in 1..Len(q) /\ j \in 1..Len(q)
    BY <2>2, <1>6, <1>7 DEF ChannelOK
  <2>3. CASE i \in Len(q) + 1..Len(r) /\ j \in Len(q) + 1..Len(r)
    BY <2>3, <1>0, <1>7 DEF Extended
  <2>4. QED
    BY <2>1, <2>2, <2>3, <1>6, <1>7
<1>8. ASSUME NEW i \in 1..Len(r), NEW j \in 1..Len(r), NEW c \in Ids,
             r[i] = Disconnection(c), r[j] = Connection(c)
      PROVE  j < i
  <2>1. All(Disconnection(c)) /\ All(Connection(c))
    BY <1>8 DEF All, Among
  <2>2. CASE i \in 1..Len(q)
    <3>1. Old(Disconnection(c))
      BY <2>2, <1>6, <1>8 DEF Old, Among
    <3>2. CASE j \in 1..Len(q)
      BY <2>2, <3>2, <1>6, <1>8 DEF ChannelOK
    <3>3. CASE j \in Len(q) + 1..Len(r)
      <4>1. c \in B \ A
        BY <3>3, <1>0, <1>8, Messages DEF Extended
      <4>2. QED
        BY <3>1, <4>1, <1>3, <1>5
    <3>4. QED
      BY <3>2, <3>3, <1>6
  <2>3. CASE i \in Len(q) + 1..Len(r)
    <3>1. c \in A \ B
      BY <2>3, <1>0, <1>8, Messages DEF Extended
    <3>2. CASE j \in 1..Len(q)
      BY <2>3, <3>2, <1>6
    <3>3. CASE j \in Len(q) + 1..Len(r)
      BY <3>3, <3>1, <1>0, <1>8, Messages DEF Extended
    <3>4. QED
      BY <3>2, <3>3, <1>6
  <2>4. QED
    BY <2>2, <2>3, <1>6
<1>9. \A c \in C : ~All(Connection(c))
  <2>1. \A c \in C : ~Old(Connection(c))
    BY DEF ChannelOK, Old
  <2>2. QED
    BY <2>1, <1>1, <1>2, <1>3, <1>5
<1>10. After(C, r, Len(r)) = B
  <2>1. \A c \in Ids : c \in B <=> (c \in C \/ All(Connection(c))) /\ ~All(Disconnection(c))
    BY <1>2, <1>3, <1>4, <1>5
  <2>2. QED
    BY <2>1, <1>1 DEF After, All
<1>11. ASSUME NEW k \in 0..Len(r) PROVE Cardinality(After(C, r, k)) <= SlotCount
  <2>1. CASE k \in 0..Len(q)
    <3>1. After(C, r, k) = After(C, q, k)
      BY <2>1, <1>0, AmongExtended DEF After
    <3>2. QED
      BY <2>1, <3>1 DEF ChannelOK
  <2>2. CASE k \in Len(q) + 1..Len(r)
    <3>1. After(C, r, k) \subseteq A \cup B
      <4> SUFFICES ASSUME NEW c \in Ids, c \in C \/ Among(Connection(c), r, k),
                          ~Among(Disconnection(c), r, k)
                   PROVE  c \in A \cup B
        BY DEF After
      <4>1. c \in C \/ All(Connection(c))
        BY <2>2, <1>0, AmongExtended DEF All
      <4>2. ~Old(Disconnection(c))
        BY <2>2, <1>0, AmongExtended DEF Old
      <4>3. QED
        BY <4>1, <4>2, <1>2, <1>4
    <3>2. IsFiniteSet(A \cup B)
      BY <1>1, IdsFacts, FS_Subset
    <3>3. /\ Cardinality(After(C, r, k)) <= Cardinality(A \cup B)
          /\ Cardinality(After(C, r, k)) \in Nat /\ Cardinality(A \cup B) \in Nat
      BY <3>1, <3>2, FS_Subset, FS_CardinalityType
    <3>4. QED
      BY <3>3, IdsFacts DEF A, B
  <2>3. QED
    BY <2>1, <2>2, <1>6
<1>12. ASSUME NEW c \in Ids, New(u, c)
       PROVE  c \notin C /\ ~All(Connection(c)) /\ ~All(Disconnection(c))
  <2>1. New(t, c) /\ c \notin B
    BY <1>12, NewBefore, NewNotAnnounced DEF B
  <2>2. QED
    BY <2>1, <1>2, <1>3
<1>13. QED
  BY <1>7, <1>8, <1>9, <1>10, <1>11, <1>12 DEF ChannelOK, All, B
-----------------------------------------------------------------------------
(***************************************************************************)
(* The channel, when the Gateway reads a message.                          *)
(***************************************************************************)
\* Taking the first message off a channel.
LEMMA TailFacts ==
    ASSUME NEW q \in Seq(Message), q # <<>>
    PROVE  /\ Tail(q) \in Seq(Message) /\ Len(q) \in Nat \ {0} /\ Len(Tail(q)) = Len(q) - 1
           /\ Head(q) = q[1] /\ Head(q) \in Message
           /\ \A i \in 1..Len(q) - 1 : Tail(q)[i] = q[i + 1]
BY HeadTailProperties, EmptySeq, ElementOfSeq

\* What is among the messages after the first.
LEMMA AmongTail ==
    ASSUME NEW q \in Seq(Message), q # <<>>, NEW k \in 0..Len(Tail(q)), NEW m
    PROVE  Among(m, q, k + 1) <=> Head(q) = m \/ Among(m, Tail(q), k)
<1>1. /\ Len(q) \in Nat \ {0} /\ Len(Tail(q)) = Len(q) - 1 /\ Head(q) = q[1]
      /\ \A i \in 1..Len(q) - 1 : Tail(q)[i] = q[i + 1]
  BY TailFacts
<1>2. \A i \in 1..k : Tail(q)[i] = q[i + 1] /\ i + 1 \in 1..k + 1
  BY <1>1
<1>3. \A i \in 1..k + 1 : i = 1 \/ (i - 1 \in 1..k /\ q[i] = Tail(q)[i - 1])
  <2> SUFFICES ASSUME NEW i \in 2..k + 1 PROVE i - 1 \in 1..k /\ q[i] = Tail(q)[i - 1]
    BY <1>1
  <2>1. i - 1 \in 1..Len(q) - 1 /\ i - 1 \in 1..k /\ (i - 1) + 1 = i
    BY <1>1
  <2>2. Tail(q)[i - 1] = q[(i - 1) + 1]
    BY <1>1, <2>1
  <2>3. QED
    BY <2>1, <2>2
<1>4. 1 \in 1..k + 1
  BY <1>1
<1>5. QED
  BY <1>1, <1>2, <1>3, <1>4 DEF Among

\* The Gateway that has read the first message is where it was to be after it.
LEMMA ReadingAfter ==
    ASSUME NEW C \in SUBSET Ids, NEW q \in Seq(Message), q # <<>>, NEW t, ChannelOK(C, q, t),
           NEW c \in Ids, NEW D,
           \/ Head(q) = Connection(c) /\ D = C \cup {c}
           \/ Head(q) = Disconnection(c) /\ D = C \ {c},
           NEW k \in 0..Len(Tail(q))
    PROVE  After(D, Tail(q), k) = After(C, q, k + 1)
<1>1. \A m : Among(m, q, k + 1) <=> Head(q) = m \/ Among(m, Tail(q), k)
  BY AmongTail
<1>2. CASE Head(q) = Connection(c) /\ D = C \cup {c}
  BY <1>1, <1>2, Messages DEF After
<1>3. CASE Head(q) = Disconnection(c) /\ D = C \ {c}
  <2>1. ~Among(Connection(c), Tail(q), k)
    <3> SUFFICES ASSUME NEW i \in 1..k, Tail(q)[i] = Connection(c) PROVE FALSE
      BY DEF Among
    <3>1. i + 1 \in 1..Len(q) /\ 1 \in 1..Len(q) /\ ~(i + 1 < 1)
          /\ q[i + 1] = Connection(c) /\ q[1] = Disconnection(c)
      BY <1>3, TailFacts
    <3>2. QED
      BY <3>1 DEF ChannelOK
  <2>2. QED
    BY <1>1, <1>3, <2>1, Messages DEF After
<1>4. QED
  BY <1>2, <1>3

\* Reading a message keeps the channel's invariant.
LEMMA ReadingKeeps ==
    ASSUME NEW C \in SUBSET Ids, NEW q \in Seq(Message), q # <<>>, NEW t, ChannelOK(C, q, t),
           NEW c \in Ids, NEW D,
           \/ Head(q) = Connection(c) /\ D = C \cup {c}
           \/ Head(q) = Disconnection(c) /\ D = C \ {c}
    PROVE  ChannelOK(D, Tail(q), t)
<1> DEFINE r == Tail(q)
<1>1. /\ r \in Seq(Message) /\ Len(q) \in Nat \ {0} /\ Len(r) = Len(q) - 1 /\ Head(q) = q[1]
      /\ \A i \in 1..Len(r) : i + 1 \in 1..Len(q) /\ r[i] = q[i + 1] /\ i + 1 # 1
      /\ 1 \in 1..Len(q) /\ Len(r) \in 0..Len(r) /\ Len(r) + 1 = Len(q)
      /\ \A k \in 0..Len(r) : k + 1 \in 0..Len(q)
  BY TailFacts
<1>2. \A k \in 0..Len(r) : After(D, r, k) = After(C, q, k + 1)
  BY ReadingAfter
<1>3. \A m : Among(m, q, Len(q)) <=> Head(q) = m \/ Among(m, r, Len(r))
  BY <1>1, AmongTail
<1> HIDE DEF r
<1>4. ASSUME NEW i \in 1..Len(r), NEW j \in 1..Len(r), r[i] = r[j] PROVE i = j
  <2>1. i + 1 = j + 1
    BY <1>1, <1>4 DEF ChannelOK
  <2>2. QED
    BY <2>1
<1>5. ASSUME NEW i \in 1..Len(r), NEW j \in 1..Len(r), NEW d \in Ids,
             r[i] = Disconnection(d), r[j] = Connection(d)
      PROVE  j < i
  <2>1. j + 1 < i + 1
    BY <1>1, <1>5 DEF ChannelOK
  <2>2. QED
    BY <2>1
<1>6. \A d \in D : ~Among(Connection(d), r, Len(r))
  <2> SUFFICES ASSUME NEW d \in D, Among(Connection(d), r, Len(r)) PROVE FALSE
    OBVIOUS
  <2>1. d \notin C
    BY <1>3 DEF ChannelOK
  <2>2. q[1] = Connection(d)
    BY <1>1, <2>1
  <2>3. PICK i \in 1..Len(r) : q[i + 1] = Connection(d)
    BY <1>1 DEF Among
  <2>4. QED
    BY <1>1, <2>2, <2>3 DEF ChannelOK
<1>7. After(D, r, Len(r)) = TV!AnnouncedIds(t)
  BY <1>1, <1>2 DEF ChannelOK
<1>8. \A k \in 0..Len(r) : Cardinality(After(D, r, k)) <= SlotCount
  BY <1>1, <1>2 DEF ChannelOK
<1>9. ASSUME NEW d \in Ids, New(t, d)
      PROVE  /\ d \notin D
             /\ ~Among(Connection(d), r, Len(r))
             /\ ~Among(Disconnection(d), r, Len(r))
  BY <1>3, <1>9 DEF ChannelOK
<1>10. QED
  BY <1>4, <1>5, <1>6, <1>7, <1>8, <1>9 DEF ChannelOK, r

\* A connection finds a free slot, and is of a controller that is not there yet.
LEMMA RoomForConnection ==
    ASSUME NEW C \in SUBSET Ids, NEW q \in Seq(Message), q # <<>>, NEW t, ChannelOK(C, q, t),
           NEW c \in Ids, Head(q) = Connection(c)
    PROVE  c \notin C /\ Cardinality(C) < SlotCount
<1>1. Len(q) \in Nat \ {0} /\ q[1] = Connection(c)
  BY TailFacts
<1>2. Among(Connection(c), q, Len(q))
  BY <1>1 DEF Among
<1>3. c \notin C
  BY <1>2 DEF ChannelOK
<1>4. \A m : Among(m, q, 1) <=> m = Connection(c)
  BY <1>1 DEF Among
<1>5. After(C, q, 1) = C \cup {c}
  BY <1>4, Messages DEF After
<1>6. Cardinality(C \cup {c}) <= SlotCount
  <2>1. 1 \in 0..Len(q)
    BY <1>1
  <2>2. Cardinality(After(C, q, 1)) <= SlotCount
    BY <2>1 DEF ChannelOK
  <2>3. QED
    BY <1>5, <2>2
<1>7. IsFiniteSet(C) /\ Cardinality(C) \in Nat /\ Cardinality(C \cup {c}) = Cardinality(C) + 1
  BY <1>3, IdsFacts, FS_Subset, FS_CardinalityType, FS_AddElement
<1>8. QED
  BY <1>3, <1>6, <1>7, IdsFacts
-----------------------------------------------------------------------------
(***************************************************************************)
(* What happens to the manager's records.                                  *)
(***************************************************************************)
\* The ids of the gamepads that are known, announced or not.
KnownIds(t) == {t.records[p].id : p \in TV!Known(t)}

\* The manager may become u: with gamepads that come there is a slot for each, those that
\* go still counted.
Moves(t, u) ==
    /\ u \in Manager /\ RecordsOK(u) /\ IdsLeft(u, device.plugged) /\ Evolves(t, u)
    /\ Cardinality(KnownIds(t) \cup KnownIds(u)) <= SlotCount

\* Nothing changes but what is announced, sent, hidden, shown or polled.
Retouched(t, u) ==
    /\ u \in Manager /\ u.next = t.next
    /\ \A p \in Pads : /\ u.records[p].id = t.records[p].id
                       /\ t.records[p].announced => u.records[p].announced
                       /\ u.records[p].announced => u.records[p].id # 0
                       /\ u.records[p].mouseMode = t.records[p].mouseMode

\* Gamepads are finitely many numbers.
LEMMA PadsFinite == /\ Pads \subseteq Nat
                    /\ \A S \in SUBSET Pads : IsFiniteSet(S) /\ Cardinality(S) \in Nat
BY LinkAssumption, FS_Subset, FS_CardinalityType

\* There are no more ids in use than slots, and what is announced is among them.
LEMMA KnownIdsFacts ==
    ASSUME NEW t \in Manager, RecordsOK(t)
    PROVE  /\ KnownIds(t) \subseteq Ids /\ TV!AnnouncedIds(t) \subseteq KnownIds(t)
           /\ IsFiniteSet(KnownIds(t)) /\ Cardinality(KnownIds(t)) <= SlotCount
<1>1. TV!Known(t) \subseteq Pads
  BY DEF TV!Known
<1>2. KnownIds(t) \subseteq Ids
  BY <1>1, RecordTypes DEF KnownIds
<1>3. TV!AnnouncedIds(t) \subseteq KnownIds(t)
  BY RecordTypes DEF RecordsOK, KnownIds, TV!AnnouncedIds, TV!Announced, TV!Known
<1>4. IsFiniteSet(KnownIds(t)) /\ Cardinality(KnownIds(t)) \in Nat
  BY <1>2, IdsFacts, FS_Subset, FS_CardinalityType
<1>5. Cardinality(KnownIds(t)) <= Cardinality(TV!Known(t))
  <2> DEFINE f == [p \in TV!Known(t) |-> t.records[p].id]
  <2>1. f \in Surjection(TV!Known(t), KnownIds(t))
    BY DEF Surjection, KnownIds
  <2>2. IsFiniteSet(TV!Known(t))
    BY <1>1, PadsFinite
  <2>3. QED
    BY <2>1, <2>2, FS_Surjection
<1>6. Cardinality(TV!Known(t)) \in Nat /\ Cardinality(TV!Known(t)) <= SlotCount
  BY <1>1, PadsFinite DEF RecordsOK
<1>7. QED
  BY <1>2, <1>3, <1>4, <1>5, <1>6, IdsFacts

\* A retouched manager is good and has evolved.
LEMMA RetouchedFacts ==
    ASSUME NEW t \in Manager, RecordsOK(t), NEW u, Retouched(t, u)
    PROVE  /\ u \in Manager /\ RecordsOK(u) /\ Evolves(t, u)
           /\ TV!Known(u) = TV!Known(t) /\ KnownIds(u) = KnownIds(t) /\ u.next = t.next
<1>1. u \in Manager /\ u.next = t.next /\ t.next \in Nat
  BY RecordTypes DEF Retouched
<1>2. TV!Known(u) = TV!Known(t)
  BY DEF Retouched, TV!Known
<1>3. KnownIds(u) = KnownIds(t)
  BY <1>2 DEF Retouched, KnownIds, TV!Known
<1>4. RecordsOK(u)
  BY <1>1, <1>2 DEF Retouched, RecordsOK, TV!Known
<1>5. Evolves(t, u)
  BY <1>1, <1>2 DEF Retouched, Evolves, TV!Known
<1>6. QED
  BY <1>1, <1>2, <1>3, <1>4, <1>5

\* Evolving twice is evolving.
LEMMA EvolvesTransitive ==
    ASSUME NEW t \in Manager, NEW u \in Manager, NEW v \in Manager, Evolves(t, u), Evolves(u, v)
    PROVE  Evolves(t, v)
<1>1. t.next \in Nat /\ u.next \in Nat /\ v.next \in Nat
      /\ t.next <= u.next /\ u.next <= v.next
  BY RecordTypes DEF Evolves
<1>2. ASSUME NEW p \in TV!Known(v)
      PROVE  \/ /\ p \in TV!Known(t) /\ v.records[p].id = t.records[p].id
                /\ t.records[p].announced => v.records[p].announced
                /\ v.records[p].mouseMode = t.records[p].mouseMode
             \/ t.next <= v.records[p].id /\ ~v.records[p].mouseMode
  <2>1. p \in Pads /\ v.records[p].id \in Nat
    BY RecordTypes, IdsFacts DEF TV!Known
  <2>2. CASE u.next <= v.records[p].id /\ ~v.records[p].mouseMode
    BY <1>1, <2>1, <2>2
  <2>3. CASE /\ p \in TV!Known(u) /\ v.records[p].id = u.records[p].id
             /\ u.records[p].announced => v.records[p].announced
             /\ v.records[p].mouseMode = u.records[p].mouseMode
    BY <2>3 DEF Evolves
  <2>4. QED
    BY <2>2, <2>3 DEF Evolves
<1>3. QED
  BY <1>1, <1>2 DEF Evolves

\* A handler moves, and then retouches.
LEMMA MovesRetouched ==
    ASSUME NEW t \in Manager, NEW u, NEW v, Moves(t, u), Retouched(u, v)
    PROVE  Moves(t, v)
BY RetouchedFacts, EvolvesTransitive DEF Moves, IdsLeft

\* A handler retouches, and then moves.
LEMMA RetouchedMoves ==
    ASSUME NEW t \in Manager, RecordsOK(t), NEW u, NEW v, Retouched(t, u), Moves(u, v)
    PROVE  Moves(t, v)
BY RetouchedFacts, EvolvesTransitive DEF Moves

\* Retouching by itself is a move.
LEMMA RetouchingMoves ==
    ASSUME NEW t \in Manager, RecordsOK(t), IdsLeft(t, device.plugged), NEW u, Retouched(t, u)
    PROVE  Moves(t, u)
<1>1. KnownIds(t) \cup KnownIds(u) = KnownIds(t)
  BY RetouchedFacts
<1>2. Cardinality(KnownIds(t)) <= SlotCount
  BY KnownIdsFacts
<1>3. QED
  BY <1>1, <1>2, RetouchedFacts DEF Moves, IdsLeft

\* Gamepads are registered in the order of their indexes, while there are slots.
LEMMA Registering ==
    ASSUME NEW t \in Manager, RecordsOK(t), device.plugged \in SUBSET Pads,
           IdsLeft(t, device.plugged)
    PROVE  LET r == TV!Registered(t) IN
           /\ r \in Manager /\ RecordsOK(r) /\ IdsLeft(r, device.plugged) /\ Evolves(t, r)
           /\ TV!Known(t) \subseteq TV!Known(r)
           /\ \A p \in TV!Known(t) : r.records[p].id = t.records[p].id
<1> DEFINE r == TV!Registered(t)
           new == device.plugged \ TV!Known(t)
           before(p) == Cardinality({q \in new : q < p})
           known == Cardinality(TV!Known(t))
           taken == {p \in new : before(p) + known < SlotCount}
           count == Cardinality(taken)
<1>1. /\ TV!Known(t) \subseteq Pads /\ new \subseteq Pads /\ taken \subseteq new
      /\ \A S \in SUBSET Pads : IsFiniteSet(S) /\ Cardinality(S) \in Nat
      /\ known \in Nat /\ known <= SlotCount /\ SlotCount \in Nat
  BY PadsFinite, IdsFacts DEF TV!Known, RecordsOK
<1>2. \A p \in new : {q \in new : q < p} \subseteq Pads
  BY <1>1
<1>3. \A p \in new : before(p) \in Nat
  BY <1>1, <1>2
<1>4. count \in Nat
  BY <1>1
<1>5. r = [t EXCEPT !.next = t.next + count,
                    !.records = [p \in Pads |->
                        IF p \in taken
                        THEN [TV!NoRecord EXCEPT !.id = t.next + before(p),
                                                 !.announced = TV!CanAnnounce(t)]
                        ELSE t.records[p]]]
  BY CardinalityTV DEF TV!Registered
<1>6. \A p, q \in new : p < q => before(p) < before(q)
  <2> SUFFICES ASSUME NEW p \in new, NEW q \in new, p < q PROVE before(p) < before(q)
    OBVIOUS
  <2> DEFINE P == {x \in new : x < p}
             Q == {x \in new : x < q}
  <2>1. P \cup {p} \subseteq Q /\ p \notin P /\ Q \subseteq Pads /\ P \subseteq Pads
    <3>1. p \in Nat /\ q \in Nat /\ \A x \in new : x \in Nat
      BY <1>1, PadsFinite
    <3>2. \A x \in new : x < p => x < q
      BY <3>1
    <3>3. QED
      BY <1>1, <3>1, <3>2
  <2>2. IsFiniteSet(P) /\ IsFiniteSet(Q) /\ Cardinality(P) \in Nat /\ Cardinality(Q) \in Nat
    BY <1>1, <2>1
  <2> HIDE DEF P, Q
  <2>3. Cardinality(P \cup {p}) = Cardinality(P) + 1
    BY <2>1, <2>2, FS_AddElement
  <2>4. Cardinality(P \cup {p}) <= Cardinality(Q)
    BY <2>1, <2>2, FS_Subset
  <2>5. Cardinality(P) < Cardinality(Q)
    BY <2>2, <2>3, <2>4
  <2>6. QED
    BY <2>5 DEF P, Q
<1>7. ASSUME NEW p \in taken PROVE before(p) < count
  <2> DEFINE P == {x \in new : x < p}
  <2>1. \A x \in P : x \in taken
    BY <1>1, <1>3, <1>6
  <2>2. P \cup {p} \subseteq taken /\ p \notin P /\ P \subseteq Pads
    <3>1. p \in Nat
      BY <1>1, PadsFinite
    <3>2. QED
      BY <1>1, <2>1, <3>1
  <2>3. IsFiniteSet(P) /\ IsFiniteSet(taken) /\ Cardinality(P) \in Nat
    BY <1>1, <2>2
  <2> HIDE DEF P, taken
  <2>4. Cardinality(P \cup {p}) = Cardinality(P) + 1
    BY <2>2, <2>3, FS_AddElement
  <2>5. Cardinality(P \cup {p}) <= Cardinality(taken)
    BY <2>2, <2>3, FS_Subset
  <2>6. Cardinality(P) < Cardinality(taken)
    BY <1>4, <2>3, <2>4, <2>5
  <2>7. QED
    BY <2>6 DEF P
<1>8. count + known <= SlotCount
  <2> DEFINE f == [p \in taken |-> before(p)]
             m == SlotCount - known
  <2>1. m \in Nat /\ IsFiniteSet(0..m - 1) /\ Cardinality(0..m - 1) = m
    <3>1. m \in Nat
      BY <1>1
    <3> HIDE DEF m
    <3>2. QED
      BY <3>1, FS_Interval
  <2>2. f \in [taken -> 0..m - 1]
    BY <1>1, <1>3
  <2>3. \A p, q \in taken : f[p] = f[q] => p = q
    <3> SUFFICES ASSUME NEW p \in taken, NEW q \in taken, before(p) = before(q) PROVE p = q
      OBVIOUS
    <3>1. p \in Nat /\ q \in Nat /\ p \in new /\ q \in new /\ before(p) \in Nat
      BY <1>1, <1>3, PadsFinite
    <3>2. ~(p < q) /\ ~(q < p)
      BY <1>6, <3>1
    <3>3. QED
      BY <3>1, <3>2
  <2>4. f \in Injection(taken, 0..m - 1)
    BY <2>2, <2>3 DEF Injection, IsInjective
  <2> HIDE DEF f, taken, m
  <2>5. count <= m
    BY <2>1, <2>4, FS_Injection
  <2>6. QED
    BY <1>1, <1>4, <2>1, <2>5 DEF m
<1>9. /\ IdsLeft(t, device.plugged) /\ t.next \in Nat /\ t.next > 0
      /\ Cardinality(new) = count + Cardinality(new \ taken) /\ Cardinality(new \ taken) \in Nat
      /\ t.next + Cardinality(new) <= MaxId + 1 /\ MaxId \in Nat
  <2>1. IsFiniteSet(new) /\ new \cap taken = taken /\ new \ taken \subseteq Pads
    BY <1>1
  <2>2. Cardinality(new) \in Nat /\ Cardinality(new \ taken) \in Nat
    BY <1>1, <2>1
  <2> HIDE DEF new, taken
  <2>3. Cardinality(new \ taken) = Cardinality(new) - count
    BY <2>1, FS_Difference
  <2>4. QED
    BY <1>4, <2>2, <2>3, IdsFacts DEF IdsLeft, new, Manager
<1>10. r.next = t.next + count /\ r.next \in 1..MaxId + 1
  BY <1>4, <1>5, <1>9 DEF Manager
<1>11. ASSUME NEW p \in Pads \ taken PROVE r.records[p] = t.records[p]
  BY <1>5, <1>11 DEF Manager
<1>12. ASSUME NEW p \in taken
       PROVE  /\ p \in Pads /\ r.records[p] \in Record
              /\ r.records[p].id = t.next + before(p) /\ ~r.records[p].mouseMode
              /\ p \notin TV!Known(t)
  <2>1. r.records[p] = [TV!NoRecord EXCEPT !.id = t.next + before(p),
                                           !.announced = TV!CanAnnounce(t)]
    BY <1>1, <1>5, <1>12 DEF Manager
  <2>2. t.next + before(p) \in 0..MaxId
    <3>1. before(p) \in Nat /\ before(p) < count
      BY <1>1, <1>3, <1>7, <1>12
    <3>2. t.next + count <= MaxId + 1 /\ t.next \in Nat /\ MaxId \in Nat
      <4> HIDE DEF new, taken, count
      <4>1. QED
        BY <1>4, <1>9
    <3> HIDE DEF before, count
    <3>3. QED
      BY <1>4, <3>1, <3>2
  <2>3. TV!CanAnnounce(t) \in BOOLEAN
    BY DEF TV!CanAnnounce
  <2>4. QED
    BY <2>1, <2>2, <2>3, <1>1 DEF TV!NoRecord, Record
<1>13. r \in Manager
  <2>1. \A p \in Pads : r.records[p] \in Record
    BY <1>11, <1>12, RecordTypes
  <2>2. /\ DOMAIN r.records = Pads /\ r.records = [p \in Pads |-> r.records[p]]
        /\ r = [records |-> r.records, next |-> r.next, hidden |-> t.hidden,
                menu |-> t.menu, polling |-> t.polling]
    BY <1>5 DEF Manager
  <2>3. r.records \in [Pads -> Record]
    BY <2>1, <2>2
  <2>4. QED
    BY <2>2, <2>3, <1>10 DEF Manager
<1> HIDE DEF r
<1>14. ASSUME NEW p \in Pads PROVE p \in TV!Known(r) <=> p \in TV!Known(t) \/ p \in taken
  <2>1. CASE p \in taken
    <3>1. r.records[p].id # 0
      BY <1>12, <1>9, <1>3, <1>1, <2>1
    <3>2. QED
      BY <2>1, <3>1 DEF TV!Known
  <2>2. CASE p \notin taken
    BY <2>2, <1>11 DEF TV!Known
  <2>3. QED
    BY <2>1, <2>2
<1>15. TV!Known(r) = TV!Known(t) \cup taken /\ TV!Known(t) \cap taken = {}
  BY <1>1, <1>14 DEF TV!Known
<1>16. \A p \in TV!Known(t) : p \in Pads \ taken /\ r.records[p] = t.records[p]
  BY <1>1, <1>11, <1>15
<1>17. RecordsOK(r)
  <2>1. ASSUME NEW p \in Pads PROVE r.records[p].id < r.next
    <3>1. CASE p \in taken
      <4>1. before(p) \in Nat /\ before(p) < count /\ r.records[p].id = t.next + before(p)
        BY <3>1, <1>1, <1>3, <1>7, <1>12
      <4> HIDE DEF before, count, taken
      <4>2. QED
        BY <4>1, <1>4, <1>9, <1>10
    <3>2. CASE p \notin taken
      <4>1. t.records[p].id < t.next /\ t.records[p].id \in Nat
        BY RecordTypes, IdsFacts DEF RecordsOK
      <4>2. QED
        BY <3>2, <4>1, <1>4, <1>9, <1>10, <1>11
    <3>3. QED
      BY <3>1, <3>2
  <2>2. ASSUME NEW p \in Pads, r.records[p].announced PROVE r.records[p].id # 0
    <3>1. CASE p \in taken
      BY <3>1, <1>14, RecordTypes DEF TV!Known
    <3>2. CASE p \notin taken
      BY <2>2, <3>2, <1>11 DEF RecordsOK
    <3>3. QED
      BY <3>1, <3>2
  <2>3. ASSUME NEW p \in TV!Known(r), NEW q \in TV!Known(r), r.records[p].id = r.records[q].id
        PROVE  p = q
    <3>1. ASSUME NEW x \in taken, NEW y \in TV!Known(t) PROVE r.records[x].id # r.records[y].id
      <4>1. t.records[y].id < t.next /\ r.records[y].id = t.records[y].id
            /\ t.records[y].id \in Nat
        BY <1>1, <1>16, RecordTypes, IdsFacts DEF RecordsOK
      <4>2. r.records[x].id = t.next + before(x) /\ before(x) \in Nat
        BY <1>1, <1>3, <1>12
      <4>3. QED
        BY <4>1, <4>2, <1>9
    <3>2. CASE p \in taken /\ q \in taken
      <4>1. before(p) \in Nat /\ before(q) \in Nat /\ p \in new /\ q \in new
            /\ p \in Nat /\ q \in Nat
        BY <3>2, <1>1, <1>3, PadsFinite
      <4>2. before(p) = before(q)
        BY <2>3, <3>2, <4>1, <1>9, <1>12
      <4>3. ~(p < q) /\ ~(q < p)
        BY <1>6, <4>1, <4>2
      <4>4. QED
        BY <4>1, <4>3
    <3>3. CASE p \in TV!Known(t) /\ q \in TV!Known(t)
      BY <2>3, <3>3, <1>16 DEF RecordsOK
    <3>4. QED
      BY <2>3, <3>1, <3>2, <3>3, <1>15
  <2>4. Cardinality(TV!Known(r)) <= SlotCount
    <3>1. IsFiniteSet(TV!Known(t)) /\ IsFiniteSet(taken)
      BY <1>1
    <3>2. Cardinality(TV!Known(t) \cup taken) = known + count - Cardinality(TV!Known(t) \cap taken)
      BY <3>1, FS_Union
    <3>3. Cardinality(TV!Known(t) \cap taken) = 0
      BY <1>15, FS_EmptySet
    <3> HIDE DEF taken, known
    <3>4. QED
      BY <1>1, <1>4, <1>8, <1>15, <3>2, <3>3 DEF known
  <2>5. QED
    BY <2>1, <2>2, <2>3, <2>4 DEF RecordsOK
<1>18. IdsLeft(r, device.plugged)
  <2>1. device.plugged \ TV!Known(r) = new \ taken
    BY <1>15
  <2> HIDE DEF new, taken, count
  <2>2. r.next + Cardinality(new \ taken) <= MaxId + 1
    BY <1>4, <1>9, <1>10
  <2>3. QED
    BY <2>1, <2>2 DEF IdsLeft
<1>19. Evolves(t, r)
  <2>1. t.next <= r.next
    BY <1>4, <1>9, <1>10
  <2>2. \A p \in taken : t.next <= r.records[p].id /\ ~r.records[p].mouseMode
    BY <1>1, <1>3, <1>9, <1>12
  <2>3. QED
    BY <2>1, <2>2, <1>15, <1>16 DEF Evolves
<1>20. QED
  BY <1>13, <1>15, <1>16, <1>17, <1>18, <1>19 DEF r

\* An empty record.
LEMMA NoRecordType == TV!NoRecord \in Record /\ TV!NoRecord.id = 0 /\ ~TV!NoRecord.announced
BY IdsFacts DEF TV!NoRecord, Record

\* Gamepads that are gone lose their records; the others keep theirs.
LEMMA Unregistering ==
    ASSUME NEW t \in Manager, RecordsOK(t), NEW gone \in SUBSET Pads
    PROVE  LET u == TV!Unregistered(t, gone) IN
           /\ u \in Manager /\ RecordsOK(u) /\ Evolves(t, u) /\ u.next = t.next
           /\ TV!Known(u) = TV!Known(t) \ gone /\ KnownIds(u) \subseteq KnownIds(t)
           /\ \A p \in TV!Known(u) : u.records[p] = t.records[p]
<1> DEFINE u == TV!Unregistered(t, gone)
<1>1. /\ u.next = t.next /\ u \in Manager
      /\ \A p \in Pads : u.records[p] = IF p \in gone THEN TV!NoRecord ELSE t.records[p]
  BY NoRecordType DEF TV!Unregistered, Manager
<1> HIDE DEF u
<1>2. TV!Known(u) = TV!Known(t) \ gone
  BY <1>1, NoRecordType DEF TV!Known
<1>3. \A p \in TV!Known(u) : p \in Pads /\ p \in TV!Known(t) /\ u.records[p] = t.records[p]
  BY <1>1, <1>2 DEF TV!Known
<1>4. t.next \in Nat /\ t.next > 0
  BY DEF Manager
<1>5. RecordsOK(u)
  <2>1. \A p \in Pads : u.records[p].id < u.next
    BY <1>1, <1>4, NoRecordType DEF RecordsOK
  <2>2. \A p \in Pads : u.records[p].announced => u.records[p].id # 0
    BY <1>1, NoRecordType DEF RecordsOK
  <2>3. \A p, q \in TV!Known(u) : u.records[p].id = u.records[q].id => p = q
    BY <1>3 DEF RecordsOK
  <2>4. Cardinality(TV!Known(u)) <= SlotCount
    <3>1. TV!Known(u) \subseteq TV!Known(t) /\ IsFiniteSet(TV!Known(t))
          /\ Cardinality(TV!Known(t)) \in Nat /\ Cardinality(TV!Known(u)) \in Nat
      BY <1>2, PadsFinite DEF TV!Known
    <3>2. Cardinality(TV!Known(u)) <= Cardinality(TV!Known(t))
      BY <3>1, FS_Subset
    <3>3. QED
      BY <3>1, <3>2, IdsFacts DEF RecordsOK
  <2>5. QED
    BY <2>1, <2>2, <2>3, <2>4 DEF RecordsOK
<1>6. Evolves(t, u)
  BY <1>1, <1>3, <1>4 DEF Evolves
<1>7. KnownIds(u) \subseteq KnownIds(t)
  BY <1>3 DEF KnownIds
<1>8. QED
  BY <1>1, <1>2, <1>3, <1>5, <1>6, <1>7 DEF u

\* Losing gamepads is a move.
LEMMA UnregisteringMoves ==
    ASSUME NEW t \in Manager, RecordsOK(t), NEW gone \in SUBSET Pads, NEW u,
           u = TV!Unregistered(t, gone), IdsLeft(u, device.plugged)
    PROVE  Moves(t, u)
<1>1. /\ u \in Manager /\ RecordsOK(u) /\ Evolves(t, u) /\ KnownIds(u) \subseteq KnownIds(t)
  BY Unregistering
<1>2. KnownIds(t) \cup KnownIds(u) = KnownIds(t)
  BY <1>1
<1>3. QED
  BY <1>1, <1>2, KnownIdsFacts DEF Moves

\* Those that are gone are still counted when the new ones are registered.
LEMMA Enumerating ==
    ASSUME NEW t \in Manager, RecordsOK(t), device.plugged \in SUBSET Pads,
           IdsLeft(t, device.plugged)
    PROVE  Moves(t, TV!Enumerated(t))
<1> DEFINE r == TV!Registered(t)
           gone == TV!Known(r) \ device.plugged
           u == TV!Unregistered(r, gone)
<1>1. /\ r \in Manager /\ RecordsOK(r) /\ IdsLeft(r, device.plugged) /\ Evolves(t, r)
      /\ TV!Known(t) \subseteq TV!Known(r)
      /\ \A p \in TV!Known(t) : r.records[p].id = t.records[p].id
  BY Registering
<1> HIDE DEF r
<1>2. gone \in SUBSET Pads
  BY DEF TV!Known
<1>3. /\ u \in Manager /\ RecordsOK(u) /\ Evolves(r, u) /\ u.next = r.next
      /\ TV!Known(u) = TV!Known(r) \ gone /\ KnownIds(u) \subseteq KnownIds(r)
  BY <1>1, <1>2, Unregistering
<1>4. Evolves(t, u)
  BY <1>1, <1>3, EvolvesTransitive
<1>5. IdsLeft(u, device.plugged)
  <2>1. device.plugged \ TV!Known(u) = device.plugged \ TV!Known(r)
    BY <1>3
  <2>2. QED
    BY <1>1, <1>3, <2>1 DEF IdsLeft
<1>6. KnownIds(t) \cup KnownIds(u) \subseteq KnownIds(r)
  BY <1>1, <1>3 DEF KnownIds
<1>7. Cardinality(KnownIds(t) \cup KnownIds(u)) <= SlotCount
  <2>1. /\ IsFiniteSet(KnownIds(r)) /\ Cardinality(KnownIds(r)) <= SlotCount
    BY <1>1, KnownIdsFacts
  <2>2. /\ IsFiniteSet(KnownIds(t) \cup KnownIds(u))
        /\ Cardinality(KnownIds(t) \cup KnownIds(u)) <= Cardinality(KnownIds(r))
    BY <1>6, <2>1, FS_Subset
  <2>3. QED
    BY <2>1, <2>2, FS_CardinalityType, IdsFacts
<1>8. TV!Enumerated(t) = u
  BY DEF TV!Enumerated, r
<1>9. QED
  BY <1>3, <1>4, <1>5, <1>7, <1>8 DEF Moves

\* Announcing all, when the TV is shown and has no menu open, retouches.
LEMMA Announcing ==
    ASSUME NEW t \in Manager, RecordsOK(t)
    PROVE  Retouched(t, TV!WithAllAnnounced(t))
<1> DEFINE u == TV!WithAllAnnounced(t)
           loud(p) == p \in TV!Known(t) /\ TV!CanAnnounce(t)
<1>1. u = [t EXCEPT !.records = [p \in Pads |->
              IF loud(p) THEN [t.records[p] EXCEPT !.announced = TRUE] ELSE t.records[p]]]
  BY DEF TV!WithAllAnnounced
<1>2. \A p \in Pads : loud(p) => t.records[p].id # 0
  BY DEF TV!Known
<1> HIDE DEF loud
<1>3. \A p \in Pads : /\ t.records[p] \in Record
                      /\ [t.records[p] EXCEPT !.announced = TRUE] \in Record
                      /\ [t.records[p] EXCEPT !.announced = TRUE].announced
                      /\ [t.records[p] EXCEPT !.announced = TRUE].id = t.records[p].id
                      /\ [t.records[p] EXCEPT !.announced = TRUE].mouseMode = t.records[p].mouseMode
  BY RecordTypes DEF Record
<1>4. /\ u \in Manager /\ u.next = t.next
      /\ \A p \in Pads : u.records[p] = IF loud(p) THEN [t.records[p] EXCEPT !.announced = TRUE]
                                        ELSE t.records[p]
  BY <1>1, <1>3 DEF Manager
<1> HIDE DEF u
<1>5. QED
  BY <1>2, <1>3, <1>4 DEF Retouched, RecordsOK, u

\* A change of what was sent only retouches.
LEMMA SameAnnounced ==
    ASSUME NEW t \in Manager, RecordsOK(t), NEW u \in Manager, u.next = t.next,
           \A p \in Pads : /\ u.records[p].announced = t.records[p].announced
                           /\ u.records[p].id = t.records[p].id
                           /\ u.records[p].mouseMode = t.records[p].mouseMode
    PROVE  Retouched(t, u)
BY DEF Retouched, RecordsOK

\* What closing the menu, and showing the TV again, do.
LEMMA Resuming ==
    ASSUME NEW t \in Manager, RecordsOK(t), device.plugged \in SUBSET Pads,
           IdsLeft(t, device.plugged)
    PROVE  Moves(t, TV!Resumed(t))
<1> DEFINE e == TV!Enumerated(t)
           a == TV!WithAllAnnounced(e)
           u == [a EXCEPT !.polling = a.polling \/ ~t.hidden,
                          !.records = [p \in Pads |-> [a.records[p] EXCEPT !.hasSent = FALSE]]]
<1>1. Moves(t, e)
  BY Enumerating
<1> HIDE DEF e
<1>2. e \in Manager /\ RecordsOK(e)
  BY <1>1 DEF Moves
<1>3. Retouched(e, a)
  BY <1>2, Announcing
<1>4. Moves(t, a)
  BY <1>1, <1>3, MovesRetouched
<1> HIDE DEF a
<1>5. a \in Manager /\ RecordsOK(a)
  BY <1>4 DEF Moves
<1>6. Retouched(a, u)
  <2>1. \A p \in Pads : /\ a.records[p] \in Record
                        /\ [a.records[p] EXCEPT !.hasSent = FALSE] \in Record
                        /\ [a.records[p] EXCEPT !.hasSent = FALSE].announced
                              = a.records[p].announced
                        /\ [a.records[p] EXCEPT !.hasSent = FALSE].id = a.records[p].id
                        /\ [a.records[p] EXCEPT !.hasSent = FALSE].mouseMode
                              = a.records[p].mouseMode
    BY <1>5, RecordTypes DEF Record
  <2>2. (a.polling \/ ~t.hidden) \in BOOLEAN
    OBVIOUS
  <2>3. /\ u \in Manager /\ u.next = a.next
        /\ \A p \in Pads : u.records[p] = [a.records[p] EXCEPT !.hasSent = FALSE]
    BY <1>5, <2>1, <2>2 DEF Manager
  <2> HIDE DEF u
  <2>4. \A p \in Pads : /\ u.records[p].announced = a.records[p].announced
                        /\ u.records[p].id = a.records[p].id
                        /\ u.records[p].mouseMode = a.records[p].mouseMode
    BY <2>1, <2>3
  <2>5. QED
    BY <1>5, <2>3, <2>4, SameAnnounced
<1>7. Moves(t, u)
  BY <1>4, <1>6, MovesRetouched
<1>8. TV!Resumed(t) = IF t.menu THEN e ELSE u
  BY DEF TV!Resumed, e, a
<1>9. QED
  BY <1>1, <1>7, <1>8
-----------------------------------------------------------------------------
(***************************************************************************)
(* The steps of the TV.                                                    *)
(***************************************************************************)
\* The type invariant, with the names of this module.
LEMMA LinkTypes ==
    LinkTypeOK <=> /\ BridgeTypeOK /\ device \in Device /\ tv \in Manager
                   /\ control \in Seq(Message) /\ states \in Seq(Sent)
                   /\ stream \in {"starting", "on", "over", "closed"}
<1>1. Ids = 1..MaxId
  BY LinkAssumption
<1>2. QED
  BY <1>1 DEF LinkTypeOK, TV!TvTypeOK, Device, Manager, Record, Message, Sent

\* The controllers the bridge has are those in a slot.
LEMMA ConnectedFacts ==
    ASSUME BridgeInv
    PROVE  /\ Connected \in SUBSET Ids
           /\ \A c \in Ids : c \notin Connected => bridge.controllers[c] = Absent
           /\ \A c \in Ids : c \in Connected <=> bridge.controllers[c].slot # NoSlot
BY DEF BridgeInv, Sound, ControllersOK, Connected

\* A gamepad that gets a record is shown in no mouse mode, and its id is in none.
LEMMA MouseModesEvolve ==
    ASSUME BridgeInv, NEW t \in Manager, NEW u \in Manager, NEW q, RecordsOK(u), Evolves(t, u),
           ChannelOK(Connected, q, t), MouseModesOK(bridge, t)
    PROVE  MouseModesOK(bridge, u)
<1>1. t.next \in Nat /\ u.next \in Nat /\ t.next <= u.next /\ \A c \in Ids : c \in Nat
  BY RecordTypes, IdsFacts DEF Evolves
<1>2. \A c \in Ids : c >= u.next => bridge.outbox[c] = <<>>
  BY <1>1 DEF MouseModesOK
<1>3. ASSUME NEW p \in TV!Known(u), NEW c, c = u.records[p].id, NEW k, k = bridge.controllers[c]
      PROVE  /\ k.slot = NoSlot => bridge.outbox[c] = <<>>
             /\ bridge.outbox[c] = <<>> => u.records[p].mouseMode = k.mouseMode
             /\ bridge.outbox[c] # <<>> => bridge.outbox[c][Len(bridge.outbox[c])] = k.mouseMode
  <2>1. CASE /\ p \in TV!Known(t) /\ u.records[p].id = t.records[p].id
             /\ t.records[p].announced => u.records[p].announced
             /\ u.records[p].mouseMode = t.records[p].mouseMode
    BY <1>3, <2>1 DEF MouseModesOK
  <2>2. CASE t.next <= u.records[p].id /\ ~u.records[p].mouseMode
    <3>1. c \in Ids /\ c >= t.next
      BY <1>1, <1>3, <2>2, RecordTypes DEF TV!Known
    <3>2. bridge.outbox[c] = <<>>
      BY <3>1 DEF MouseModesOK
    <3>3. k = Absent
      BY <1>3, <3>1, ConnectedFacts DEF ChannelOK, New
    <3>4. u.records[p].mouseMode = FALSE
      BY <2>2, RecordTypes DEF TV!Known
    <3>5. QED
      BY <3>2, <3>3, <3>4 DEF Absent
  <2>3. QED
    BY <2>1, <2>2 DEF Evolves
<1>4. QED
  BY <1>2, <1>3 DEF MouseModesOK

\* The manager becomes u, and its messages are appended.
LEMMA Becoming ==
    ASSUME BridgeInv, TvInv, Live => LinkOK, NEW u, Moves(tv, u), TV!Become(u),
           device'.plugged = device.plugged, UNCHANGED <<bridge, host, stream>>
    PROVE  /\ tv' \in Manager /\ RecordsOK(tv') /\ IdsLeft(tv', device'.plugged)
           /\ control' \in Seq(Message)
           /\ Live' => LinkOK'
<1> DEFINE A == TV!AnnouncedIds(tv)
           B == TV!AnnouncedIds(u)
<1>1. /\ tv \in Manager /\ RecordsOK(tv) /\ control \in Seq(Message)
      /\ u \in Manager /\ RecordsOK(u) /\ Evolves(tv, u) /\ tv' = u
  BY DEF TvInv, Moves, TV!Become
<1>2. A \subseteq KnownIds(tv) /\ B \subseteq KnownIds(u) /\ KnownIds(tv) \subseteq Ids
      /\ KnownIds(u) \subseteq Ids
  BY <1>1, KnownIdsFacts
<1>3. Cardinality(A \cup B) <= SlotCount
  <2>1. IsFiniteSet(KnownIds(tv) \cup KnownIds(u))
    BY <1>2, IdsFacts, FS_Subset
  <2>2. /\ Cardinality(A \cup B) <= Cardinality(KnownIds(tv) \cup KnownIds(u))
        /\ Cardinality(A \cup B) \in Nat /\ Cardinality(KnownIds(tv) \cup KnownIds(u)) \in Nat
    BY <1>2, <2>1, FS_Subset, FS_CardinalityType
  <2>3. QED
    BY <2>2, IdsFacts DEF Moves
<1>4. Extended(control, control', B \ A, A \ B)
  <2>1. B \ A \in SUBSET Ids /\ A \ B \in SUBSET Ids
    BY <1>2
  <2>2. control' = control \o TV!SetToSeq({Connection(c) : c \in B \ A})
                           \o TV!SetToSeq({Disconnection(c) : c \in A \ B})
    BY DEF TV!Become, Connection, Disconnection
  <2>3. QED
    BY <1>1, <2>1, <2>2, AppendingExtends
<1>5. control' \in Seq(Message)
  BY <1>4 DEF Extended
<1>6. ASSUME LinkOK PROVE LinkOK'
  <2>1. Connected \in SUBSET Ids /\ Connected' = Connected
    BY ConnectedFacts DEF Connected
  <2>2. ChannelOK(Connected, control', u)
    BY <1>1, <1>3, <1>4, <1>6, <2>1, SendingKeeps DEF LinkOK
  <2>3. MouseModesOK(bridge, u)
    BY <1>1, <1>6, MouseModesEvolve DEF LinkOK
  <2>4. ~bridge.shutdown
    BY <1>6 DEF LinkOK
  <2>5. QED
    BY <1>1, <2>1, <2>2, <2>3, <2>4 DEF LinkOK
<1>7. IdsLeft(u, device'.plugged)
  BY DEF Moves
<1>8. QED
  BY <1>1, <1>5, <1>6, <1>7 DEF Live

\* A function of a finite set has finitely many values.
LEMMA ImageFinite ==
    ASSUME NEW S, IsFiniteSet(S), NEW f, DOMAIN f = S
    PROVE  IsFiniteSet({f[x] : x \in S})
<1> DEFINE T == {f[x] : x \in S}
           g == [x \in S |-> f[x]]
<1>1. g \in Surjection(S, T)
  BY DEF Surjection
<1>2. QED
  BY <1>1, FS_Surjection

\* What a poll sends are states.
LEMMA Sending ==
    ASSUME states \in Seq(Sent), NEW out, IsFiniteSet(out),
           out \subseteq [id : Ids, pressed : SUBSET Buttons], TV!Send(out)
    PROVE  states' \in Seq(Sent)
<1> DEFINE f == [m \in out |-> [id |-> m.id, pressed |-> m.pressed, stale |-> FALSE]]
           S == {f[m] : m \in out}
<1>1. IsFiniteSet(S)
  BY ImageFinite
<1>2. S \subseteq Sent
  <2> SUFFICES ASSUME NEW m \in out PROVE f[m] \in Sent
    OBVIOUS
  <2>1. m.id \in Ids /\ m.pressed \in SUBSET Buttons
    OBVIOUS
  <2>2. QED
    BY <2>1 DEF Sent
<1>3. S = {[id |-> m.id, pressed |-> m.pressed, stale |-> FALSE] : m \in out}
  OBVIOUS
<1> HIDE DEF S
<1>4. TV!SetToSeq(S) \in Seq(Sent)
  BY <1>1, <1>2, SetToSeqTV
<1>5. states' = states \o TV!SetToSeq(S)
  BY <1>3 DEF TV!Send
<1>6. QED
  BY <1>4, <1>5

\* The neutral states sent on hiding, or on opening the menu, are of announced controllers.
LEMMA NeutralFacts ==
    ASSUME TvInv, NEW pads \in SUBSET Pads
    PROVE  /\ IsFiniteSet(TV!Neutral(pads))
           /\ TV!Neutral(pads) \subseteq [id : Ids, pressed : SUBSET Buttons]
<1> DEFINE S == pads \cap TV!Announced(tv)
           f == [p \in S |-> [id |-> tv.records[p].id, pressed |-> {}]]
<1>1. S \subseteq Pads /\ IsFiniteSet(S)
  BY PadsFinite
<1>2. \A p \in S : tv.records[p].id \in Ids
  BY RecordTypes DEF TvInv, RecordsOK, TV!Announced
<1>3. TV!Neutral(pads) = {f[p] : p \in S}
  BY DEF TV!Neutral
<1> HIDE DEF S
<1>4. IsFiniteSet({f[p] : p \in S})
  BY <1>1, ImageFinite
<1>5. QED
  BY <1>2, <1>3, <1>4

\* Sending them leaves a good channel.
LEMMA NeutralSending ==
    ASSUME TvInv, NEW pads \in SUBSET Pads, NEW out \in SUBSET TV!Neutral(pads), TV!Send(out)
    PROVE  states' \in Seq(Sent)
<1>1. IsFiniteSet(out) /\ out \subseteq [id : Ids, pressed : SUBSET Buttons]
  BY NeutralFacts, FS_Subset
<1>2. QED
  BY <1>1, Sending DEF TvInv

\* What a step of the TV leaves, with the bridge untouched.
TvKept == /\ device' \in Device /\ states' \in Seq(Sent)
          /\ tv' \in Manager /\ RecordsOK(tv') /\ IdsLeft(tv', device'.plugged)
          /\ control' \in Seq(Message)
          /\ Live' => LinkOK'

\* A step of the browser alone keeps everything.
LEMMA OnlyDevice ==
    ASSUME TvInv, Live => LinkOK, UNCHANGED <<bridge, host, stream, tv, control, states>>,
           device' \in Device, IdsLeft(tv, device'.plugged)
    PROVE  TvKept
BY DEF TvInv, TvKept, Live, LinkOK, Connected

\* Plug: an id is left for the new gamepad, the guard of the model's bound.
LEMMA PlugKeeps ==
    ASSUME TvInv, Live => LinkOK, UNCHANGED <<bridge, host, stream>>,
           NEW p \in Pads, TV!Plug(p)
    PROVE  TvKept
<1> DEFINE S == device.plugged \ TV!Known(tv)
           T == device'.plugged \ TV!Known(tv)
<1>1. /\ device' \in Device /\ device'.plugged = device.plugged \cup {p}
      /\ UNCHANGED <<tv, control, states>>
  BY DEF TV!Plug, TvInv, Device
<1>2. tv.next + Cardinality(S) <= MaxId
  BY CardinalityTV DEF TV!Plug, TV!IdsToCome
<1>3. S \subseteq Pads /\ T \subseteq S \cup {p} /\ IsFiniteSet(S) /\ IsFiniteSet(S \cup {p})
      /\ Cardinality(S) \in Nat /\ Cardinality(T) \in Nat
  BY <1>1, PadsFinite DEF TvInv, Device
<1> HIDE DEF S, T
<1>4. Cardinality(T) <= Cardinality(S \cup {p}) /\ Cardinality(S \cup {p}) <= Cardinality(S) + 1
  BY <1>3, FS_Subset, FS_AddElement
<1>5. tv.next + Cardinality(T) <= MaxId + 1
  <2>1. tv.next \in Nat /\ MaxId \in Nat /\ Cardinality(S \cup {p}) \in Nat
    BY <1>3, FS_CardinalityType, RecordTypes, IdsFacts DEF TvInv
  <2>2. QED
    BY <2>1, <1>2, <1>3, <1>4
<1>6. IdsLeft(tv, device'.plugged)
  BY <1>5 DEF IdsLeft, T
<1>7. QED
  BY <1>1, <1>6, OnlyDevice

\* Unplug: the browser notices before the manager does.
LEMMA UnplugKeeps ==
    ASSUME TvInv, Live => LinkOK, UNCHANGED <<bridge, host, stream>>,
           NEW p \in Pads, TV!Unplug(p)
    PROVE  TvKept
<1> DEFINE S == device.plugged \ TV!Known(tv)
           T == device'.plugged \ TV!Known(tv)
<1>1. /\ device' \in Device /\ device'.plugged = device.plugged \ {p}
      /\ UNCHANGED <<tv, control, states>>
  BY DEF TV!Unplug, TvInv, Device
<1>2. T \subseteq S /\ S \subseteq Pads /\ IsFiniteSet(S)
      /\ Cardinality(S) \in Nat /\ Cardinality(T) \in Nat
  BY <1>1, PadsFinite DEF TvInv, Device
<1>3. tv.next + Cardinality(S) <= MaxId + 1
  BY DEF TvInv, IdsLeft
<1> HIDE DEF S, T
<1>4. Cardinality(T) <= Cardinality(S)
  BY <1>2, FS_Subset
<1>5. tv.next + Cardinality(T) <= MaxId + 1
  <2>1. tv.next \in Nat /\ MaxId \in Nat
    BY RecordTypes, IdsFacts DEF TvInv
  <2>2. QED
    BY <2>1, <1>2, <1>3, <1>4
<1>6. IdsLeft(tv, device'.plugged)
  BY <1>5 DEF IdsLeft, T
<1>7. QED
  BY <1>1, <1>6, OnlyDevice

\* Press and release of buttons.
LEMMA PressKeeps ==
    ASSUME TvInv, Live => LinkOK, UNCHANGED <<bridge, host, stream>>,
           NEW p \in Pads, NEW buttons \in SUBSET Buttons, TV!Press(p, buttons)
    PROVE  TvKept
<1>1. /\ device' \in Device /\ device'.plugged = device.plugged
      /\ UNCHANGED <<tv, control, states>>
  BY DEF TV!Press, TvInv, Device
<1>2. IdsLeft(tv, device'.plugged)
  BY <1>1 DEF TvInv
<1>3. QED
  BY <1>1, <1>2, OnlyDevice

\* The event that a gamepad has come.
LEMMA GamepadConnectedKeeps ==
    ASSUME BridgeInv, TvInv, Live => LinkOK, UNCHANGED <<bridge, host, stream>>,
           NEW p \in Pads, TV!GamepadConnected(p)
    PROVE  TvKept
<1>1. /\ device' \in Device /\ device'.plugged = device.plugged /\ states' = states
      /\ TV!Become(TV!Resumed(tv))
  BY DEF TV!GamepadConnected, TvInv, Device
<1>2. Moves(tv, TV!Resumed(tv))
  BY Resuming DEF TvInv, Device
<1>3. QED
  BY <1>1, <1>2, Becoming DEF TvKept, TvInv

\* The event that a gamepad is gone.
LEMMA GamepadDisconnectedKeeps ==
    ASSUME BridgeInv, TvInv, Live => LinkOK, UNCHANGED <<bridge, host, stream>>,
           NEW p \in Pads, TV!GamepadDisconnected(p)
    PROVE  TvKept
<1> DEFINE u == TV!Unregistered(tv, {p})
<1>1. /\ device' \in Device /\ device'.plugged = device.plugged /\ p \notin device.plugged
      /\ TV!Become(u) /\ \E out \in SUBSET TV!Neutral({p}) : TV!Send(out)
  BY DEF TV!GamepadDisconnected, TvInv, Device
<1>2. states' \in Seq(Sent)
  BY <1>1, NeutralSending
<1>3. Moves(tv, u)
  <2>1. u.next = tv.next /\ TV!Known(u) = TV!Known(tv) \ {p}
    BY Unregistering DEF TvInv
  <2>2. device.plugged \ TV!Known(u) = device.plugged \ TV!Known(tv)
    BY <1>1, <2>1
  <2>3. IdsLeft(u, device.plugged)
    BY <2>1, <2>2 DEF TvInv, IdsLeft
  <2>4. QED
    BY <2>3, UnregisteringMoves DEF TvInv
<1>4. QED
  BY <1>1, <1>2, <1>3, Becoming DEF TvKept

\* A poll looks at the gamepads first, so the states it sends are of announced controllers.
LEMMA PollKeeps ==
    ASSUME BridgeInv, TvInv, Live => LinkOK, UNCHANGED <<bridge, host, stream>>,
           NEW keepalive \in BOOLEAN, NEW sent \in SUBSET Pads, TV!Poll(keepalive, sent)
    PROVE  TvKept
<1> DEFINE e == TV!Enumerated(tv)
           t == TV!WithAllAnnounced(e)
           u == [t EXCEPT !.records = [p \in Pads |->
                   IF p \in sent
                   THEN [t.records[p] EXCEPT !.hasSent = TRUE, !.lastSent = device.held[p]]
                   ELSE t.records[p]]]
           gone == TV!Known(tv) \ device.plugged
           f == [p \in sent |-> [id |-> t.records[p].id, pressed |-> device.held[p]]]
<1>1. /\ TV!Become(u) /\ device' = device /\ sent \subseteq TV!Announced(t)
      /\ \E out \in SUBSET TV!Neutral(gone) : TV!Send(out \cup {f[p] : p \in sent})
  BY DEF TV!Poll
<1>2. Moves(tv, e)
  BY Enumerating DEF TvInv, Device
<1> HIDE DEF e
<1>3. Moves(tv, t)
  BY <1>2, Announcing, MovesRetouched DEF TvInv, Moves
<1> HIDE DEF t
<1>4. t \in Manager /\ RecordsOK(t) /\ \A p \in Pads : t.records[p] \in Record
  BY <1>3, RecordTypes DEF Moves
<1>5. \A p \in Pads : device.held[p] \in SUBSET Buttons
  BY DEF TvInv, Device
<1>6. Retouched(t, u)
  <2> DEFINE rec(p) == [t.records[p] EXCEPT !.hasSent = TRUE, !.lastSent = device.held[p]]
  <2>1. \A p \in Pads : /\ rec(p) \in Record /\ rec(p).announced = t.records[p].announced
                        /\ rec(p).id = t.records[p].id
                        /\ rec(p).mouseMode = t.records[p].mouseMode
    BY <1>4, <1>5 DEF Record
  <2>2. u = [t EXCEPT !.records = [p \in Pads |-> IF p \in sent THEN rec(p) ELSE t.records[p]]]
    OBVIOUS
  <2> HIDE DEF rec, u
  <2>3. /\ u \in Manager /\ u.next = t.next
        /\ \A p \in Pads : u.records[p] = IF p \in sent THEN rec(p) ELSE t.records[p]
    BY <1>4, <2>1, <2>2 DEF Manager
  <2>4. QED
    BY <1>4, <2>1, <2>3, SameAnnounced
<1>7. Moves(tv, u)
  BY <1>3, <1>6, MovesRetouched DEF TvInv
<1>8. states' \in Seq(Sent)
  <2>1. PICK out \in SUBSET TV!Neutral(gone) : TV!Send(out \cup {f[p] : p \in sent})
    BY <1>1
  <2>2. gone \in SUBSET Pads
    BY DEF TV!Known
  <2>3. IsFiniteSet(out) /\ out \subseteq [id : Ids, pressed : SUBSET Buttons]
    BY <2>2, NeutralFacts, FS_Subset
  <2>4. IsFiniteSet({f[p] : p \in sent})
    <3>1. IsFiniteSet(sent) /\ DOMAIN f = sent
      BY PadsFinite
    <3> HIDE DEF f
    <3>2. QED
      BY <3>1, ImageFinite
  <2>5. {f[p] : p \in sent} \subseteq [id : Ids, pressed : SUBSET Buttons]
    <3> SUFFICES ASSUME NEW p \in sent PROVE f[p] \in [id : Ids, pressed : SUBSET Buttons]
      OBVIOUS
    <3>1. t.records[p].id \in Ids
      BY <1>1, <1>4, RecordTypes DEF RecordsOK, TV!Announced
    <3>2. QED
      BY <1>5, <3>1
  <2> HIDE DEF f
  <2>6. IsFiniteSet(out \cup {f[p] : p \in sent})
    BY <2>3, <2>4, FS_Union
  <2>7. QED
    BY <2>1, <2>3, <2>5, <2>6, Sending DEF TvInv
<1>9. device' \in Device /\ device'.plugged = device.plugged
  BY <1>1 DEF TvInv
<1>10. QED
  BY <1>1, <1>7, <1>8, <1>9, Becoming DEF TvKept

\* With the menu open no gamepad changes.
LEMMA MenuRetouches ==
    ASSUME NEW t \in Manager, RecordsOK(t), NEW menu \in BOOLEAN, NEW hidden \in BOOLEAN,
           NEW polling \in BOOLEAN
    PROVE  Retouched(t, [t EXCEPT !.menu = menu, !.hidden = hidden, !.polling = polling])
<1> DEFINE u == [t EXCEPT !.menu = menu, !.hidden = hidden, !.polling = polling]
<1>1. u \in Manager /\ u.next = t.next /\ u.records = t.records
  BY DEF Manager
<1> HIDE DEF u
<1>2. Retouched(t, u)
  BY <1>1, SameAnnounced
<1>3. QED
  BY <1>2 DEF u

\* Opening the menu stops the polling and sends neutral states.
LEMMA OpenMenuKeeps ==
    ASSUME BridgeInv, TvInv, Live => LinkOK, UNCHANGED <<bridge, host, stream>>, TV!OpenMenu
    PROVE  TvKept
<1> DEFINE u == [tv EXCEPT !.menu = TRUE, !.polling = FALSE]
<1>1. /\ device' = device /\ TV!Become(u)
      /\ \E out \in SUBSET TV!Neutral(Pads) : TV!Send(out)
  BY DEF TV!OpenMenu
<1>2. u = [tv EXCEPT !.menu = TRUE, !.hidden = tv.hidden, !.polling = FALSE]
      /\ tv.hidden \in BOOLEAN
  BY DEF TvInv, Manager
<1> HIDE DEF u
<1>3. Retouched(tv, u)
  BY <1>2, MenuRetouches DEF TvInv
<1>4. Moves(tv, u)
  BY <1>3, RetouchingMoves DEF TvInv
<1>5. states' \in Seq(Sent)
  BY <1>1, NeutralSending
<1>6. device' \in Device /\ device'.plugged = device.plugged
  BY <1>1 DEF TvInv
<1>7. QED
  BY <1>1, <1>4, <1>5, <1>6, Becoming DEF TvKept

\* Whatever resumes sending keeps the invariant.
LEMMA ResumeKeeps ==
    ASSUME BridgeInv, TvInv, Live => LinkOK, UNCHANGED <<bridge, host, stream, device, states>>,
           NEW menu \in BOOLEAN, NEW hidden \in BOOLEAN, NEW t,
           t = [tv EXCEPT !.menu = menu, !.hidden = hidden, !.polling = tv.polling],
           TV!Become(TV!Resumed(t))
    PROVE  TvKept
<1>1. Retouched(tv, t)
  BY MenuRetouches DEF TvInv, Manager
<1>2. t \in Manager /\ RecordsOK(t) /\ IdsLeft(t, device.plugged)
  BY <1>1, RetouchedFacts DEF TvInv, IdsLeft
<1>3. Moves(tv, TV!Resumed(t))
  BY <1>1, <1>2, Resuming, RetouchedMoves DEF TvInv, Device
<1>4. QED
  BY <1>3, Becoming DEF TvKept, TvInv

\* Closing the menu resumes.
LEMMA CloseMenuKeeps ==
    ASSUME BridgeInv, TvInv, Live => LinkOK, UNCHANGED <<bridge, host, stream>>, TV!CloseMenu
    PROVE  TvKept
<1>1. /\ UNCHANGED <<device, states>> /\ tv.hidden \in BOOLEAN
      /\ TV!Become(TV!Resumed([tv EXCEPT !.menu = FALSE]))
      /\ [tv EXCEPT !.menu = FALSE]
            = [tv EXCEPT !.menu = FALSE, !.hidden = tv.hidden, !.polling = tv.polling]
  BY DEF TV!CloseMenu, TvInv, Manager
<1>2. QED
  BY <1>1, ResumeKeeps

\* Showing the TV again resumes, unless the menu is open.
LEMMA ShowKeeps ==
    ASSUME BridgeInv, TvInv, Live => LinkOK, UNCHANGED <<bridge, host, stream>>, TV!Show
    PROVE  TvKept
<1>1. /\ UNCHANGED <<device, states>> /\ tv.menu \in BOOLEAN
      /\ TV!Become(TV!Resumed([tv EXCEPT !.hidden = FALSE]))
      /\ [tv EXCEPT !.hidden = FALSE]
            = [tv EXCEPT !.menu = tv.menu, !.hidden = FALSE, !.polling = tv.polling]
  BY DEF TV!Show, TvInv, Manager
<1>2. QED
  BY <1>1, ResumeKeeps

\* Hiding the TV stops the polling and sends neutral states.
LEMMA HideKeeps ==
    ASSUME BridgeInv, TvInv, Live => LinkOK, UNCHANGED <<bridge, host, stream>>, TV!Hide
    PROVE  TvKept
<1> DEFINE n == TV!Unregistered(tv, Pads)
           u == [n EXCEPT !.hidden = TRUE, !.polling = FALSE]
<1>1. /\ device' = device /\ TV!Become(u)
      /\ \E out \in SUBSET TV!Neutral(Pads) : TV!Send(out)
      /\ tv.next + Cardinality(device.plugged) <= MaxId + 1
  BY CardinalityTV DEF TV!Hide
<1>2. n.next = tv.next /\ TV!Known(n) = TV!Known(tv) \ Pads
  BY Unregistering DEF TvInv
<1>3. device.plugged \ TV!Known(n) = device.plugged
  BY <1>2 DEF TV!Known
<1>4. Moves(tv, n)
  BY <1>1, <1>2, <1>3, UnregisteringMoves DEF TvInv, IdsLeft
<1> HIDE DEF n
<1>5. /\ u = [n EXCEPT !.menu = n.menu, !.hidden = TRUE, !.polling = FALSE]
      /\ n.menu \in BOOLEAN
  BY <1>4 DEF Moves, Manager
<1> HIDE DEF u
<1>6. Retouched(n, u)
  BY <1>4, <1>5, MenuRetouches DEF Moves
<1>7. Moves(tv, u)
  BY <1>4, <1>6, MovesRetouched DEF TvInv
<1>8. states' \in Seq(Sent)
  BY <1>1, NeutralSending
<1>9. device' \in Device /\ device'.plugged = device.plugged
  BY <1>1 DEF TvInv
<1>10. QED
  BY <1>1, <1>7, <1>8, <1>9, Becoming DEF TvKept

\* Every step of the TV.
LEMMA TvKeeps == ASSUME LinkInv, TvActs PROVE LinkInv'
<1>1. BridgeInv /\ TvInv /\ (Live => LinkOK)
  BY DEF LinkInv
<1>2. UNCHANGED <<bridge, host, stream>> /\ TV!TvNext
  BY DEF TvActs
<1>3. TvKept
  <2>1. ASSUME NEW p \in Pads, \/ TV!Plug(p) \/ TV!Unplug(p) \/ TV!GamepadConnected(p)
                               \/ TV!GamepadDisconnected(p)
        PROVE  TvKept
    BY <1>1, <1>2, <2>1, PlugKeeps, UnplugKeeps, GamepadConnectedKeeps, GamepadDisconnectedKeeps
  <2>2. ASSUME NEW p \in Pads, NEW buttons \in SUBSET Buttons, TV!Press(p, buttons)
        PROVE  TvKept
    BY <1>1, <1>2, <2>2, PressKeeps
  <2>3. ASSUME NEW keepalive \in BOOLEAN, NEW sent \in SUBSET Pads, TV!Poll(keepalive, sent)
        PROVE  TvKept
    BY <1>1, <1>2, <2>3, PollKeeps
  <2>4. CASE TV!OpenMenu \/ TV!CloseMenu \/ TV!Hide \/ TV!Show
    BY <1>1, <1>2, <2>4, OpenMenuKeeps, CloseMenuKeeps, HideKeeps, ShowKeeps
  <2>5. QED
    BY <1>2, <2>1, <2>2, <2>3, <2>4 DEF TV!TvNext
<1>4. BridgeInv'
  BY <1>1, <1>2 DEF BridgeInv
<1>5. QED
  BY <1>2, <1>3, <1>4 DEF TvKept, TvInv, LinkInv
-----------------------------------------------------------------------------
(***************************************************************************)
(* The steps of the channels and the Gateway.                              *)
(***************************************************************************)
\* A message is a connection or a disconnection.
LEMMA HeadFacts ==
    ASSUME TvInv, control # <<>>
    PROVE  /\ Head(control).id \in Ids /\ Tail(control) \in Seq(Message)
           /\ Head(control).type = "gamepad-connected" =>
                 Head(control) = Connection(Head(control).id)
           /\ Head(control).type = "gamepad-disconnected" =>
                 Head(control) = Disconnection(Head(control).id)
<1>1. Head(control) \in Message /\ Tail(control) \in Seq(Message)
  BY TailFacts DEF TvInv
<1>2. QED
  BY <1>1 DEF Message, Connection, Disconnection

\* A state may be taken from anywhere in its channel, which keeps no order.
LEMMA RemovalTypes ==
    ASSUME NEW s \in Seq(Sent), NEW i \in 1..Len(s)
    PROVE  RemoveAt(s, i) \in Seq(Sent)
<1>1. i - 1 \in 0..Len(s) /\ i + 1 \in 1..Len(s) + 1
  OBVIOUS
<1>2. SubSeq(s, 1, i - 1) \in Seq(Sent) /\ SubSeq(s, i + 1, Len(s)) \in Seq(Sent)
  BY <1>1, SubSeqProperties
<1>3. QED
  BY <1>2 DEF RemoveAt

\* A state in the channel names an id and buttons.
LEMMA StateFacts ==
    ASSUME TvInv, NEW i, i \in DOMAIN states
    PROVE  /\ i \in 1..Len(states)
           /\ states[i].id \in Ids /\ states[i].pressed \in SUBSET Buttons
           /\ states[i].stale \in BOOLEAN
<1>1. i \in 1..Len(states) /\ states[i] \in Sent
  BY ElementOfSeq DEF TvInv
<1>2. QED
  BY <1>1 DEF Sent

\* For the bridge, a step of the link is one of its own operations, or nothing.
LEMMA LinkStep == ASSUME LinkInv, [LinkNext]_linkVars PROVE [BridgeNext]_<<bridge, host>>
<1> USE DEF LinkInv
<1>1. CASE UNCHANGED linkVars
  BY <1>1 DEF linkVars
<1>2. CASE TvActs
  BY <1>2 DEF TvActs
<1>3. ASSUME NEW accepted \in BOOLEAN, ReceiveControl(accepted) PROVE BridgeNext
  BY <1>3, HeadFacts DEF ReceiveControl, BridgeNext
<1>4. ASSUME NEW i \in 1..MaxInFlight, RejectState(i) PROVE BridgeNext
  BY <1>4, StateFacts DEF RejectState, BridgeNext
<1>5. ASSUME NEW i \in 1..MaxInFlight, LoseState(i) PROVE UNCHANGED <<bridge, host>>
  BY <1>5 DEF LoseState
<1>6. ASSUME NEW i \in 1..MaxInFlight, NEW long \in BOOLEAN, AcceptState(i, long)
      PROVE  BridgeNext
  BY <1>6, StateFacts DEF AcceptState, BridgeNext
<1>7. ASSUME NEW c \in Ids, ReceiveMouseMode(c) PROVE BridgeNext
  BY <1>7 DEF ReceiveMouseMode, BridgeNext
<1>8. ASSUME NEW failing \in SUBSET Ids, StreamStarts(failing) PROVE BridgeNext
  BY <1>8 DEF StreamStarts, BridgeNext
<1>9. CASE StreamEnds \/ TransportCloses \/ SessionReleased
  BY <1>9 DEF StreamEnds, TransportCloses, SessionReleased, BridgeNext
<1>10. QED
  BY <1>1, <1>2, <1>3, <1>4, <1>5, <1>6, <1>7, <1>8, <1>9 DEF LinkNext

\* So the bridge's invariant is kept by what is proved of the bridge alone.
LEMMA LinkStepKeepsBridge == ASSUME LinkInv, [LinkNext]_linkVars PROVE BridgeInv'
BY LinkStep, NextKeeps DEF LinkInv

\* The controllers are in different slots, so one less than there are slots leaves one free.
LEMMA FreeSlot ==
    ASSUME BridgeInv, Cardinality(Connected) < SlotCount
    PROVE  Free(bridge) # {}
<1> SUFFICES ASSUME Free(bridge) = {} PROVE FALSE
  OBVIOUS
<1> DEFINE f == [s \in Slots |-> bridge.slotToController[s]]
<1>1. \A s \in Slots : /\ bridge.slotToController[s] \in Ids
                       /\ bridge.controllers[bridge.slotToController[s]].slot = s
  BY DEF Free, BridgeInv, Sound, BridgeType, SlotsOK
<1>2. f \in [Slots -> Connected]
  BY <1>1, SlotFacts DEF Connected
<1>3. f \in Injection(Slots, Connected)
  BY <1>1, <1>2 DEF Injection, IsInjective
<1>4. IsFiniteSet(Connected) /\ Cardinality(Connected) \in Nat
  BY ConnectedFacts, IdsFacts, FS_Subset, FS_CardinalityType
<1>5. Cardinality(Slots) = SlotCount
  BY IdsFacts, InputAssumption, FS_Interval DEF Slots
<1>6. Cardinality(Slots) <= Cardinality(Connected)
  BY <1>3, <1>4, FS_Injection
<1>7. QED
  BY <1>4, <1>5, <1>6, IdsFacts

\* What a step of the channels and the Gateway leaves, with the manager untouched.
LinkKept == TvInv' /\ (Live' => LinkOK')

\* Nothing in the manager has the id of a controller whose disconnection is on its way.
LEMMA DisconnectedForgotten ==
    ASSUME TvInv, ChannelOK(Connected, control, tv), control # <<>>, NEW c \in Ids,
           Head(control) = Disconnection(c)
    PROVE  /\ \A p \in TV!Known(tv) : tv.records[p].id # c
           /\ ~(c >= tv.next)
<1>1. Len(control) \in Nat \ {0} /\ control[1] = Disconnection(c)
  BY TailFacts DEF TvInv
<1>2. Among(Disconnection(c), control, Len(control))
  BY <1>1 DEF Among
<1>3. c \notin TV!AnnouncedIds(tv) /\ ~New(tv, c)
  BY <1>2 DEF ChannelOK, After
<1>4. QED
  BY <1>3 DEF New, TV!AnnouncedIds, TV!Announced, TV!Known

\* The Gateway reads a connection: it finds a slot, the controller is new, in no mouse mode.
LEMMA ConnectReceived ==
    ASSUME BridgeInv, TvInv, LinkOK, control # <<>>, NEW c \in Ids, NEW accepted \in BOOLEAN,
           Head(control) = Connection(c), Connect(c, accepted),
           control' = Tail(control), UNCHANGED <<device, tv, states, stream>>
    PROVE  LinkOK'
<1>1. /\ Connected \in SUBSET Ids /\ control \in Seq(Message)
      /\ ChannelOK(Connected, control, tv) /\ MouseModesOK(bridge, tv) /\ ~bridge.shutdown
  BY ConnectedFacts DEF TvInv, LinkOK
<1>2. c \notin Connected /\ Cardinality(Connected) < SlotCount
  BY <1>1, RoomForConnection
<1>3. bridge.controllers[c] = Absent /\ bridge.controllers[c].slot = NoSlot
  BY <1>2, ConnectedFacts
<1>4. BridgeWithout(bridge, c) = bridge
  BY <1>3 DEF BridgeWithout
<1>5. Free(bridge) # {} /\ LowestFree(bridge) \in Slots
  BY <1>2, FreeSlot, LowestFreeExists
<1> DEFINE k == [Absent EXCEPT !.slot = LowestFree(bridge),
                               !.announced = bridge.active /\ accepted]
<1>6. bridge' = [bridge EXCEPT !.controllers[c] = k,
                               !.slotToController[LowestFree(bridge)] = c,
                               !.mask = @ \cup {LowestFree(bridge)}]
  BY <1>4, <1>5 DEF Connect
<1>7. k.slot # NoSlot /\ k.mouseMode = FALSE
  BY <1>5, SlotFacts DEF Absent
<1> HIDE DEF k
<1>8. /\ bridge'.controllers = [bridge.controllers EXCEPT ![c] = k]
      /\ bridge'.outbox = bridge.outbox /\ bridge'.shutdown = bridge.shutdown
      /\ bridge.controllers \in [Ids -> Controller]
  BY <1>6 DEF BridgeInv, Sound, BridgeType
<1>9. /\ bridge'.controllers[c] = k
      /\ \A d \in Ids \ {c} : bridge'.controllers[d] = bridge.controllers[d]
  BY <1>8
<1>10. Connected' = Connected \cup {c}
  BY <1>7, <1>9 DEF Connected
<1>11. ChannelOK(Connected', control', tv)
  BY <1>1, <1>10, ReadingKeeps
<1>12. MouseModesOK(bridge', tv)
  <2>1. ASSUME NEW p \in TV!Known(tv), NEW d, d = tv.records[p].id
        PROVE  /\ bridge'.controllers[d].slot = NoSlot => bridge'.outbox[d] = <<>>
               /\ bridge'.outbox[d] = <<>>
                     => tv.records[p].mouseMode = bridge'.controllers[d].mouseMode
               /\ bridge'.outbox[d] # <<>>
                     => bridge'.outbox[d][Len(bridge'.outbox[d])] = bridge'.controllers[d].mouseMode
    <3>1. d \in Ids
      BY <2>1, RecordTypes DEF TvInv, TV!Known
    <3>2. CASE d = c
      <4>1. bridge.outbox[d] = <<>> /\ tv.records[p].mouseMode = FALSE
        <5>1. bridge.controllers[d].slot = NoSlot /\ bridge.controllers[d].mouseMode = FALSE
          BY <1>3, <3>2 DEF Absent
        <5>2. bridge.outbox[d] = <<>>
          BY <1>1, <2>1, <5>1 DEF MouseModesOK
        <5>3. QED
          BY <1>1, <2>1, <5>1, <5>2 DEF MouseModesOK
      <4>2. QED
        BY <1>7, <1>8, <1>9, <3>2, <4>1
    <3>3. CASE d # c
      BY <1>1, <1>8, <1>9, <2>1, <3>1, <3>3 DEF MouseModesOK
    <3>4. QED
      BY <3>2, <3>3
  <2>2. QED
    BY <1>1, <1>8, <2>1 DEF MouseModesOK
<1>13. QED
  BY <1>1, <1>8, <1>11, <1>12 DEF LinkOK

\* The Gateway reads a disconnection: the modes under way to the TV are of no gamepad it knows.
LEMMA DisconnectReceived ==
    ASSUME BridgeInv, TvInv, LinkOK, control # <<>>, NEW c \in Ids,
           Head(control) = Disconnection(c), Disconnect(c),
           control' = Tail(control), UNCHANGED <<device, tv, states, stream>>
    PROVE  LinkOK'
<1>1. /\ Connected \in SUBSET Ids /\ control \in Seq(Message)
      /\ ChannelOK(Connected, control, tv) /\ MouseModesOK(bridge, tv) /\ ~bridge.shutdown
  BY ConnectedFacts DEF TvInv, LinkOK
<1>2. /\ bridge \in BridgeType /\ bridge' = BridgeWithout(bridge, c)
      /\ bridge.controllers \in [Ids -> Controller] /\ bridge.outbox \in [Ids -> Seq(BOOLEAN)]
  BY DEF BridgeInv, Sound, BridgeType, Disconnect
<1>3. /\ bridge'.controllers[c].slot = NoSlot /\ bridge'.shutdown = bridge.shutdown
      /\ \A d \in Ids \ {c} : /\ bridge'.controllers[d] = bridge.controllers[d]
                              /\ bridge'.outbox[d] = bridge.outbox[d]
  <2>1. CASE bridge.controllers[c].slot = NoSlot
    BY <1>2, <2>1 DEF BridgeWithout
  <2>2. CASE bridge.controllers[c].slot # NoSlot
    <3>1. /\ bridge'.controllers = [bridge.controllers EXCEPT ![c] = Absent]
          /\ bridge'.shutdown = bridge.shutdown
      BY <1>2, <2>2, WithoutFields
    <3>2. \A d \in Ids \ {c} : bridge'.outbox[d] = bridge.outbox[d]
      BY <1>2, <2>2 DEF BridgeWithout, BridgeType
    <3>3. QED
      BY <1>2, <3>1, <3>2 DEF Absent
  <2>3. QED
    BY <2>1, <2>2
<1>4. Connected' = Connected \ {c}
  BY <1>3 DEF Connected
<1>5. ChannelOK(Connected', control', tv)
  BY <1>1, <1>4, ReadingKeeps
<1>6. MouseModesOK(bridge', tv)
  <2>1. \A p \in TV!Known(tv) : tv.records[p].id \in Ids \ {c}
    BY <1>1, DisconnectedForgotten, RecordTypes DEF TvInv, TV!Known
  <2>2. ~(c >= tv.next)
    BY <1>1, DisconnectedForgotten
  <2>3. QED
    BY <1>1, <1>3, <2>1, <2>2 DEF MouseModesOK
<1>7. QED
  BY <1>1, <1>3, <1>5, <1>6 DEF LinkOK

\* Either, while the channel is open.
LEMMA ReceiveControlKeeps ==
    ASSUME BridgeInv, TvInv, Live => LinkOK, NEW accepted \in BOOLEAN, ReceiveControl(accepted)
    PROVE  LinkKept
<1>1. /\ control # <<>> /\ control' = Tail(control) /\ UNCHANGED <<device, tv, states, stream>>
      /\ \/ Head(control).type = "gamepad-connected" /\ Connect(Head(control).id, accepted)
         \/ Head(control).type = "gamepad-disconnected" /\ Disconnect(Head(control).id)
  BY DEF ReceiveControl
<1>2. TvInv'
  BY <1>1, HeadFacts DEF TvInv
<1>3. ASSUME LinkOK PROVE LinkOK'
  BY <1>1, <1>3, HeadFacts, ConnectReceived, DisconnectReceived
<1>4. QED
  BY <1>1, <1>2, <1>3 DEF LinkKept, Live

\* A state the bridge refuses changes nothing.
LEMMA RejectKeeps ==
    ASSUME TvInv, Live => LinkOK, NEW i, RejectState(i) \/ LoseState(i)
    PROVE  LinkKept
<1>1. /\ i \in DOMAIN states /\ states' = RemoveAt(states, i)
      /\ UNCHANGED <<bridge, device, tv, control, stream>>
  BY DEF RejectState, LoseState, Reject
<1>2. states' \in Seq(Sent)
  BY <1>1, StateFacts, RemovalTypes DEF TvInv
<1>3. QED
  BY <1>1, <1>2 DEF LinkKept, TvInv, Live, LinkOK, Connected

\* A state may begin or end mouse mode, and appends the new mode to what the TV will hear.
LEMMA AcceptKeeps ==
    ASSUME BridgeInv, TvInv, Live => LinkOK, NEW i, NEW long \in BOOLEAN, AcceptState(i, long)
    PROVE  LinkKept
<1> DEFINE c      == states[i].id
           k      == bridge.controllers[c]
           toggle == Start \in k.previous /\ Start \notin states[i].pressed /\ long
           mode   == k.mouseMode # toggle
<1>1. /\ i \in DOMAIN states /\ State(c, states[i].pressed, long)
      /\ UNCHANGED <<device, tv, control, stream>>
  BY DEF AcceptState
<1>2. i \in 1..Len(states) /\ c \in Ids
  BY <1>1, StateFacts
<1>3. states' \in Seq(Sent)
  <2> DEFINE s == [j \in DOMAIN states |-> IF j < i /\ states[j].id = states[i].id
                                           THEN [states[j] EXCEPT !.stale = TRUE] ELSE states[j]]
  <2>1. \A j \in 1..Len(states) : s[j] \in Sent
    <3> SUFFICES ASSUME NEW j \in 1..Len(states) PROVE s[j] \in Sent
      OBVIOUS
    <3>1. states[j] \in Sent
      BY ElementOfSeq DEF TvInv
    <3>2. [states[j] EXCEPT !.stale = TRUE] \in Sent
      BY <3>1 DEF Sent
    <3>3. s[j] = states[j] \/ s[j] = [states[j] EXCEPT !.stale = TRUE]
      <4>1. DOMAIN states = 1..Len(states)
        BY DEF TvInv
      <4>2. j \in DOMAIN states
        BY <4>1
      <4>3. QED
        BY <4>2
    <3> HIDE DEF s
    <3>4. QED
      BY <3>1, <3>2, <3>3
  <2>2. s \in Seq(Sent) /\ Len(s) = Len(states)
    <3>1. DOMAIN states = 1..Len(states) /\ Len(states) \in Nat
      BY DEF TvInv
    <3>2. s \in [1..Len(states) -> Sent]
      BY <2>1, <3>1
    <3> HIDE DEF s
    <3>3. QED
      BY <3>1, <3>2
  <2>3. states' = RemoveAt(s, i)
    BY DEF AcceptState
  <2> HIDE DEF s
  <2>4. QED
    BY <1>2, <2>2, <2>3, RemovalTypes
<1>4. /\ k.slot # NoSlot /\ k \in Controller
      /\ bridge.controllers \in [Ids -> Controller] /\ bridge.outbox \in [Ids -> Seq(BOOLEAN)]
  BY <1>1, <1>2 DEF State, BridgeInv, Sound, BridgeType
<1>5. toggle \in BOOLEAN /\ mode \in BOOLEAN
  OBVIOUS
<1>6. /\ bridge'.shutdown = bridge.shutdown
      /\ bridge'.controllers[c].slot = k.slot /\ bridge'.controllers[c].mouseMode = mode
      /\ bridge'.outbox[c] = IF toggle THEN Append(bridge.outbox[c], mode) ELSE bridge.outbox[c]
      /\ \A d \in Ids \ {c} : /\ bridge'.controllers[d] = bridge.controllers[d]
                              /\ bridge'.outbox[d] = bridge.outbox[d]
  BY <1>1, <1>2, <1>4 DEF State, BridgeInv, Sound, BridgeType, Controller
<1> HIDE DEF mode, toggle
<1>7. Connected' = Connected
  BY <1>2, <1>4, <1>6 DEF Connected
<1>8. ~toggle => mode = k.mouseMode
  BY <1>4 DEF mode, toggle, Controller
<1>9. ASSUME LinkOK PROVE LinkOK'
  <2>1. ChannelOK(Connected', control', tv')
    BY <1>1, <1>7, <1>9 DEF LinkOK
  <2>2. MouseModesOK(bridge', tv)
    <3>1. ~(c >= tv.next)
      BY <1>2, <1>4, <1>9 DEF LinkOK, ChannelOK, New, Connected
    <3>2. ASSUME NEW p \in TV!Known(tv), tv.records[p].id = c
          PROVE  /\ bridge'.controllers[c].slot = NoSlot => bridge'.outbox[c] = <<>>
                 /\ bridge'.outbox[c] = <<>>
                       => tv.records[p].mouseMode = bridge'.controllers[c].mouseMode
                 /\ bridge'.outbox[c] # <<>>
                       => bridge'.outbox[c][Len(bridge'.outbox[c])]
                             = bridge'.controllers[c].mouseMode
      <4>1. CASE toggle
        <5>1. bridge.outbox[c] \in Seq(BOOLEAN)
          BY <1>2, <1>4
        <5>2. bridge'.outbox[c] = Append(bridge.outbox[c], mode)
          BY <1>6, <4>1
        <5>3. bridge'.outbox[c] # <<>> /\ bridge'.outbox[c][Len(bridge'.outbox[c])] = mode
          BY <5>1, <5>2
        <5>4. QED
          BY <1>4, <1>6, <5>3
      <4>2. CASE ~toggle
        BY <1>4, <1>6, <1>8, <1>9, <3>2, <4>2 DEF LinkOK, MouseModesOK
      <4>3. QED
        BY <4>1, <4>2
    <3>3. \A p \in TV!Known(tv) : tv.records[p].id \in Ids
      BY RecordTypes DEF TvInv, TV!Known
    <3>4. QED
      BY <1>6, <1>9, <3>1, <3>2, <3>3 DEF LinkOK, MouseModesOK
  <2>3. QED
    BY <1>1, <1>6, <1>9, <2>1, <2>2 DEF LinkOK
<1>10. QED
  BY <1>1, <1>3, <1>9 DEF LinkKept, TvInv, Live

\* Nothing of the channel depends on the mouse modes shown.
LEMMA SameIds ==
    ASSUME NEW t \in Manager, NEW u \in Manager, RecordsOK(t), u.next = t.next,
           \A p \in Pads : /\ u.records[p].announced = t.records[p].announced
                           /\ u.records[p].id = t.records[p].id
    PROVE  /\ TV!Known(u) = TV!Known(t) /\ RecordsOK(u)
           /\ TV!AnnouncedIds(u) = TV!AnnouncedIds(t)
           /\ \A c : New(u, c) <=> New(t, c)
<1>1. TV!Known(u) = TV!Known(t) /\ TV!Announced(u) = TV!Announced(t)
  BY DEF TV!Known, TV!Announced
<1>2. TV!AnnouncedIds(u) = TV!AnnouncedIds(t)
  BY <1>1 DEF TV!AnnouncedIds, TV!Announced
<1>3. RecordsOK(u)
  BY <1>1 DEF RecordsOK, TV!Known
<1>4. \A c : New(u, c) <=> New(t, c)
  BY DEF New
<1>5. QED
  BY <1>1, <1>2, <1>3, <1>4

\* The TV hears of a mode: the last one under way stays the one it will show.
LEMMA MouseModeKeeps ==
    ASSUME BridgeInv, TvInv, Live => LinkOK, NEW c \in Ids, ReceiveMouseMode(c)
    PROVE  LinkKept
<1> DEFINE box  == bridge.outbox[c]
           mode == Head(box)
<1>1. /\ box # <<>> /\ bridge' = [bridge EXCEPT !.outbox[c] = Tail(@)]
      /\ tv' = [tv EXCEPT !.records = [p \in Pads |->
                   IF tv.records[p].id = c THEN [tv.records[p] EXCEPT !.mouseMode = mode]
                   ELSE tv.records[p]]]
      /\ UNCHANGED <<device, control, states, stream>>
  BY DEF ReceiveMouseMode, WorkerSends, TV!ReceiveMouseMode
<1>2. box \in Seq(BOOLEAN) /\ bridge.outbox \in [Ids -> Seq(BOOLEAN)]
  BY DEF BridgeInv, Sound, BridgeType
<1>3. mode \in BOOLEAN /\ Len(box) \in Nat \ {0}
  BY <1>1, <1>2
<1>4. /\ bridge'.controllers = bridge.controllers /\ bridge'.shutdown = bridge.shutdown
      /\ bridge'.outbox[c] = Tail(box)
      /\ \A d \in Ids \ {c} : bridge'.outbox[d] = bridge.outbox[d]
  BY <1>1 DEF BridgeInv, Sound, BridgeType
<1>5. Tail(box) # <<>> => Tail(box)[Len(Tail(box))] = box[Len(box)]
  BY <1>1, <1>2
<1>6. Tail(box) = <<>> => mode = box[Len(box)]
  <2>1. Len(Tail(box)) = Len(box) - 1 /\ mode = box[1]
    BY <1>1, <1>2
  <2>2. ASSUME Tail(box) = <<>> PROVE Len(box) = 1
    <3>1. Len(Tail(box)) = 0
      <4>1. Len(<<>>) = 0
        BY EmptySeq
      <4>2. QED
        BY <2>2, <4>1, Zenon
    <3>2. QED
      BY <1>3, <2>1, <3>1
  <2>3. QED
    BY <2>1, <2>2
<1> HIDE DEF box, mode
<1>7. \A p \in Pads : /\ tv.records[p] \in Record
                      /\ [tv.records[p] EXCEPT !.mouseMode = mode] \in Record
                      /\ [tv.records[p] EXCEPT !.mouseMode = mode].mouseMode = mode
                      /\ [tv.records[p] EXCEPT !.mouseMode = mode].id = tv.records[p].id
                      /\ [tv.records[p] EXCEPT !.mouseMode = mode].announced
                            = tv.records[p].announced
  BY <1>3, RecordTypes DEF Record, TvInv
<1>8. /\ tv' \in Manager /\ tv'.next = tv.next
      /\ \A p \in Pads : tv'.records[p] = IF tv.records[p].id = c
                                          THEN [tv.records[p] EXCEPT !.mouseMode = mode]
                                          ELSE tv.records[p]
  BY <1>1, <1>7 DEF TvInv, Manager
<1>9. \A p \in Pads : /\ tv'.records[p].id = tv.records[p].id
                      /\ tv'.records[p].announced = tv.records[p].announced
                      /\ tv'.records[p].mouseMode = IF tv.records[p].id = c THEN mode
                                                    ELSE tv.records[p].mouseMode
  BY <1>7, <1>8
<1>10. /\ TV!Known(tv') = TV!Known(tv) /\ RecordsOK(tv')
       /\ TV!AnnouncedIds(tv') = TV!AnnouncedIds(tv)
       /\ \A d : New(tv', d) <=> New(tv, d)
  BY <1>8, <1>9, SameIds DEF TvInv
<1>11. TvInv'
  <2>1. IdsLeft(tv', device.plugged)
    BY <1>8, <1>10 DEF TvInv, IdsLeft
  <2>2. QED
    BY <1>1, <1>8, <1>10, <2>1 DEF TvInv
<1>12. ASSUME LinkOK PROVE LinkOK'
  <2>1. Connected' = Connected
    BY <1>4 DEF Connected
  <2>2. ChannelOK(Connected, control, tv')
    BY <1>10, <1>12 DEF LinkOK, ChannelOK
  <2>3. \A d \in Ids : d >= tv'.next => bridge'.outbox[d] = <<>>
    <3>1. ~(c >= tv.next)
      BY <1>1, <1>12 DEF LinkOK, MouseModesOK, box
    <3>2. QED
      BY <1>4, <1>8, <1>12, <3>1 DEF LinkOK, MouseModesOK
  <2>4. ASSUME NEW p \in TV!Known(tv), NEW d, d = tv.records[p].id
        PROVE  /\ bridge'.controllers[d].slot = NoSlot => bridge'.outbox[d] = <<>>
               /\ bridge'.outbox[d] = <<>>
                     => tv'.records[p].mouseMode = bridge'.controllers[d].mouseMode
               /\ bridge'.outbox[d] # <<>>
                     => bridge'.outbox[d][Len(bridge'.outbox[d])] = bridge'.controllers[d].mouseMode
    <3>1. d \in Ids /\ p \in Pads
      BY <2>4, RecordTypes DEF TvInv, TV!Known
    <3>2. /\ bridge.controllers[d].slot = NoSlot => bridge.outbox[d] = <<>>
          /\ bridge.outbox[d] = <<>> => tv.records[p].mouseMode = bridge.controllers[d].mouseMode
          /\ bridge.outbox[d] # <<>>
                => bridge.outbox[d][Len(bridge.outbox[d])] = bridge.controllers[d].mouseMode
      BY <1>12, <2>4 DEF LinkOK, MouseModesOK
    <3>3. CASE d = c
      <4>1. box = bridge.outbox[d]
        BY <3>3 DEF box
      <4>2. box[Len(box)] = bridge.controllers[d].mouseMode /\ bridge.controllers[d].slot # NoSlot
        BY <1>1, <3>2, <4>1
      <4>3. tv'.records[p].mouseMode = mode
        BY <1>9, <2>4, <3>1, <3>3
      <4>4. QED
        BY <1>4, <1>5, <1>6, <3>3, <4>2, <4>3
    <3>4. CASE d # c
      BY <1>4, <1>9, <2>4, <3>1, <3>2, <3>4
    <3>5. QED
      BY <3>3, <3>4
  <2>5. MouseModesOK(bridge', tv')
    BY <1>9, <1>10, <2>3, <2>4 DEF MouseModesOK, TV!Known
  <2>6. QED
    BY <1>1, <1>4, <1>12, <2>1, <2>2, <2>5 DEF LinkOK
<1>13. QED
  BY <1>1, <1>11, <1>12 DEF LinkKept, Live

\* The stream starts, and a controller whose arrival the host refuses stays connected.
LEMMA StreamStartsKeeps ==
    ASSUME BridgeInv, TvInv, Live => LinkOK, NEW failing \in SUBSET Ids, StreamStarts(failing)
    PROVE  LinkKept
<1>1. /\ Activate(failing) /\ UNCHANGED <<device, tv, control, states>>
      /\ stream = "starting" /\ stream' = "on"
  BY DEF StreamStarts
<1>2. /\ bridge'.shutdown = bridge.shutdown /\ bridge'.outbox = bridge.outbox
      /\ \A c \in Ids : /\ bridge'.controllers[c].slot = bridge.controllers[c].slot
                        /\ bridge'.controllers[c].mouseMode = bridge.controllers[c].mouseMode
  <2> DEFINE arrived == {c \in Connected : ~bridge.controllers[c].announced} \ failing
  <2>1. bridge' = [bridge EXCEPT !.active = TRUE,
                      !.controllers = [c \in Ids |->
                          IF c \in arrived THEN [bridge.controllers[c] EXCEPT !.announced = TRUE]
                          ELSE bridge.controllers[c]]]
    BY <1>1 DEF Activate
  <2> HIDE DEF arrived
  <2>2. /\ bridge'.shutdown = bridge.shutdown /\ bridge'.outbox = bridge.outbox
        /\ \A c \in Ids : bridge'.controllers[c] =
              IF c \in arrived THEN [bridge.controllers[c] EXCEPT !.announced = TRUE]
              ELSE bridge.controllers[c]
    BY <2>1 DEF BridgeInv, Sound, BridgeType
  <2>3. \A c \in Ids : bridge.controllers[c] \in Controller
    BY DEF BridgeInv, Sound, BridgeType
  <2>4. QED
    BY <2>2, <2>3, AnnouncedController
<1>3. Connected' = Connected
  BY <1>2 DEF Connected
<1>4. LinkOK
  BY <1>1 DEF Live
<1>5. MouseModesOK(bridge', tv)
  <2>1. \A p \in TV!Known(tv) : tv.records[p].id \in Ids
    BY RecordTypes DEF TvInv, TV!Known
  <2>2. QED
    BY <1>2, <1>4, <2>1 DEF LinkOK, MouseModesOK
<1>6. LinkOK'
  BY <1>1, <1>2, <1>3, <1>4, <1>5 DEF LinkOK
<1>7. QED
  BY <1>1, <1>6 DEF LinkKept, TvInv

\* When the stream is over nothing is claimed of the channel.
LEMMA EndingKeeps ==
    ASSUME TvInv, Live => LinkOK, StreamEnds \/ TransportCloses \/ SessionReleased
    PROVE  LinkKept
<1>1. ~Live'
  BY DEF StreamEnds, TransportCloses, SessionReleased, Live
<1>2. /\ UNCHANGED <<device, tv>>
      /\ control' = control \/ control' = <<>>
      /\ states' = states \/ states' = <<>>
  BY DEF StreamEnds, TransportCloses, SessionReleased
<1>3. TvInv'
  BY <1>2, EmptySeq DEF TvInv
<1>4. QED
  BY <1>1, <1>3 DEF LinkKept
-----------------------------------------------------------------------------
\* Initially.
LEMMA InitInv == LinkInit => LinkInv
<1> SUFFICES ASSUME LinkInit PROVE LinkInv
  OBVIOUS
<1>1. BridgeInv /\ stream = "starting" /\ TV!TvInit
  BY InitSound DEF LinkInit
<1>2. /\ device = [plugged |-> {}, event |-> {}, held |-> [p \in Pads |-> {}]]
      /\ tv = [records |-> [p \in Pads |-> TV!NoRecord], next |-> 1,
               hidden |-> FALSE, menu |-> FALSE, polling |-> TRUE]
      /\ control = <<>> /\ states = <<>>
  BY <1>1 DEF TV!TvInit
<1>3. device \in Device /\ device.plugged = {}
  BY <1>2 DEF Device
<1>4. tv \in Manager /\ tv.next = 1 /\ \A p \in Pads : tv.records[p] = TV!NoRecord
  BY <1>2, NoRecordType, IdsFacts DEF Manager
<1>5. TV!Known(tv) = {} /\ TV!AnnouncedIds(tv) = {}
  BY <1>4, NoRecordType DEF TV!Known, TV!AnnouncedIds, TV!Announced
<1>6. Cardinality({}) = 0
  BY FS_EmptySet
<1>7. RecordsOK(tv)
  BY <1>4, <1>5, <1>6, NoRecordType, IdsFacts DEF RecordsOK
<1>8. IdsLeft(tv, device.plugged)
  <2>1. device.plugged \ TV!Known(tv) = {}
    BY <1>3
  <2>2. QED
    BY <1>4, <1>6, <2>1, IdsFacts DEF IdsLeft
<1>9. control \in Seq(Message) /\ states \in Seq(Sent) /\ Len(control) = 0
  BY <1>2
<1>10. Connected = {} /\ ~bridge.shutdown /\ \A c \in Ids : bridge.outbox[c] = <<>>
  BY <1>1 DEF LinkInit, BridgeInit, Connected, Absent
<1>11. ChannelOK(Connected, control, tv)
  <2>1. \A m, k : k \in 0..0 => ~Among(m, control, k)
    BY DEF Among
  <2>2. \A k \in 0..0 : After({}, control, k) = {}
    BY <2>1 DEF After
  <2>3. \A i : i \notin 1..Len(control)
    BY <1>9
  <2>4. After(Connected, control, Len(control)) = TV!AnnouncedIds(tv)
    BY <1>5, <1>9, <1>10, <2>2
  <2>5. \A k \in 0..Len(control) : Cardinality(After(Connected, control, k)) <= SlotCount
    <3> SUFFICES ASSUME NEW k \in 0..Len(control)
                 PROVE  Cardinality(After(Connected, control, k)) <= SlotCount
      OBVIOUS
    <3>1. After(Connected, control, k) = {}
      BY <1>9, <1>10, <2>2
    <3>2. Cardinality(After(Connected, control, k)) = 0
      BY <1>6, <3>1
    <3>3. QED
      BY <3>2, IdsFacts
  <2>6. \A m : ~Among(m, control, Len(control))
    BY <1>9, <2>1
  <2>7. QED
    BY <1>10, <2>3, <2>4, <2>5, <2>6 DEF ChannelOK
<1>12. MouseModesOK(bridge, tv)
  BY <1>5, <1>10 DEF MouseModesOK
<1>13. QED
  BY <1>1, <1>3, <1>4, <1>7, <1>8, <1>9, <1>10, <1>11, <1>12 DEF LinkInv, TvInv, LinkOK

\* Every step.
LEMMA LinkNextKeeps == LinkInv /\ [LinkNext]_linkVars => LinkInv'
<1> SUFFICES ASSUME LinkInv, [LinkNext]_linkVars PROVE LinkInv'
  OBVIOUS
<1>1. BridgeInv'
  BY LinkStepKeepsBridge
<1>2. BridgeInv /\ TvInv /\ (Live => LinkOK) /\ stream \in {"starting", "on", "over", "closed"}
  BY DEF LinkInv
<1>3. CASE TvActs
  BY <1>3, TvKeeps
<1>4. ASSUME LinkKept, stream' \in {"starting", "on", "over", "closed"} PROVE LinkInv'
  BY <1>1, <1>4 DEF LinkKept, LinkInv
<1>5. ASSUME NEW accepted \in BOOLEAN, ReceiveControl(accepted) PROVE LinkInv'
  <2>1. stream' = stream
    BY <1>5 DEF ReceiveControl
  <2>2. QED
    BY <1>2, <1>4, <1>5, <2>1, ReceiveControlKeeps
<1>6. ASSUME NEW i \in 1..MaxInFlight, RejectState(i) \/ LoseState(i) PROVE LinkInv'
  <2>1. stream' = stream
    BY <1>6 DEF RejectState, LoseState
  <2>2. QED
    BY <1>2, <1>4, <1>6, <2>1, RejectKeeps
<1>7. ASSUME NEW i \in 1..MaxInFlight, NEW long \in BOOLEAN, AcceptState(i, long) PROVE LinkInv'
  <2>1. stream' = stream
    BY <1>7 DEF AcceptState
  <2>2. QED
    BY <1>2, <1>4, <1>7, <2>1, AcceptKeeps
<1>8. ASSUME NEW c \in Ids, ReceiveMouseMode(c) PROVE LinkInv'
  <2>1. stream' = stream
    BY <1>8 DEF ReceiveMouseMode
  <2>2. QED
    BY <1>2, <1>4, <1>8, <2>1, MouseModeKeeps
<1>9. ASSUME NEW failing \in SUBSET Ids, StreamStarts(failing) PROVE LinkInv'
  <2>1. stream' = "on"
    BY <1>9 DEF StreamStarts
  <2>2. QED
    BY <1>2, <1>4, <1>9, <2>1, StreamStartsKeeps
<1>10. CASE StreamEnds \/ TransportCloses \/ SessionReleased
  <2>1. stream' \in {"starting", "on", "over", "closed"}
    BY <1>2, <1>10 DEF StreamEnds, TransportCloses, SessionReleased
  <2>2. QED
    BY <1>2, <1>4, <1>10, <2>1, EndingKeeps
<1>11. CASE UNCHANGED linkVars
  <2>1. /\ UNCHANGED <<bridge, host, device, tv, control, states, stream>>
        /\ Connected' = Connected
    BY <1>11 DEF linkVars, Connected
  <2>2. LinkKept
    BY <1>2, <2>1 DEF LinkKept, TvInv, Live, LinkOK
  <2>3. QED
    BY <1>2, <1>4, <2>1, <2>2
<1>12. QED
  BY <1>3, <1>5, <1>6, <1>7, <1>8, <1>9, <1>10, <1>11 DEF LinkNext

\* The invariant holds whenever a session runs, whatever gamepads and messages do.
THEOREM LinkInvariant == LinkSpec => []LinkInv
BY InitInv, LinkNextKeeps, PTL DEF LinkSpec

\* With nothing under way, what will be is what is.
LEMMA LinkInvImplies == LinkInv => LinkTypeOK /\ ControllersAgree /\ MouseModeShown
<1> SUFFICES ASSUME LinkInv PROVE LinkTypeOK /\ ControllersAgree /\ MouseModeShown
  OBVIOUS
<1>1. LinkTypeOK
  BY LinkTypes, InvImplies DEF LinkInv, TvInv
<1>2. ASSUME Live, control = <<>> PROVE Connected = TV!AnnouncedIds(tv)
  <2>1. After(Connected, control, Len(control)) = TV!AnnouncedIds(tv)
    BY <1>2 DEF LinkInv, LinkOK, ChannelOK
  <2>2. Len(control) = 0 /\ \A m : ~Among(m, control, 0)
    BY <1>2 DEF Among
  <2>3. After(Connected, control, 0) = Connected
    BY <2>2, ConnectedFacts DEF After, LinkInv
  <2>4. QED
    BY <2>1, <2>2, <2>3
<1>3. ASSUME Live, NEW p \in TV!Announced(tv), bridge.outbox[tv.records[p].id] = <<>>
      PROVE  tv.records[p].mouseMode = bridge.controllers[tv.records[p].id].mouseMode
  <2>1. p \in TV!Known(tv)
    BY DEF LinkInv, TvInv, RecordsOK, TV!Known, TV!Announced
  <2>2. QED
    BY <1>3, <2>1 DEF LinkInv, LinkOK, MouseModesOK
<1>4. QED
  BY <1>1, <1>2, <1>3 DEF ControllersAgree, MouseModeShown, Live

\* Every variable of the session, the TV's and the bridge's, keeps its type.
THEOREM LinkTypeCorrect == LinkSpec => []LinkTypeOK
BY LinkInvariant, LinkInvImplies, PTL

\* However gamepads come and go, with the TV hidden or the menu open, the Gateway has
\* exactly the controllers the TV has announced once it has read all messages.
THEOREM ControllersAlwaysAgree == LinkSpec => []ControllersAgree
BY LinkInvariant, LinkInvImplies, PTL

\* The TV shows mouse mode for exactly the controllers that are in it.
THEOREM MouseModeAlwaysShown == LinkSpec => []MouseModeShown
BY LinkInvariant, LinkInvImplies, PTL

\* Behind the channels the bridge still behaves as InputBridge says by itself, so what is
\* proved of it there holds in a session.
THEOREM LinkImplementsBridge == LinkSpec => BridgeSpec
<1>1. LinkInit => BridgeInit
  BY DEF LinkInit
<1>2. LinkInv /\ [LinkNext]_linkVars => [BridgeNext]_<<bridge, host>>
  BY LinkStep
<1>3. QED
  BY <1>1, <1>2, LinkInvariant, PTL DEF LinkSpec, BridgeSpec
=============================================================================
