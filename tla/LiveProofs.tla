----------------------------- MODULE LiveProofs -----------------------------
(***************************************************************************)
(* Proofs about live updates: whom the gateway lets into its private       *)
(* rooms, which rooms the browser's socket ends up in, and that what a     *)
(* page is told of shows once it has settled.                              *)
(***************************************************************************)
EXTENDS LiveUpdates, SumLemmas, SequenceTheorems

-----------------------------------------------------------------------------
(* Types. *)

Rooms == {ACTIVITY_ROOM} \cup {campaignRoom(id) : id \in Campaigns}
                         \cup {notificationsRoom(sub) : sub \in Subs}

Socket == [open : BOOLEAN, token : Handshakes, rooms : SUBSET Rooms]

GatewayType == now \in Nat /\ sockets \in [Clients -> Socket]

Packets == {"subscribe_campaign", "unsubscribe_campaign"} \X Campaigns
Events  == Campaigns \X Nat
Query   == [data : Nat \cup {None}, invalidated : BOOLEAN, old : BOOLEAN,
            fetching : Nat \cup {None}]

LiveType ==
  /\ GatewayType
  /\ chain \in [Campaigns -> Nat] /\ rows \in [Campaigns -> Nat]
  /\ emitting \in Events \cup {NoEvent}
  /\ up \in Seq(Packets) /\ down \in Seq(Events)
  /\ roomRefCounts \in [Campaigns -> Nat]
  /\ cache \in [Campaigns -> Query]
  /\ told \in [Campaigns -> Nat]

-----------------------------------------------------------------------------
(* The gateway. *)

\* A handshake carries a token or none.
LEMMA HandshakeTypes ==
  /\ NoToken \in Handshakes /\ ~NoToken.given
  /\ \A t \in Handshakes : t.given => t \in Tokens
  /\ Closed \in Socket /\ Closed.rooms = {} /\ ~Closed.open
<1>1. NoToken \in Handshakes /\ ~NoToken.given
  BY DEF Handshakes, NoToken
<1>2. \A t \in Handshakes : t.given => t \in Tokens
  BY <1>1 DEF Handshakes
<1>3. Closed = [open |-> FALSE, token |-> NoToken, rooms |-> {}]
  BY DEF Closed
<1>4. QED
  BY <1>1, <1>2, <1>3 DEF Socket

\* The rooms of campaigns, of the activity and of principals are different rooms.
LEMMA RoomsDiffer ==
  \A id, other, sub, sub2 :
    /\ campaignRoom(id) = campaignRoom(other) => id = other
    /\ notificationsRoom(sub) = notificationsRoom(sub2) => sub = sub2
    /\ campaignRoom(id) # notificationsRoom(sub)
    /\ notificationsRoom(sub) # ACTIVITY_ROOM
  BY DEF campaignRoom, notificationsRoom, ACTIVITY_ROOM

\* Joining or leaving a room changes that one socket's rooms, and opening or closing a
\* socket empties them.
LEMMA RoomSteps ==
  ASSUME GatewayType, NEW c \in Clients
  PROVE  /\ \A room \in Rooms :
              Join(c, room) => sockets' = [sockets EXCEPT ![c] =
                                 [open |-> TRUE, token |-> sockets[c].token,
                                  rooms |-> sockets[c].rooms \cup {room}]]
         /\ \A room \in Rooms :
              Leave(c, room) => sockets' = [sockets EXCEPT ![c] =
                                  [open |-> TRUE, token |-> sockets[c].token,
                                   rooms |-> sockets[c].rooms \ {room}]]
<1>0. sockets[c] \in Socket
  BY DEF GatewayType
<1>1. ASSUME NEW rs, sockets[c].open
      PROVE  [sockets EXCEPT ![c].rooms = rs] =
               [sockets EXCEPT ![c] = [open |-> TRUE, token |-> sockets[c].token, rooms |-> rs]]
  <2>1. [sockets[c] EXCEPT !.rooms = rs] =
          [open |-> TRUE, token |-> sockets[c].token, rooms |-> rs]
    <3>1. sockets[c].open = TRUE
      BY <1>0, <1>1 DEF Socket
    <3>2. PICK o, t, r : sockets[c] = [open |-> o, token |-> t, rooms |-> r]
      BY <1>0 DEF Socket
    <3>3. sockets[c].open = o /\ sockets[c].token = t
      BY <3>2
    <3>4. [[open |-> o, token |-> t, rooms |-> r] EXCEPT !.rooms = rs] =
            [open |-> o, token |-> t, rooms |-> rs]
      OBVIOUS
    <3>5. QED
      BY <3>1, <3>2, <3>3, <3>4
  <2>2. QED
    BY <2>1
<1>2. QED
  BY <1>1 DEF Join, Leave, SetRooms

\* What another client does keeps the types, and the browser's socket.
LEMMA OthersKeep ==
  ASSUME GatewayType, NEW c \in Clients, OtherClientStep(c)
  PROVE  /\ sockets' \in [Clients -> Socket]
         /\ \A d \in Clients \ {c} : sockets'[d] = sockets[d]
<1>0. sockets \in [Clients -> Socket] /\ sockets[c] \in Socket
  BY DEF GatewayType
<1>1. ASSUME NEW s \in Socket, sockets' = [sockets EXCEPT ![c] = s]
      PROVE  /\ sockets' \in [Clients -> Socket]
             /\ \A d \in Clients \ {c} : sockets'[d] = sockets[d]
  BY <1>0, <1>1
<1>2. ASSUME NEW token \in Handshakes, HandleConnection(c, token)
      PROVE  \E s \in Socket : sockets' = [sockets EXCEPT ![c] = s]
  BY <1>2 DEF HandleConnection, Socket
<1>3. ASSUME Disconnect(c)
      PROVE  \E s \in Socket : sockets' = [sockets EXCEPT ![c] = s]
  BY <1>3, HandshakeTypes DEF Disconnect
<1>4. ASSUME NEW room \in Rooms, Join(c, room) \/ Leave(c, room)
      PROVE  \E s \in Socket : sockets' = [sockets EXCEPT ![c] = s]
  <2>1. /\ [open |-> TRUE, token |-> sockets[c].token,
            rooms |-> sockets[c].rooms \cup {room}] \in Socket
        /\ [open |-> TRUE, token |-> sockets[c].token,
            rooms |-> sockets[c].rooms \ {room}] \in Socket
    BY <1>0 DEF Socket
  <2>2. QED
    BY <1>4, <2>1, RoomSteps
<1>5. ACTIVITY_ROOM \in Rooms
  BY DEF Rooms
<1>6. ASSUME CanActivate(sockets[c].token)
      PROVE  notificationsRoom(sockets[c].token.sub) \in Rooms
  <2>1. sockets[c].token \in Tokens
    BY <1>0, <1>6, HandshakeTypes DEF CanActivate, MayUsePrivateRooms, verifyWsToken, Socket
  <2>2. sockets[c].token.sub \in Subs
    BY <2>1 DEF Tokens
  <2>3. QED
    BY <2>2 DEF Rooms
<1>7. QED
  BY <1>1, <1>2, <1>3, <1>4, <1>5, <1>6
     DEF OtherClientStep, SubscribeNotifications, UnsubscribeNotifications

\* What the private rooms ask of a step.
EntersWithLiveToken ==
  \A c \in Clients, sub \in Subs :
    LET room == notificationsRoom(sub)
        token == sockets'[c].token
    IN room \in sockets'[c].rooms /\ room \notin sockets[c].rooms
       => token.genuine /\ now < token.exp /\ sub = token.sub
          /\ NOTIFICATIONS_READ_SCOPE \in token.scopes

\* Only a subscription that the guard has let through enters a private room.
LEMMA OthersEnterWithLiveToken ==
  ASSUME GatewayType, NEW c \in Clients, OtherClientStep(c)
  PROVE  EntersWithLiveToken
<1>0. sockets \in [Clients -> Socket] /\ sockets[c] \in Socket
  BY DEF GatewayType
<1>1. \A d \in Clients \ {c} : sockets'[d] = sockets[d]
  BY OthersKeep
<1>2. SUFFICES ASSUME NEW sub \in Subs, notificationsRoom(sub) \in sockets'[c].rooms,
                      notificationsRoom(sub) \notin sockets[c].rooms
               PROVE  /\ sockets'[c].token.genuine /\ now < sockets'[c].token.exp
                      /\ sub = sockets'[c].token.sub
                      /\ NOTIFICATIONS_READ_SCOPE \in sockets'[c].token.scopes
  BY <1>1 DEF EntersWithLiveToken
<1>3. ASSUME NEW token \in Handshakes, HandleConnection(c, token) PROVE FALSE
  BY <1>0, <1>2, <1>3 DEF HandleConnection
<1>4. ASSUME Disconnect(c) PROVE FALSE
  BY <1>0, <1>2, <1>4, HandshakeTypes DEF Disconnect
<1>5. ASSUME NEW room \in Rooms, Leave(c, room) PROVE FALSE
  BY <1>0, <1>2, <1>5, RoomSteps
<1>6. ASSUME Join(c, ACTIVITY_ROOM) PROVE FALSE
  <2>1. ACTIVITY_ROOM \in Rooms
    BY DEF Rooms
  <2>2. sockets'[c].rooms = sockets[c].rooms \cup {ACTIVITY_ROOM}
    BY <1>0, <1>6, <2>1, RoomSteps
  <2>3. QED
    BY <1>2, <2>2, RoomsDiffer
<1>7. ASSUME CanActivate(sockets[c].token)
      PROVE  /\ notificationsRoom(sockets[c].token.sub) \in Rooms
             /\ sockets[c].token.genuine /\ now < sockets[c].token.exp
             /\ NOTIFICATIONS_READ_SCOPE \in sockets[c].token.scopes
  <2>1. sockets[c].token \in Tokens
    BY <1>0, <1>7, HandshakeTypes DEF CanActivate, MayUsePrivateRooms, verifyWsToken, Socket
  <2>2. sockets[c].token.sub \in Subs
    BY <2>1 DEF Tokens
  <2>3. QED
    BY <1>7, <2>2 DEF Rooms, CanActivate, MayUsePrivateRooms, verifyWsToken
<1>8. CASE SubscribeNotifications(c)
  <2> DEFINE room == notificationsRoom(sockets[c].token.sub)
  <2>1. CanActivate(sockets[c].token) /\ Join(c, room)
    BY <1>8 DEF SubscribeNotifications
  <2>2. room \in Rooms
    BY <1>7, <2>1
  <2>3. sockets'[c].token = sockets[c].token /\ sockets'[c].rooms = sockets[c].rooms \cup {room}
    BY <1>0, <2>1, <2>2, RoomSteps
  <2>4. notificationsRoom(sub) = room
    BY <1>2, <2>3
  <2>5. sub = sockets[c].token.sub
    BY <2>4, RoomsDiffer
  <2>6. QED
    BY <1>7, <2>1, <2>3, <2>5
<1>9. QED
  <2>1. ACTIVITY_ROOM \in Rooms
    BY DEF Rooms
  <2>2. QED
    BY <1>3, <1>4, <1>5, <1>6, <1>7, <1>8, <2>1 DEF OtherClientStep, UnsubscribeNotifications

-----------------------------------------------------------------------------
(* What the packets under way will make of the rooms.                        *)

\* The last packet about a campaign is the one its pages ask for.
LastWord(packets, id, mounted) ==
  \E i \in DOMAIN packets :
    /\ packets[i] = IF mounted THEN Subscribe(id) ELSE Unsubscribe(id)
    /\ \A j \in DOMAIN packets : j > i => packets[j][2] # id

\* Without such a packet, the room is already as its pages ask.
Follows(packets, rooms, id, mounted) ==
  \/ LastWord(packets, id, mounted)
  \/ /\ \A j \in DOMAIN packets : packets[j][2] # id
     /\ campaignRoom(id) \in rooms <=> mounted

\* A packet names its campaign, and its kind tells it apart.
LEMMA PacketParts ==
  ASSUME NEW id \in Campaigns
  PROVE  /\ Subscribe(id) \in Packets /\ Unsubscribe(id) \in Packets
         /\ Subscribe(id)[2] = id /\ Unsubscribe(id)[2] = id
         /\ Unsubscribe(id)[1] = "unsubscribe_campaign"
         /\ Subscribe(id) # Unsubscribe(id)
         /\ \A p \in Packets : p[2] = id => p = Subscribe(id) \/ p = Unsubscribe(id)
<1>1. \A p \in Packets : p = <<p[1], p[2]>> /\ p[2] \in Campaigns
                         /\ p[1] \in {"subscribe_campaign", "unsubscribe_campaign"}
  BY DEF Packets
<1>2. \A p \in Packets : p[2] = id => p = Subscribe(id) \/ p = Unsubscribe(id)
  BY <1>1 DEF Subscribe, Unsubscribe
<1>3. QED
  BY <1>2 DEF Subscribe, Unsubscribe, Packets

\* A packet about another campaign changes nothing for this one.
LEMMA OtherPacket ==
  ASSUME NEW packets \in Seq(Packets), NEW p \in Packets, NEW rooms, NEW id, NEW mounted,
         Follows(packets, rooms, id, mounted), p[2] # id
  PROVE  Follows(Append(packets, p), rooms, id, mounted)
<1> DEFINE q == Append(packets, p)
           n == Len(packets)
<1>1. /\ n \in Nat /\ DOMAIN packets = 1..n /\ DOMAIN q = 1..(n + 1)
      /\ \A i \in 1..n : q[i] = packets[i]
      /\ q[n + 1] = p
  BY LenProperties, AppendProperties
<1> HIDE DEF q, n
<1>2. CASE LastWord(packets, id, mounted)
  <2>1. PICK i \in 1..n : /\ packets[i] = IF mounted THEN Subscribe(id) ELSE Unsubscribe(id)
                          /\ \A j \in 1..n : j > i => packets[j][2] # id
    BY <1>1, <1>2 DEF LastWord
  <2>2. i \in DOMAIN q /\ q[i] = packets[i]
    BY <1>1
  <2>3. ASSUME NEW j \in DOMAIN q, j > i PROVE q[j][2] # id
    <3>1. CASE j \in 1..n
      BY <1>1, <2>1, <2>3, <3>1
    <3>2. CASE j = n + 1
      BY <1>1, <3>2
    <3>3. QED
      BY <1>1, <3>1, <3>2
  <2>4. LastWord(q, id, mounted)
    BY <2>1, <2>2, <2>3 DEF LastWord
  <2>5. QED
    BY <2>4 DEF Follows, q
<1>3. CASE /\ \A j \in DOMAIN packets : packets[j][2] # id
           /\ campaignRoom(id) \in rooms <=> mounted
  <2>1. ASSUME NEW j \in DOMAIN q PROVE q[j][2] # id
    <3>1. CASE j \in 1..n
      BY <1>1, <1>3, <3>1
    <3>2. CASE j = n + 1
      BY <1>1, <3>2
    <3>3. QED
      BY <1>1, <3>1, <3>2
  <2>2. QED
    BY <1>3, <2>1 DEF Follows, q
<1>4. QED
  BY <1>2, <1>3 DEF Follows

\* The packet just sent is the last word.
LEMMA OwnPacket ==
  ASSUME NEW packets \in Seq(Packets), NEW id \in Campaigns, NEW rooms, NEW mounted,
         NEW p \in Packets, p = IF mounted THEN Subscribe(id) ELSE Unsubscribe(id)
  PROVE  Follows(Append(packets, p), rooms, id, mounted)
<1> DEFINE q == Append(packets, p)
           n == Len(packets)
<1>1. /\ n \in Nat /\ DOMAIN q = 1..(n + 1) /\ q[n + 1] = p
  BY LenProperties, AppendProperties
<1> HIDE DEF q, n
<1>2. n + 1 \in DOMAIN q /\ \A j \in DOMAIN q : ~(j > n + 1)
  BY <1>1
<1>3. LastWord(q, id, mounted)
  BY <1>1, <1>2 DEF LastWord
<1>4. QED
  BY <1>3 DEF Follows, q

\* The server takes the first packet and does what it says.
LEMMA FirstPacket ==
  ASSUME NEW packets \in Seq(Packets), packets # <<>>, NEW id \in Campaigns,
         NEW mounted, NEW rooms, NEW newRooms, Follows(packets, rooms, id, mounted),
         Head(packets) = Subscribe(id) => campaignRoom(id) \in newRooms,
         Head(packets) = Unsubscribe(id) => campaignRoom(id) \notin newRooms,
         Head(packets)[2] # id => (campaignRoom(id) \in newRooms <=> campaignRoom(id) \in rooms)
  PROVE  Follows(Tail(packets), newRooms, id, mounted)
<1> DEFINE q == Tail(packets)
           n == Len(packets)
<1>1. /\ n \in Nat /\ DOMAIN packets = 1..n
      /\ q \in Seq(Packets) /\ DOMAIN q = 1..(n - 1)
      /\ \A i \in 1..(n - 1) : q[i] = packets[i + 1]
      /\ n > 0 /\ Head(packets) = packets[1] /\ Head(packets) \in Packets
  <2>1. /\ Head(packets) \in Packets /\ q \in Seq(Packets) /\ Len(q) = n - 1
        /\ \A i \in 1..Len(q) : q[i] = packets[i + 1]
    BY HeadTailProperties
  <2>2. n \in Nat /\ DOMAIN packets = 1..n /\ DOMAIN q = 1..Len(q) /\ Len(q) \in Nat
    BY <2>1, LenProperties
  <2>3. Head(packets) = packets[1]
    BY DEF Head
  <2>4. QED
    BY <2>1, <2>2, <2>3
<1> HIDE DEF q, n
<1>2. CASE LastWord(packets, id, mounted)
  <2>1. PICK i \in 1..n : /\ packets[i] = IF mounted THEN Subscribe(id) ELSE Unsubscribe(id)
                          /\ \A j \in 1..n : j > i => packets[j][2] # id
    BY <1>1, <1>2 DEF LastWord
  <2>2. CASE i = 1
    <3>1. campaignRoom(id) \in newRooms <=> mounted
      BY <1>1, <2>1, <2>2
    <3>2. ASSUME NEW j \in DOMAIN q PROVE q[j][2] # id
      <4>1. j + 1 \in 1..n /\ j + 1 > 1 /\ q[j] = packets[j + 1]
        BY <1>1
      <4>2. QED
        BY <2>1, <2>2, <4>1
    <3>3. QED
      BY <3>1, <3>2 DEF Follows, q
  <2>3. CASE i # 1
    <3>1. i - 1 \in DOMAIN q /\ q[i - 1] = packets[i]
      <4>1. i - 1 \in 1..(n - 1) /\ (i - 1) + 1 = i
        BY <1>1, <2>3
      <4>2. q[i - 1] = packets[(i - 1) + 1]
        BY <1>1, <4>1
      <4>3. QED
        BY <1>1, <4>1, <4>2
    <3>2. ASSUME NEW j \in DOMAIN q, j > i - 1 PROVE q[j][2] # id
      <4>1. j + 1 \in 1..n /\ j + 1 > i /\ q[j] = packets[j + 1]
        BY <1>1, <3>2
      <4>2. QED
        BY <2>1, <4>1
    <3>3. LastWord(q, id, mounted)
      BY <2>1, <3>1, <3>2 DEF LastWord
    <3>4. QED
      BY <3>3 DEF Follows, q
  <2>4. QED
    BY <2>2, <2>3
<1>3. CASE /\ \A j \in DOMAIN packets : packets[j][2] # id
           /\ campaignRoom(id) \in rooms <=> mounted
  <2>1. Head(packets)[2] # id
    BY <1>1, <1>3
  <2>2. ASSUME NEW j \in DOMAIN q PROVE q[j][2] # id
    <3>1. j + 1 \in 1..n /\ q[j] = packets[j + 1]
      BY <1>1
    <3>2. QED
      BY <1>1, <1>3, <3>1
  <2>3. QED
    BY <1>3, <2>1, <2>2 DEF Follows, q
<1>4. QED
  BY <1>2, <1>3 DEF Follows

\* What the listener of 'connect' sends: one subscription to every room held, no more.
LEMMA RejoinCovers ==
  ASSUME roomRefCounts \in [Campaigns -> Nat]
  PROVE  /\ Rejoin \in Seq(Packets)
         /\ \A id \in Held : \E i \in DOMAIN Rejoin : Rejoin[i] = Subscribe(id)
         /\ \A i \in DOMAIN Rejoin : \E id \in Held : Rejoin[i] = Subscribe(id)
<1> DEFINE S == {Subscribe(id) : id \in Held}
           n == Cardinality(S)
<1>1. IsFiniteSet(Held) /\ Held \subseteq Campaigns
  BY FS_Subset, LiveConstants DEF Held
<1>2. IsFiniteSet(S)
  <2> DEFINE f == [id \in Held |-> Subscribe(id)]
  <2>1. f \in [Held -> S] /\ \A p \in S : \E id \in Held : f[id] = p
    OBVIOUS
  <2>2. f \in Surjection(Held, S)
    BY <2>1 DEF Surjection
  <2>3. QED
    BY <1>1, <2>2, FS_Surjection
<1>3. S \subseteq Packets
  BY <1>1, PacketParts
<1> HIDE DEF S
<1>4. n \in Nat /\ \E f \in [1..n -> S] : IsInjective(f)
  <2>1. n \in Nat /\ ExistsBijection(1..n, S)
    BY <1>2, FS_CardinalityType
  <2>2. QED
    BY <2>1 DEF ExistsBijection, Bijection, Injection
<1>5. SetToSeq(S) \in [1..n -> S] /\ IsInjective(SetToSeq(S))
  BY <1>4 DEF SetToSeq
<1>6. \A p \in S : \E i \in 1..n : SetToSeq(S)[i] = p
  <2>1. SetToSeq(S) \in Injection(1..n, S)
    BY <1>5 DEF Injection
  <2>2. Cardinality(1..n) = n
    BY <1>4, FS_Interval
  <2>3. SetToSeq(S) \in Surjection(1..n, S)
    BY <1>2, <2>1, <2>2, FS_Injection
  <2>4. QED
    BY <2>3 DEF Surjection
<1>7. Rejoin = SetToSeq(S)
  BY DEF Rejoin, S
<1>8. Rejoin \in Seq(Packets) /\ DOMAIN Rejoin = 1..n
  <2>1. Rejoin \in [1..n -> Packets]
    BY <1>3, <1>5, <1>7
  <2>2. QED
    BY <1>4, <2>1
<1>9. \A id \in Held : Subscribe(id) \in S
  BY DEF S
<1>10. \A p \in S : \E id \in Held : p = Subscribe(id)
  BY DEF S
<1> HIDE DEF n
<1>11. QED
  BY <1>5, <1>6, <1>7, <1>8, <1>9, <1>10

\* Those subscriptions overrule whatever was buffered while there was no connection,
\* which can only have been unsubscriptions.
LEMMA RejoinFollows ==
  ASSUME roomRefCounts \in [Campaigns -> Nat], NEW packets \in Seq(Packets),
         \A i \in DOMAIN packets : packets[i][1] = "unsubscribe_campaign",
         NEW id \in Campaigns
  PROVE  Follows(packets \o Rejoin, {}, id, Mounted(id))
<1> DEFINE q == packets \o Rejoin
           m == Len(packets)
           n == Len(Rejoin)
<1>1. /\ Rejoin \in Seq(Packets)
      /\ \A h \in Held : \E i \in DOMAIN Rejoin : Rejoin[i] = Subscribe(h)
      /\ \A i \in DOMAIN Rejoin : \E h \in Held : Rejoin[i] = Subscribe(h)
  BY RejoinCovers
<1>2. /\ m \in Nat /\ n \in Nat /\ DOMAIN packets = 1..m /\ DOMAIN Rejoin = 1..n
      /\ q \in Seq(Packets) /\ DOMAIN q = 1..(m + n)
      /\ \A i \in 1..(m + n) : q[i] = IF i <= m THEN packets[i] ELSE Rejoin[i - m]
  <2>1. m \in Nat /\ n \in Nat /\ DOMAIN packets = 1..m /\ DOMAIN Rejoin = 1..n
    BY <1>1, LenProperties
  <2>2. q \in Seq(Packets) /\ Len(q) = m + n
        /\ \A i \in 1..(m + n) : q[i] = IF i <= m THEN packets[i] ELSE Rejoin[i - m]
    BY <1>1, ConcatProperties
  <2>3. DOMAIN q = 1..Len(q)
    BY <2>2, LenProperties
  <2>4. QED
    BY <2>1, <2>2, <2>3
<1>3. \A h \in Held : Subscribe(h)[2] = h
  BY PacketParts DEF Held
<1> HIDE DEF q, m, n
<1> DEFINE About == {i \in 1..(m + n) : q[i][2] = id}
<1>4. CASE About = {}
  <2>1. \A i \in DOMAIN q : q[i][2] # id
    BY <1>2, <1>4
  <2>2. id \notin Held
    <3> SUFFICES ASSUME id \in Held PROVE FALSE
      OBVIOUS
    <3>1. PICK i \in 1..n : Rejoin[i] = Subscribe(id)
      BY <1>1, <1>2
    <3>2. i + m \in 1..(m + n) /\ ~(i + m <= m) /\ (i + m) - m = i
      BY <1>2
    <3>3. q[i + m] = Rejoin[i]
      BY <1>2, <3>2
    <3>4. q[i + m][2] # id
      BY <1>2, <2>1, <3>2
    <3>5. q[i + m][2] = id
      BY <1>3, <3>1, <3>3
    <3>6. QED
      BY <3>4, <3>5
  <2>3. ~Mounted(id)
    BY <2>2 DEF Held
  <2>4. QED
    BY <2>1, <2>3 DEF Follows, q
<1>5. CASE About # {}
  <2>1. PICK i \in About : \A j \in About : j <= i
    <3>1. About \subseteq 0..(m + n) /\ m + n \in Nat
      BY <1>2
    <3> HIDE DEF About
    <3>2. \E i \in About : \A j \in About : i >= j
      <4>1. About \in SUBSET Int /\ \A x \in About : x <= m + n
        BY <1>2, <3>1
      <4> DEFINE P(k) == \E x \in About : x = m + n - k
                 K == {k \in Nat : P(k)}
      <4>2. K # {}
        <5>1. PICK x \in About : TRUE
          BY <1>5
        <5>2. (m + n) - x \in Nat /\ x = m + n - ((m + n) - x)
          BY <1>2, <3>1, <4>1
        <5>3. QED
          BY <5>2
      <4>3. PICK k \in K : \A l \in K : k <= l
        <5>1. K \subseteq Nat
          OBVIOUS
        <5> HIDE DEF K
        <5>2. QED
          BY <4>2, <5>1, LeastNat
      <4>4. PICK x \in About : x = m + n - k
        BY <4>3
      <4>5. ASSUME NEW y \in About PROVE x >= y
        <5>1. (m + n) - y \in Nat /\ y = m + n - ((m + n) - y)
          BY <1>2, <3>1, <4>1
        <5>2. (m + n) - y \in K
          BY <5>1
        <5>3. k <= (m + n) - y
          BY <4>3, <5>2
        <5>4. QED
          BY <1>2, <3>1, <4>1, <4>4, <5>3
      <4>6. QED
        BY <4>5
    <3>3. QED
      BY <1>2, <3>1, <3>2
  <2>2. i \in DOMAIN q /\ q[i][2] = id /\ \A j \in DOMAIN q : j > i => q[j][2] # id
    BY <1>2, <2>1
  <2> HIDE DEF About
  <2>3. q[i] = IF Mounted(id) THEN Subscribe(id) ELSE Unsubscribe(id)
    <3>1. CASE i <= m
      <4>1. i \in 1..m /\ q[i] = packets[i]
        BY <1>2, <2>2, <3>1
      <4>2. q[i][1] = "unsubscribe_campaign" /\ q[i] \in Packets
        BY <1>2, <4>1
      <4>3. q[i] = Unsubscribe(id)
        <5>1. q[i] = Subscribe(id) \/ q[i] = Unsubscribe(id)
          BY <2>2, <4>2, PacketParts
        <5>2. Subscribe(id)[1] # "unsubscribe_campaign"
          BY DEF Subscribe
        <5>3. QED
          BY <4>2, <5>1, <5>2
      <4>4. id \notin Held
        <5> SUFFICES ASSUME id \in Held PROVE FALSE
          OBVIOUS
        <5>1. PICK k \in 1..n : Rejoin[k] = Subscribe(id)
          BY <1>1, <1>2
        <5>2. k + m \in 1..(m + n) /\ ~(k + m <= m) /\ (k + m) - m = k /\ k + m > i
          BY <1>2, <3>1, <4>1
        <5>3. q[k + m] = Rejoin[k]
          BY <1>2, <5>2
        <5>4. q[k + m][2] # id
          BY <1>2, <2>2, <5>2
        <5>5. q[k + m][2] = id
          BY <1>3, <5>1, <5>3
        <5>6. QED
          BY <5>4, <5>5
      <4>5. QED
        BY <4>3, <4>4 DEF Held
    <3>2. CASE ~(i <= m)
      <4>1. i \in 1..(m + n) /\ i - m \in 1..n /\ q[i] = Rejoin[i - m]
        BY <1>2, <2>2, <3>2
      <4>2. PICK h \in Held : q[i] = Subscribe(h)
        BY <1>1, <1>2, <4>1
      <4>3. h = id
        BY <1>3, <2>2, <4>2
      <4>4. QED
        BY <4>2, <4>3 DEF Held
    <3>3. QED
      BY <3>1, <3>2
  <2>4. LastWord(q, id, Mounted(id))
    BY <2>2, <2>3 DEF LastWord
  <2>5. QED
    BY <2>4 DEF Follows, q
<1>6. QED
  BY <1>4, <1>5

-----------------------------------------------------------------------------
(* The inductive invariant, part by part. *)

\* The rooms of the browser's socket will be those its pages need, once the packets
\* under way have arrived; what is buffered offline can only unsubscribe.
RoomsFollow ==
  /\ connected =>
       /\ sockets[Browser].rooms \subseteq {campaignRoom(id) : id \in Campaigns}
       /\ \A id \in Campaigns : Follows(up, sockets[Browser].rooms, id, Mounted(id))
  /\ ~connected => \A i \in DOMAIN up : up[i][1] = "unsubscribe_campaign"

\* What is broadcast, or about to be, has been committed.
Committed ==
  /\ \A id \in Campaigns : rows[id] <= chain[id]
  /\ emitting # NoEvent => emitting[2] <= rows[emitting[1]]
  /\ ToldWhatIsCommitted

\* No answer that a page takes for current is older than what the page was told of: a
\* fetch under way began no earlier, and data that is older is marked.
HeardOf(q, v) ==
  /\ q.data = None => v = 0
  /\ ~Idle(q) => v <= q.fetching
  /\ q.data # None /\ ~q.invalidated => v <= q.data

Heard == \A id \in Campaigns : told[id] <= rows[id] /\ HeardOf(cache[id], told[id])

LInv == LiveType /\ RoomsFollow /\ Committed /\ Heard

\* The invariant holds when nobody has connected yet.
LEMMA InitLInv == LiveInit => LInv
<1> SUFFICES ASSUME LiveInit PROVE LInv
  OBVIOUS
<1> DEFINE q0 == [data |-> None, invalidated |-> FALSE, old |-> FALSE, fetching |-> None]
<1>1. q0 \in Query /\ HeardOf(q0, 0)
  BY DEF Query, HeardOf, Idle
<1>2. sockets = [c \in Clients |-> Closed] /\ sockets[Browser] = Closed /\ now = 0
  BY LiveConstants DEF LiveInit, GatewayInit
<1>3. GatewayType
  BY <1>2, HandshakeTypes DEF GatewayType
<1>4. ~connected
  BY <1>2, HandshakeTypes DEF connected
<1>5. up = <<>> /\ down = <<>> /\ emitting = NoEvent /\ DOMAIN up = {} /\ DOMAIN down = {}
  BY DEF LiveInit
<1>6. cache = [id \in Campaigns |-> q0] /\ chain = [id \in Campaigns |-> 0]
      /\ rows = chain /\ told = chain /\ roomRefCounts = chain
  BY DEF LiveInit
<1> HIDE DEF q0
<1>7. LiveType
  BY <1>1, <1>3, <1>5, <1>6 DEF LiveType
<1>8. RoomsFollow
  BY <1>4, <1>5 DEF RoomsFollow
<1>9. Committed
  BY <1>5, <1>6 DEF Committed, ToldWhatIsCommitted
<1>10. Heard
  BY <1>1, <1>6 DEF Heard
<1>11. QED
  BY <1>7, <1>8, <1>9, <1>10 DEF LInv

\* The part about rooms does not look at the database, the events or the cache.
LEMMA SameRoomsFollow ==
  ASSUME RoomsFollow, UNCHANGED <<sockets, up, roomRefCounts>>
  PROVE  RoomsFollow'
  BY DEF RoomsFollow, connected, Mounted

\* A contract event, its commit, its broadcast and a crash in between.
LEMMA EmitKeeps ==
  ASSUME LInv, NEW id \in Campaigns, ContractEmits(id)
  PROVE  LInv'
<1>1. /\ UNCHANGED <<gatewayVars, rows, emitting, down, browserVars, drops>>
      /\ chain' = [chain EXCEPT ![id] = chain[id] + 1]
  BY DEF ContractEmits
<1>2. LiveType'
  BY <1>1 DEF LInv, LiveType, GatewayType, gatewayVars, browserVars
<1>3. RoomsFollow'
  BY <1>1, SameRoomsFollow DEF LInv, gatewayVars, browserVars
<1>4. Committed' /\ Heard'
  BY <1>1 DEF LInv, LiveType, Committed, ToldWhatIsCommitted, Heard, HeardOf, Idle, browserVars
<1>5. QED
  BY <1>2, <1>3, <1>4 DEF LInv

\* A commit is what is broadcast next.
LEMMA CommitKeeps ==
  ASSUME LInv, NEW id \in Campaigns, Commit(id)
  PROVE  LInv'
<1>1. /\ UNCHANGED <<gatewayVars, chain, down, browserVars, drops>>
      /\ rows' = [rows EXCEPT ![id] = rows[id] + 1] /\ emitting' = <<id, rows[id] + 1>>
      /\ rows[id] < chain[id]
  BY DEF Commit, Unseen
<1>2. /\ rows \in [Campaigns -> Nat] /\ chain \in [Campaigns -> Nat]
      /\ told \in [Campaigns -> Nat] /\ down \in Seq(Events)
  BY DEF LInv, LiveType
<1>3. rows' \in [Campaigns -> Nat] /\ rows'[id] = rows[id] + 1
      /\ \A o \in Campaigns : rows[o] <= rows'[o] /\ (o # id => rows'[o] = rows[o])
  BY <1>1, <1>2
<1>4. emitting' \in Events /\ emitting'[1] = id /\ emitting'[2] = rows[id] + 1
  BY <1>1, <1>2 DEF Events
<1>5. LiveType'
  BY <1>1, <1>3, <1>4 DEF LInv, LiveType, GatewayType, gatewayVars, browserVars
<1>6. RoomsFollow'
  BY <1>1, SameRoomsFollow DEF LInv, gatewayVars, browserVars
<1>7. \A i \in DOMAIN down : down[i] \in Events /\ down[i][1] \in Campaigns /\ down[i][2] \in Nat
  BY <1>2 DEF Events
<1>8. Committed'
  BY <1>1, <1>2, <1>3, <1>4, <1>7 DEF LInv, Committed, ToldWhatIsCommitted
<1>9. Heard'
  BY <1>1, <1>2, <1>3 DEF LInv, Heard, HeardOf, Idle, browserVars
<1>10. QED
  BY <1>5, <1>6, <1>8, <1>9 DEF LInv

\* The broadcast sends what was committed, as often as the browser is in the audience.
LEMMA BroadcastKeeps ==
  ASSUME LInv, Broadcast
  PROVE  LInv'
<1> DEFINE n == Copies(Browser, emitting[1])
           more == [i \in 1..n |-> emitting]
<1>1. /\ UNCHANGED <<gatewayVars, chain, rows, browserVars, drops>>
      /\ emitting # NoEvent /\ emitting' = NoEvent /\ down' = down \o more
  BY DEF Broadcast
<1>2. emitting \in Events /\ down \in Seq(Events) /\ n \in Nat
  BY <1>1 DEF LInv, LiveType, Copies
<1> HIDE DEF n
<1>3. more \in Seq(Events) /\ Len(more) = n /\ \A i \in 1..n : more[i] = emitting
  BY <1>2
<1> HIDE DEF more
<1>4. /\ down' \in Seq(Events) /\ Len(down') = Len(down) + n
      /\ \A i \in 1..(Len(down) + n) :
           down'[i] = IF i <= Len(down) THEN down[i] ELSE more[i - Len(down)]
  BY <1>1, <1>2, <1>3, ConcatProperties
<1>5. Len(down) \in Nat /\ DOMAIN down = 1..Len(down) /\ DOMAIN down' = 1..Len(down')
  BY <1>2, <1>4, LenProperties
<1>6. LiveType'
  BY <1>1, <1>4 DEF LInv, LiveType, GatewayType, gatewayVars, browserVars
<1>7. RoomsFollow'
  BY <1>1, SameRoomsFollow DEF LInv, gatewayVars, browserVars
<1>8. Committed'
  <2>1. ASSUME NEW i \in DOMAIN down' PROVE down'[i][2] <= rows[down'[i][1]]
    <3>1. i \in 1..(Len(down) + n)
      BY <1>4, <1>5
    <3>2. CASE i <= Len(down)
      <4>1. i \in DOMAIN down /\ down'[i] = down[i]
        BY <1>4, <1>5, <3>1, <3>2
      <4>2. QED
        BY <4>1 DEF LInv, Committed, ToldWhatIsCommitted
    <3>3. CASE ~(i <= Len(down))
      <4>1. i - Len(down) \in 1..n /\ down'[i] = more[i - Len(down)]
        BY <1>2, <1>4, <1>5, <3>1, <3>3
      <4>2. down'[i] = emitting
        BY <1>3, <4>1
      <4>3. QED
        BY <1>1, <4>2 DEF LInv, Committed
    <3>4. QED
      BY <3>2, <3>3
  <2>2. QED
    BY <1>1, <2>1 DEF LInv, Committed, ToldWhatIsCommitted
<1>9. Heard'
  BY <1>1 DEF LInv, Heard, HeardOf, Idle, browserVars
<1>10. QED
  BY <1>6, <1>7, <1>8, <1>9 DEF LInv

\* A crash of the server loses a broadcast, nothing else.
LEMMA CrashKeeps ==
  ASSUME LInv, ServerCrash
  PROVE  LInv'
<1>1. UNCHANGED <<gatewayVars, chain, rows, down, browserVars, drops>> /\ emitting' = NoEvent
  BY DEF ServerCrash
<1>2. LiveType'
  BY <1>1 DEF LInv, LiveType, GatewayType, gatewayVars, browserVars
<1>3. RoomsFollow'
  BY <1>1, SameRoomsFollow DEF LInv, gatewayVars, browserVars
<1>4. Committed' /\ Heard'
  BY <1>1 DEF LInv, Committed, ToldWhatIsCommitted, Heard, HeardOf, Idle, browserVars
<1>5. QED
  BY <1>2, <1>3, <1>4 DEF LInv

-----------------------------------------------------------------------------
(* The browser's socket. *)

\* The server takes one packet: the browser's rooms become as it says.
LEMMA ReceivesEffect ==
  ASSUME LInv, ServerReceives
  PROVE  LET id == Head(up)[2] IN
         /\ id \in Campaigns /\ Head(up) \in Packets
         /\ \E room \in Rooms :
              /\ room = campaignRoom(id)
              /\ \/ Head(up) = Subscribe(id) /\ Join(Browser, room)
                 \/ Head(up) # Subscribe(id) /\ Leave(Browser, room)
<1>1. up \in Seq(Packets) /\ up # <<>>
  BY DEF LInv, LiveType, ServerReceives
<1>2. Head(up) \in Packets
  BY <1>1, HeadTailProperties
<1>3. Head(up)[2] \in Campaigns
  BY <1>2 DEF Packets
<1>4. campaignRoom(Head(up)[2]) \in Rooms
  BY <1>3 DEF Rooms
<1>5. QED
  BY <1>2, <1>3, <1>4 DEF ServerReceives

\* The rooms go on following the pages.
LEMMA ReceivesKeeps ==
  ASSUME LInv, ServerReceives
  PROVE  LInv'
<1> DEFINE b == sockets[Browser]
<1>1. /\ UNCHANGED <<now, chain, rows, emitting, down, roomRefCounts, cache, told, drops>>
      /\ up' = Tail(up) /\ up \in Seq(Packets) /\ up # <<>> /\ connected
  BY DEF ServerReceives, LInv, LiveType
<1>2. sockets \in [Clients -> Socket] /\ b \in Socket /\ GatewayType /\ Browser \in Clients
  BY LiveConstants DEF LInv, LiveType, GatewayType
<1>3. PICK id \in Campaigns :
        /\ id = Head(up)[2] /\ Head(up) \in Packets
        /\ campaignRoom(id) \in Rooms
        /\ \/ Head(up) = Subscribe(id) /\ Join(Browser, campaignRoom(id))
           \/ Head(up) # Subscribe(id) /\ Leave(Browser, campaignRoom(id))
  BY ReceivesEffect
<1> DEFINE rooms == IF Head(up) = Subscribe(id) THEN b.rooms \cup {campaignRoom(id)}
                                                ELSE b.rooms \ {campaignRoom(id)}
           s == [open |-> TRUE, token |-> b.token, rooms |-> rooms]
<1>4. sockets' = [sockets EXCEPT ![Browser] = s]
  BY <1>2, <1>3, RoomSteps
<1>5. s \in Socket
  BY <1>2, <1>3 DEF Socket
<1>6. sockets' \in [Clients -> Socket] /\ sockets'[Browser] = s
  BY <1>2, <1>4, <1>5
<1>7. up' \in Seq(Packets)
  BY <1>1, HeadTailProperties
<1>8. LiveType'
  BY <1>1, <1>6, <1>7 DEF LInv, LiveType, GatewayType
<1>9. RoomsFollow'
  <2>1. connected' /\ sockets'[Browser].rooms = rooms
    BY <1>6 DEF connected
  <2>2. rooms \subseteq {campaignRoom(o) : o \in Campaigns}
    BY <1>1, <1>3 DEF LInv, RoomsFollow
  <2>3. ASSUME NEW o \in Campaigns PROVE Follows(Tail(up), rooms, o, Mounted(o))
    <3>1. Follows(up, b.rooms, o, Mounted(o))
      BY <1>1 DEF LInv, RoomsFollow
    <3>2. Head(up) = Subscribe(o) => campaignRoom(o) \in rooms
      BY <1>3, PacketParts
    <3>3. Head(up) = Unsubscribe(o) => campaignRoom(o) \notin rooms
      BY <1>3, PacketParts
    <3>4. Head(up)[2] # o => (campaignRoom(o) \in rooms <=> campaignRoom(o) \in b.rooms)
      BY <1>3, RoomsDiffer
    <3> HIDE DEF rooms, b
    <3>5. QED
      BY <1>1, <3>1, <3>2, <3>3, <3>4, FirstPacket
  <2>4. QED
    BY <1>1, <2>1, <2>2, <2>3 DEF RoomsFollow, Mounted
<1>10. Committed' /\ Heard'
  BY <1>1 DEF LInv, Committed, ToldWhatIsCommitted, Heard, HeardOf, Idle
<1>11. QED
  BY <1>8, <1>9, <1>10 DEF LInv

\* A new connection starts without rooms, and asks for those the pages hold.
LEMMA ConnectKeeps ==
  ASSUME LInv, Connect
  PROVE  LInv'
<1>1. /\ UNCHANGED <<now, chain, rows, emitting, down, roomRefCounts, cache, told, drops>>
      /\ up' = up \o Rejoin /\ HandleConnection(Browser, NoToken)
  BY DEF Connect
<1>2. up \in Seq(Packets) /\ roomRefCounts \in [Campaigns -> Nat] /\ Browser \in Clients
      /\ sockets \in [Clients -> Socket]
  BY LiveConstants DEF LInv, LiveType, GatewayType
<1> DEFINE s == [open |-> TRUE, token |-> NoToken, rooms |-> {}]
<1>3. ~connected /\ sockets' = [sockets EXCEPT ![Browser] = s]
  BY <1>1 DEF HandleConnection, connected
<1>4. s \in Socket
  BY HandshakeTypes DEF Socket
<1>5. sockets' \in [Clients -> Socket] /\ sockets'[Browser] = s
  BY <1>2, <1>3, <1>4
<1>6. up' \in Seq(Packets)
  BY <1>1, <1>2, RejoinCovers, ConcatProperties
<1>7. LiveType'
  BY <1>1, <1>5, <1>6 DEF LInv, LiveType, GatewayType
<1>8. RoomsFollow'
  <2>1. connected' /\ sockets'[Browser].rooms = {}
    BY <1>5 DEF connected
  <2>2. \A i \in DOMAIN up : up[i][1] = "unsubscribe_campaign"
    BY <1>3 DEF LInv, RoomsFollow
  <2>3. \A id \in Campaigns : Follows(up \o Rejoin, {}, id, Mounted(id))
    BY <1>2, <2>2, RejoinFollows
  <2>4. QED
    BY <1>1, <2>1, <2>3 DEF RoomsFollow, Mounted
<1>9. Committed' /\ Heard'
  BY <1>1 DEF LInv, Committed, ToldWhatIsCommitted, Heard, HeardOf, Idle
<1>10. QED
  BY <1>7, <1>8, <1>9 DEF LInv

\* A drop loses the packets and the rooms.
LEMMA DropKeeps ==
  ASSUME LInv, Drop
  PROVE  LInv'
<1>1. /\ UNCHANGED <<now, chain, rows, emitting, roomRefCounts, cache, told>>
      /\ up' = <<>> /\ down' = <<>> /\ sockets' = [sockets EXCEPT ![Browser] = Closed]
  BY DEF Drop, Disconnect
<1>2. Browser \in Clients /\ sockets \in [Clients -> Socket]
  BY LiveConstants DEF LInv, LiveType, GatewayType
<1>3. sockets' \in [Clients -> Socket] /\ ~sockets'[Browser].open
  BY <1>1, <1>2, HandshakeTypes
<1>4. DOMAIN up' = {} /\ DOMAIN down' = {}
  BY <1>1
<1>5. LiveType'
  BY <1>1, <1>3 DEF LInv, LiveType, GatewayType
<1>6. RoomsFollow'
  BY <1>3, <1>4 DEF RoomsFollow, connected
<1>7. Committed' /\ Heard'
  BY <1>1, <1>4 DEF LInv, Committed, ToldWhatIsCommitted, Heard, HeardOf, Idle
<1>8. QED
  BY <1>5, <1>6, <1>7 DEF LInv

\* What other clients do leaves the browser's socket alone.
LEMMA OthersStepKeeps ==
  ASSUME LInv, OthersStep
  PROVE  LInv'
<1>1. UNCHANGED <<chain, rows, emitting, down, browserVars, drops>>
  BY DEF OthersStep
<1>2. GatewayType /\ Browser \in Clients
  BY LiveConstants DEF LInv, LiveType
<1>3. GatewayType' /\ sockets'[Browser] = sockets[Browser]
  <2>1. CASE Tick
    BY <1>2, <2>1 DEF Tick, GatewayType
  <2>2. ASSUME NEW c \in Clients \ {Browser}, OtherClientStep(c), now' = now
        PROVE  GatewayType' /\ sockets'[Browser] = sockets[Browser]
    BY <1>2, <2>2, OthersKeep DEF GatewayType
  <2>3. QED
    BY <2>1, <2>2 DEF OthersStep
<1>4. LiveType'
  BY <1>1, <1>3 DEF LInv, LiveType, browserVars
<1>5. RoomsFollow'
  BY <1>1, <1>3 DEF LInv, RoomsFollow, connected, Mounted, browserVars
<1>6. Committed' /\ Heard'
  BY <1>1 DEF LInv, Committed, ToldWhatIsCommitted, Heard, HeardOf, Idle, browserVars
<1>7. QED
  BY <1>4, <1>5, <1>6 DEF LInv

-----------------------------------------------------------------------------
(* The pages and the query cache. *)

\* Fetching from the contract's present state satisfies what the page was told of.
LEMMA FetchFits ==
  ASSUME LInv, NEW id \in Campaigns
  PROVE  /\ cache[id] \in Query /\ chain[id] \in Nat /\ told[id] <= chain[id]
         /\ \A q \in Query :
              /\ StartFetch(id, q) \in Query
              /\ HeardOf(q, told[id]) => HeardOf(StartFetch(id, q), told[id])
<1>1. /\ cache[id] \in Query /\ chain[id] \in Nat /\ told[id] \in Nat /\ rows[id] \in Nat
      /\ told[id] <= rows[id] /\ rows[id] <= chain[id]
  BY DEF LInv, LiveType, Heard, Committed
<1>2. ASSUME NEW q \in Query
      PROVE  /\ StartFetch(id, q) \in Query
             /\ StartFetch(id, q).data = q.data
             /\ StartFetch(id, q).invalidated = q.invalidated
             /\ StartFetch(id, q).fetching = chain[id]
  BY <1>1 DEF StartFetch, Query
<1>3. ASSUME NEW q \in Query, HeardOf(q, told[id])
      PROVE  HeardOf(StartFetch(id, q), told[id])
  BY <1>1, <1>2, <1>3 DEF HeardOf
<1>4. QED
  BY <1>1, <1>2, <1>3

\* A change of one query and of nothing else, when the new query fits what was told.
LEMMA QueryKeeps ==
  ASSUME LInv, NEW id \in Campaigns, NEW q \in Query, HeardOf(q, told[id]),
         cache' = [cache EXCEPT ![id] = q],
         UNCHANGED <<gatewayVars, chain, rows, emitting, told>>,
         up' \in Seq(Packets), down' = down, roomRefCounts' \in [Campaigns -> Nat],
         RoomsFollow'
  PROVE  LInv'
<1>1. cache \in [Campaigns -> Query]
  BY DEF LInv, LiveType
<1>2. LiveType'
  BY <1>1 DEF LInv, LiveType, GatewayType, gatewayVars
<1>3. Committed'
  BY DEF LInv, Committed, ToldWhatIsCommitted
<1>4. Heard'
  <2>1. ASSUME NEW o \in Campaigns PROVE told[o] <= rows[o] /\ HeardOf(cache'[o], told[o])
    BY <1>1 DEF LInv, Heard
  <2>2. \A o \in Campaigns : HeardOf(cache[o], told[o])' <=> HeardOf(cache'[o], told[o])
    BY DEF HeardOf, Idle
  <2>3. QED
    BY <2>1, <2>2 DEF Heard
<1>5. QED
  BY <1>2, <1>3, <1>4 DEF LInv

\* A fetch that ends, well or not, and data that grows old.
LEMMA FetchEndKeeps ==
  ASSUME LInv, NEW id \in Campaigns, FetchSucceeds(id) \/ FetchFails(id) \/ GrowOld(id)
  PROVE  LInv'
<1>1. /\ UNCHANGED <<gatewayVars, chain, rows, emitting, up, down, roomRefCounts, told, drops>>
      /\ up \in Seq(Packets) /\ roomRefCounts \in [Campaigns -> Nat]
  BY DEF FetchSucceeds, FetchFails, GrowOld, LInv, LiveType
<1>2. /\ cache \in [Campaigns -> Query] /\ cache[id] \in Query /\ told[id] \in Nat
      /\ HeardOf(cache[id], told[id]) /\ chain[id] \in Nat
  BY DEF LInv, LiveType, Heard
<1>3. RoomsFollow'
  BY <1>1, SameRoomsFollow DEF LInv, gatewayVars
<1>4. \E q \in Query : HeardOf(q, told[id]) /\ cache' = [cache EXCEPT ![id] = q]
  <2>1. CASE FetchSucceeds(id)
    <3>1. PICK v \in cache[id].fetching..chain[id] :
            cache' = [cache EXCEPT ![id] = [data |-> v, invalidated |-> FALSE,
                                            old |-> FALSE, fetching |-> None]]
      BY <2>1 DEF FetchSucceeds
    <3>2. cache[id].fetching \in Nat /\ told[id] <= cache[id].fetching
      BY <1>2, <2>1 DEF FetchSucceeds, Query, Idle, HeardOf
    <3>3. v \in Nat /\ told[id] <= v
      BY <1>2, <3>1, <3>2
    <3> DEFINE q == [data |-> v, invalidated |-> FALSE, old |-> FALSE, fetching |-> None]
    <3>4. q \in Query /\ HeardOf(q, told[id])
      BY <3>3 DEF Query, HeardOf, Idle, None
    <3>5. QED
      BY <3>1, <3>4
  <2>2. CASE FetchFails(id)
    <3> DEFINE q == [cache[id] EXCEPT !.fetching = None]
    <3>1. q \in Query /\ HeardOf(q, told[id])
      BY <1>2 DEF Query, HeardOf, Idle
    <3>2. cache' = [cache EXCEPT ![id] = q]
      BY <2>2 DEF FetchFails
    <3>3. QED
      BY <3>1, <3>2
  <2>3. CASE GrowOld(id)
    <3> DEFINE q == [cache[id] EXCEPT !.old = TRUE]
    <3>1. q \in Query /\ HeardOf(q, told[id])
      BY <1>2 DEF Query, HeardOf, Idle
    <3>2. cache' = [cache EXCEPT ![id] = q]
      BY <2>3 DEF GrowOld
    <3>3. QED
      BY <3>1, <3>2
  <2>4. QED
    BY <2>1, <2>2, <2>3
<1>5. QED
  BY <1>1, <1>3, <1>4, QueryKeeps

\* The rooms follow a page that opens or closes, when a packet is sent exactly if this
\* changes whether the campaign has a page, and always one about that campaign.
LEMMA PageFollows ==
  ASSUME LInv, NEW id \in Campaigns, NEW packets, NEW n \in Nat,
         UNCHANGED sockets, up' = up \o packets,
         roomRefCounts' = [roomRefCounts EXCEPT ![id] = n],
         packets = <<>> \/ packets = <<Subscribe(id)>> \/ packets = <<Unsubscribe(id)>>,
         packets = <<>> /\ connected => (n > 0 <=> Mounted(id)),
         packets = <<Subscribe(id)>> => n > 0 /\ connected,
         packets = <<Unsubscribe(id)>> => ~(n > 0)
  PROVE  RoomsFollow' /\ up' \in Seq(Packets)
<1>1. /\ up \in Seq(Packets) /\ RoomsFollow
      /\ Subscribe(id) \in Packets /\ Unsubscribe(id) \in Packets
  BY PacketParts DEF LInv, LiveType
<1>2. /\ connected' <=> connected
      /\ \A o \in Campaigns \ {id} : roomRefCounts'[o] = roomRefCounts[o]
      /\ roomRefCounts'[id] = n
  BY DEF connected, LInv, LiveType
<1>3. CASE packets = <<>>
  <2>1. up' = up
    BY <1>1, <1>3, ConcatEmptySeq
  <2>2. connected => \A o \in Campaigns : (roomRefCounts'[o] > 0) = (roomRefCounts[o] > 0)
    BY <1>2, <1>3 DEF Mounted
  <2>3. ASSUME connected, NEW o \in Campaigns
        PROVE  Follows(up, sockets[Browser].rooms, o, roomRefCounts'[o] > 0)
    <3>1. Follows(up, sockets[Browser].rooms, o, roomRefCounts[o] > 0)
      BY <1>1, <2>3 DEF RoomsFollow, Mounted
    <3>2. (roomRefCounts'[o] > 0) = (roomRefCounts[o] > 0)
      BY <2>2, <2>3
    <3>3. QED
      BY <3>1, <3>2
  <2>4. QED
    BY <1>1, <1>2, <2>1, <2>3 DEF RoomsFollow, Mounted
<1>4. ASSUME NEW p \in Packets, packets = <<p>>, p[2] = id,
             p = IF n > 0 THEN Subscribe(id) ELSE Unsubscribe(id),
             ~connected => p[1] = "unsubscribe_campaign"
      PROVE  RoomsFollow' /\ up' \in Seq(Packets)
  <2>1. up' = Append(up, p)
    BY <1>1, <1>4, AppendIsConcat
  <2>2. ASSUME NEW o \in Campaigns, connected
        PROVE  Follows(Append(up, p), sockets[Browser].rooms, o, roomRefCounts'[o] > 0)
    <3>1. CASE o = id
      <4>1. Follows(Append(up, p), sockets[Browser].rooms, id, n > 0)
        BY <1>1, <1>4, OwnPacket
      <4>2. QED
        BY <1>2, <3>1, <4>1
    <3>2. CASE o # id
      <4>1. Follows(up, sockets[Browser].rooms, o, roomRefCounts'[o] > 0)
        BY <1>1, <1>2, <2>2, <3>2 DEF RoomsFollow, Mounted
      <4>2. p[2] # o
        BY <1>4, <3>2
      <4>3. QED
        BY <1>1, <1>4, <4>1, <4>2, OtherPacket
    <3>3. QED
      BY <3>1, <3>2
  <2>3. /\ Append(up, p) \in Seq(Packets)
        /\ DOMAIN Append(up, p) = 1..(Len(up) + 1) /\ DOMAIN up = 1..Len(up) /\ Len(up) \in Nat
        /\ \A i \in 1..Len(up) : Append(up, p)[i] = up[i]
        /\ Append(up, p)[Len(up) + 1] = p
    BY <1>1, <1>4, AppendProperties, LenProperties
  <2>4. ASSUME ~connected, NEW i \in DOMAIN up' PROVE up'[i][1] = "unsubscribe_campaign"
    <3>1. CASE i \in 1..Len(up)
      BY <1>1, <2>1, <2>3, <2>4, <3>1 DEF RoomsFollow
    <3>2. CASE i = Len(up) + 1
      BY <1>4, <2>1, <2>3, <2>4, <3>2
    <3>3. QED
      BY <2>1, <2>3, <3>1, <3>2
  <2>5. QED
    BY <1>1, <1>2, <2>1, <2>2, <2>3, <2>4 DEF RoomsFollow, Mounted
<1>5. CASE packets = <<Subscribe(id)>>
  <2>1. n > 0 /\ connected
    BY <1>5
  <2>2. Subscribe(id)[2] = id
    BY PacketParts
  <2>3. QED
    BY <1>1, <1>4, <1>5, <2>1, <2>2
<1>6. CASE packets = <<Unsubscribe(id)>>
  <2>1. ~(n > 0)
    BY <1>6
  <2>2. Unsubscribe(id)[2] = id /\ Unsubscribe(id)[1] = "unsubscribe_campaign"
    BY PacketParts
  <2>3. QED
    BY <1>1, <1>4, <1>6, <2>1, <2>2
<1>7. QED
  BY <1>3, <1>5, <1>6

\* A page that opens joins its room unless another page holds it already.
LEMMA MountKeeps ==
  ASSUME LInv, NEW id \in Campaigns, MountPage(id)
  PROVE  LInv'
<1>1. /\ UNCHANGED <<gatewayVars, chain, rows, emitting, down, told, drops>>
      /\ roomRefCounts' = [roomRefCounts EXCEPT ![id] = roomRefCounts[id] + 1]
      /\ up' = up \o JoinPackets(id)
  BY DEF MountPage
<1>2. roomRefCounts \in [Campaigns -> Nat] /\ roomRefCounts[id] \in Nat
  BY DEF LInv, LiveType
<1>3. JoinPackets(id) = IF roomRefCounts[id] = 0 /\ connected THEN <<Subscribe(id)>> ELSE <<>>
  BY DEF JoinPackets
<1> DEFINE packets == JoinPackets(id)
<1>4. <<Subscribe(id)>> # <<>> /\ <<Subscribe(id)>> # <<Unsubscribe(id)>>
      /\ <<Unsubscribe(id)>> # <<>>
  BY PacketParts
<1>5. RoomsFollow' /\ up' \in Seq(Packets)
  <2>1. packets = <<>> /\ connected => (roomRefCounts[id] + 1 > 0 <=> Mounted(id))
    BY <1>2, <1>3, <1>4 DEF Mounted
  <2>2. packets = <<Subscribe(id)>> => roomRefCounts[id] + 1 > 0 /\ connected
    <3>1. packets = <<Subscribe(id)>> => connected
      BY <1>3, <1>4
    <3>2. roomRefCounts[id] + 1 > 0
      BY <1>2
    <3> HIDE DEF packets
    <3>3. QED
      BY <3>1, <3>2
  <2>3. packets # <<Unsubscribe(id)>> /\ (packets = <<>> \/ packets = <<Subscribe(id)>>)
    BY <1>3, <1>4
  <2>4. UNCHANGED sockets /\ roomRefCounts[id] + 1 \in Nat
    BY <1>1, <1>2 DEF gatewayVars
  <2> HIDE DEF packets
  <2>5. up' = up \o packets
    BY <1>1 DEF packets
  <2>6. QED
    BY <1>1, <2>1, <2>2, <2>3, <2>4, <2>5, PageFollows
<1>6. \E q \in Query : HeardOf(q, told[id]) /\ cache' = [cache EXCEPT ![id] = q]
  <2>1. cache[id] \in Query /\ HeardOf(cache[id], told[id])
    BY DEF LInv, LiveType, Heard
  <2>2. cache' = [cache EXCEPT ![id] = cache[id]]
        \/ cache' = [cache EXCEPT ![id] = StartFetch(id, cache[id])]
    BY DEF MountPage
  <2>3. QED
    BY <2>1, <2>2, FetchFits
<1>7. roomRefCounts' \in [Campaigns -> Nat]
  BY <1>1, <1>2
<1>8. QED
  BY <1>1, <1>5, <1>6, <1>7, QueryKeeps

\* The last page of a campaign that closes leaves the room.
LEMMA UnmountKeeps ==
  ASSUME LInv, NEW id \in Campaigns, UnmountPage(id)
  PROVE  LInv'
<1>1. /\ UNCHANGED <<gatewayVars, chain, rows, emitting, down, cache, told, drops>>
      /\ roomRefCounts' = [roomRefCounts EXCEPT ![id] = roomRefCounts[id] - 1]
      /\ up' = up \o LeavePackets(id) /\ roomRefCounts[id] > 0
  BY DEF UnmountPage, Mounted
<1>2. roomRefCounts \in [Campaigns -> Nat] /\ roomRefCounts[id] \in Nat
  BY DEF LInv, LiveType
<1>3. LeavePackets(id) = IF roomRefCounts[id] <= 1 THEN <<Unsubscribe(id)>> ELSE <<>>
  BY DEF LeavePackets
<1> DEFINE packets == LeavePackets(id)
<1>4. <<Subscribe(id)>> # <<>> /\ <<Subscribe(id)>> # <<Unsubscribe(id)>>
      /\ <<Unsubscribe(id)>> # <<>>
  BY PacketParts
<1>5. RoomsFollow' /\ up' \in Seq(Packets)
  <2>1. packets = <<>> /\ connected => (roomRefCounts[id] - 1 > 0 <=> Mounted(id))
    BY <1>1, <1>2, <1>3, <1>4 DEF Mounted
  <2>2. packets = <<Unsubscribe(id)>> => ~(roomRefCounts[id] - 1 > 0)
    <3>1. packets = <<Unsubscribe(id)>> => roomRefCounts[id] <= 1
      BY <1>3, <1>4
    <3> HIDE DEF packets
    <3>2. QED
      BY <1>2, <3>1
  <2>3. packets # <<Subscribe(id)>> /\ (packets = <<>> \/ packets = <<Unsubscribe(id)>>)
    BY <1>3, <1>4
  <2>4. UNCHANGED sockets /\ roomRefCounts[id] - 1 \in Nat
    BY <1>1, <1>2 DEF gatewayVars
  <2> HIDE DEF packets
  <2>5. up' = up \o packets
    BY <1>1 DEF packets
  <2>6. QED
    BY <1>1, <2>1, <2>2, <2>3, <2>4, <2>5, PageFollows
<1>6. cache[id] \in Query /\ HeardOf(cache[id], told[id])
      /\ cache' = [cache EXCEPT ![id] = cache[id]]
  BY <1>1 DEF LInv, LiveType, Heard
<1>7. roomRefCounts' \in [Campaigns -> Nat]
  BY <1>1, <1>2
<1>8. QED
  BY <1>1, <1>5, <1>6, <1>7, QueryKeeps

\* An event marks the query a page shows and begins its fetch anew, unless it is the
\* first fetch, which no page can have been told anything before.
LEMMA EventKeeps ==
  ASSUME LInv, ReceiveEvent
  PROVE  LInv'
<1>1. /\ UNCHANGED <<gatewayVars, chain, rows, emitting, up, roomRefCounts, drops>>
      /\ down' = Tail(down) /\ down # <<>> /\ down \in Seq(Events)
  BY DEF ReceiveEvent, LInv, LiveType
<1>2. /\ Head(down) \in Events /\ Tail(down) \in Seq(Events)
      /\ Len(Tail(down)) = Len(down) - 1
      /\ \A i \in 1..Len(Tail(down)) : Tail(down)[i] = down[i + 1]
  BY <1>1, HeadTailProperties
<1>3. /\ Len(down) \in Nat /\ Len(Tail(down)) \in Nat /\ DOMAIN down = 1..Len(down)
      /\ DOMAIN Tail(down) = 1..Len(Tail(down)) /\ Head(down) = down[1] /\ Len(down) > 0
  <2>1. Len(Tail(down)) \in Nat /\ DOMAIN Tail(down) = 1..Len(Tail(down))
    BY <1>2, LenProperties
  <2>2. Len(down) \in Nat /\ DOMAIN down = 1..Len(down) /\ Head(down) = down[1]
    BY <1>1, LenProperties DEF Head
  <2>3. QED
    BY <1>2, <2>1, <2>2
<1> DEFINE id == Head(down)[1]
           v == Head(down)[2]
<1>4. id \in Campaigns /\ v \in Nat
  BY <1>2 DEF Events
<1>5. v <= rows[id]
  <2>1. 1 \in DOMAIN down
    BY <1>3
  <2>2. QED
    BY <1>3, <2>1 DEF LInv, Committed, ToldWhatIsCommitted
<1>6. /\ cache' = IF Mounted(id) THEN [cache EXCEPT ![id] = Invalidate(id)] ELSE cache
      /\ told' = IF Mounted(id) /\ cache[id].data # None
                 THEN [told EXCEPT ![id] = IF v > told[id] THEN v ELSE told[id]] ELSE told
  BY DEF ReceiveEvent
<1> HIDE DEF id, v
<1>7. /\ cache \in [Campaigns -> Query] /\ told \in [Campaigns -> Nat]
      /\ rows \in [Campaigns -> Nat] /\ chain \in [Campaigns -> Nat]
      /\ \A o \in Campaigns : rows[o] <= chain[o] /\ told[o] <= rows[o]
                              /\ HeardOf(cache[o], told[o])
  BY DEF LInv, LiveType, Committed, Heard
<1>8. RoomsFollow'
  BY <1>1, SameRoomsFollow DEF LInv, gatewayVars
<1>9. Committed'
  <2>1. ASSUME NEW i \in DOMAIN Tail(down)
        PROVE  Tail(down)[i][2] <= rows[Tail(down)[i][1]]
    <3>1. i + 1 \in DOMAIN down /\ Tail(down)[i] = down[i + 1]
      BY <1>2, <1>3
    <3>2. QED
      BY <3>1 DEF LInv, Committed, ToldWhatIsCommitted
  <2>2. QED
    BY <1>1, <2>1 DEF LInv, Committed, ToldWhatIsCommitted
<1>10. /\ cache' \in [Campaigns -> Query] /\ told' \in [Campaigns -> Nat]
       /\ \A o \in Campaigns : told'[o] <= rows[o] /\ HeardOf(cache'[o], told'[o])
  <2>1. CASE ~Mounted(id)
    BY <1>6, <1>7, <2>1
  <2>2. CASE Mounted(id)
    <3> DEFINE marked == [cache[id] EXCEPT !.invalidated = TRUE]
               q == Refetch(id, marked)
               w == told'[id]
    <3>1. Invalidate(id) = q
      BY <2>2 DEF Invalidate
    <3>2. /\ marked \in Query /\ marked.data = cache[id].data /\ marked.invalidated
          /\ marked.fetching = cache[id].fetching
      BY <1>4, <1>7 DEF Query
    <3> HIDE DEF marked
    <3>3. /\ q \in Query /\ q.data = marked.data /\ q.invalidated
          /\ q.fetching = IF Idle(marked) \/ marked.data # None THEN chain[id]
                                                               ELSE marked.fetching
      <4>1. /\ StartFetch(id, marked) \in Query /\ StartFetch(id, marked).data = marked.data
            /\ StartFetch(id, marked).invalidated = marked.invalidated
            /\ StartFetch(id, marked).fetching = chain[id]
        BY <1>4, <1>7, <3>2 DEF StartFetch, Query
      <4>2. QED
        BY <3>2, <4>1 DEF Refetch
    <3> HIDE DEF q
    <3>4. /\ told' \in [Campaigns -> Nat] /\ w <= rows[id]
          /\ \A o \in Campaigns \ {id} : told'[o] = told[o]
          /\ cache[id].data = None => w = told[id]
      BY <1>4, <1>5, <1>6, <1>7
    <3> HIDE DEF w
    <3>5. HeardOf(q, w)
      <4>1. w \in Nat /\ rows[id] \in Nat /\ chain[id] \in Nat /\ rows[id] <= chain[id]
        BY <1>4, <1>7, <3>4 DEF w
      <4>2. q.data = None => w = 0
        BY <1>4, <1>7, <3>2, <3>3, <3>4 DEF HeardOf
      <4>3. ~Idle(q) => w <= q.fetching
        <5>1. CASE Idle(marked) \/ marked.data # None
          BY <3>3, <3>4, <4>1, <5>1
        <5>2. CASE ~Idle(marked) /\ marked.data = None
          BY <1>4, <1>7, <3>2, <3>3, <3>4, <5>2 DEF HeardOf, Idle
        <5>3. QED
          BY <5>1, <5>2
      <4>4. QED
        BY <3>3, <4>2, <4>3 DEF HeardOf
    <3>6. cache' = [cache EXCEPT ![id] = q]
      BY <1>6, <2>2, <3>1
    <3>7. QED
      BY <1>4, <1>7, <3>3, <3>4, <3>5, <3>6 DEF w
  <2>3. QED
    BY <2>1, <2>2
<1>11. LiveType'
  BY <1>1, <1>2, <1>10 DEF LInv, LiveType, GatewayType, gatewayVars
<1>12. Heard'
  <2>1. \A o \in Campaigns : HeardOf(cache[o], told[o])' <=> HeardOf(cache'[o], told'[o])
    BY DEF HeardOf, Idle
  <2>2. QED
    BY <1>1, <1>10, <2>1 DEF Heard
<1>13. QED
  BY <1>8, <1>9, <1>11, <1>12 DEF LInv

-----------------------------------------------------------------------------
(* The theorems. *)

\* Every step keeps the invariant.
LEMMA StepKeepsLInv == LInv /\ [LiveNext]_liveVars => LInv'
<1> SUFFICES ASSUME LInv, [LiveNext]_liveVars PROVE LInv'
  OBVIOUS
<1>1. CASE UNCHANGED liveVars
  <2>1. LiveType'
    BY <1>1 DEF LInv, LiveType, GatewayType, liveVars, gatewayVars
  <2>2. RoomsFollow'
    BY <1>1, SameRoomsFollow DEF LInv, liveVars, gatewayVars
  <2>3. Committed' /\ Heard'
    BY <1>1 DEF LInv, Committed, ToldWhatIsCommitted, Heard, HeardOf, Idle, liveVars
  <2>4. QED
    BY <2>1, <2>2, <2>3 DEF LInv
<1>2. ASSUME NEW id \in Campaigns, CampaignStep(id) PROVE LInv'
  BY <1>2, EmitKeeps, CommitKeeps, MountKeeps, UnmountKeeps, FetchEndKeeps DEF CampaignStep
<1>3. QED
  BY <1>1, <1>2, BroadcastKeeps, CrashKeeps, ReceivesKeeps, ConnectKeeps, DropKeeps, EventKeeps,
     OthersStepKeeps DEF LiveNext

\* The browser's socket, the database and the cache of the pages fit in every state.
THEOREM LiveFits == LiveSpec => []LInv
<1>1. LiveInit /\ [][LiveNext]_liveVars => []LInv
  BY InitLInv, StepKeepsLInv, PTL
<1>2. QED
  BY <1>1, PTL DEF LiveSpec

\* RoomsMatchPages: with nothing under way the browser is in the rooms of exactly the
\* campaigns its pages show.
THEOREM RoomsMatch == LiveSpec => []RoomsMatchPages
<1>1. LInv => RoomsMatchPages
  <2> SUFFICES ASSUME LInv, connected, up = <<>>
               PROVE  sockets[Browser].rooms = {campaignRoom(id) : id \in Held}
    BY DEF RoomsMatchPages
  <2>1. DOMAIN up = {}
    OBVIOUS
  <2>2. \A id \in Campaigns : campaignRoom(id) \in sockets[Browser].rooms <=> Mounted(id)
    BY <2>1 DEF LInv, RoomsFollow, Follows, LastWord
  <2>3. sockets[Browser].rooms \subseteq {campaignRoom(id) : id \in Campaigns}
    BY DEF LInv, RoomsFollow
  <2>4. QED
    BY <2>2, <2>3 DEF Held
<1>2. QED
  BY <1>1, LiveFits, PTL

\* ToldWhatIsCommitted: every event on its way to the browser is in the database.
THEOREM TellsWhatIsCommitted == LiveSpec => []ToldWhatIsCommitted
<1>1. LInv => ToldWhatIsCommitted
  BY DEF LInv, Committed
<1>2. QED
  BY <1>1, LiveFits, PTL

\* TellingShows: a page that settles after it was told of an event shows it.
THEOREM SettledPagesShow == LiveSpec => []TellingShows
<1>1. LInv => TellingShows
  BY DEF LInv, Heard, HeardOf, TellingShows
<1>2. QED
  BY <1>1, LiveFits, PTL

\* PrivateRoomsNeedLiveToken: whoever enters a private room has a token for it that is
\* genuine and unexpired at that moment.
THEOREM PrivateRoomsGuarded == LiveSpec => PrivateRoomsNeedLiveToken
<1>1. LInv /\ [LiveNext]_liveVars => [EntersWithLiveToken]_gatewayVars
  <2> SUFFICES ASSUME LInv, [LiveNext]_liveVars PROVE EntersWithLiveToken \/ UNCHANGED gatewayVars
    OBVIOUS
  <2>0. GatewayType /\ Browser \in Clients /\ sockets \in [Clients -> Socket]
    BY LiveConstants DEF LInv, LiveType, GatewayType
  <2>1. ASSUME NEW id \in Campaigns, CampaignStep(id) PROVE UNCHANGED gatewayVars
    BY <2>1 DEF CampaignStep, ContractEmits, Commit, MountPage, UnmountPage, FetchSucceeds,
                FetchFails, GrowOld
  <2>2. ASSUME Broadcast \/ ServerCrash \/ ReceiveEvent \/ UNCHANGED liveVars
        PROVE  UNCHANGED gatewayVars
    BY <2>2 DEF Broadcast, ServerCrash, ReceiveEvent, liveVars
  <2>3. ASSUME NEW s \in Socket, sockets' = [sockets EXCEPT ![Browser] = s],
               \A sub : notificationsRoom(sub) \notin s.rooms \ sockets[Browser].rooms
        PROVE  EntersWithLiveToken
    BY <2>0, <2>3 DEF EntersWithLiveToken
  <2>4. CASE ServerReceives
    <3> DEFINE b == sockets[Browser]
    <3>1. PICK id \in Campaigns :
            /\ campaignRoom(id) \in Rooms
            /\ Join(Browser, campaignRoom(id)) \/ Leave(Browser, campaignRoom(id))
      BY <2>4, ReceivesEffect
    <3>2. PICK rooms \in {b.rooms \cup {campaignRoom(id)}, b.rooms \ {campaignRoom(id)}} :
            sockets' = [sockets EXCEPT ![Browser] = [open |-> TRUE, token |-> b.token,
                                                     rooms |-> rooms]]
      BY <2>0, <3>1, RoomSteps
    <3>3. [open |-> TRUE, token |-> b.token, rooms |-> rooms] \in Socket
      BY <2>0, <3>1 DEF Socket
    <3>4. \A sub : notificationsRoom(sub) \notin rooms \ b.rooms
      BY RoomsDiffer
    <3>5. QED
      BY <2>3, <3>2, <3>3, <3>4
  <2>5. CASE Connect
    <3>1. sockets' = [sockets EXCEPT ![Browser] = [open |-> TRUE, token |-> NoToken,
                                                   rooms |-> {}]]
      BY <2>5 DEF Connect, HandleConnection
    <3>2. [open |-> TRUE, token |-> NoToken, rooms |-> {}] \in Socket
      BY HandshakeTypes DEF Socket
    <3>3. QED
      BY <2>3, <3>1, <3>2
  <2>6. CASE Drop
    <3>1. sockets' = [sockets EXCEPT ![Browser] = Closed]
      BY <2>6 DEF Drop, Disconnect
    <3>2. QED
      BY <2>3, <3>1, HandshakeTypes
  <2>7. CASE OthersStep
    <3>1. CASE Tick
      BY <2>0, <3>1 DEF Tick, EntersWithLiveToken
    <3>2. ASSUME NEW c \in Clients \ {Browser}, OtherClientStep(c) PROVE EntersWithLiveToken
      BY <2>0, <3>2, OthersEnterWithLiveToken
    <3>3. QED
      BY <2>7, <3>1, <3>2 DEF OthersStep
  <2>8. QED
    BY <2>1, <2>2, <2>4, <2>5, <2>6, <2>7 DEF LiveNext
<1>2. LInv /\ [LiveNext]_liveVars =>
        [\A c \in Clients, sub \in Subs :
           LET room == notificationsRoom(sub)
               token == sockets'[c].token
           IN room \in sockets'[c].rooms /\ room \notin sockets[c].rooms
              => token.genuine /\ now < token.exp /\ sub = token.sub
                 /\ NOTIFICATIONS_READ_SCOPE \in token.scopes]_gatewayVars
  BY <1>1 DEF EntersWithLiveToken
<1>3. [][LiveNext]_liveVars /\ []LInv => PrivateRoomsNeedLiveToken
  BY <1>2, PTL DEF PrivateRoomsNeedLiveToken
<1>4. LiveSpec => [][LiveNext]_liveVars
  BY PTL DEF LiveSpec
<1>5. QED
  BY <1>3, <1>4, LiveFits, PTL

=============================================================================
