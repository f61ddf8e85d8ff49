------------------------------ MODULE Gateway -------------------------------
(***************************************************************************)
(* The server's WebSocket gateway: sockets, the rooms they are in, and the *)
(* token that guards the private notification rooms.  Campaign and         *)
(* activity rooms are open to every socket.                                *)
(***************************************************************************)
EXTENDS Naturals, SequencesExt

CONSTANTS
  Campaigns, Clients,
  Subs,          \* principals a token may name
  AuthSecret,    \* whether WS_AUTH_SECRET is set
  MaxNow         \* bound on the clock

ASSUME GatewayConstants == AuthSecret \in BOOLEAN /\ MaxNow \in Nat

VARIABLES now, sockets

gatewayVars == <<now, sockets>>

NOTIFICATIONS_READ_SCOPE == "notifications:read"
ACTIVITY_ROOM == <<"activity">>
campaignRoom(id) == <<"campaign", id>>
notificationsRoom(sub) == <<"notifications", sub>>

\* What a handshake may carry: nothing, or a token.  A malformed token, one of
\* another algorithm and one signed with another key are all "not genuine".
NoToken == [given |-> FALSE]
Tokens == [given : {TRUE}, genuine : BOOLEAN, sub : Subs,
           scopes : SUBSET {NOTIFICATIONS_READ_SCOPE}, exp : 1..(MaxNow + 1)]
Handshakes == Tokens \cup {NoToken}

Closed == [open |-> FALSE, token |-> NoToken, rooms |-> {}]

-----------------------------------------------------------------------------
verifyWsToken(token) ==
  AuthSecret /\ token.given /\ token.genuine /\ now < token.exp

MayUsePrivateRooms(token) ==
  verifyWsToken(token) /\ NOTIFICATIONS_READ_SCOPE \in token.scopes

\* the claims kept at connection time, never checked again
MayUsePrivateRoomsOnce(token) ==                                  \* mutant
  token.given /\ NOTIFICATIONS_READ_SCOPE \in token.scopes

\* WsAuthGuard verifies the handshake's token again on every private message.
CanActivate(token) == MayUsePrivateRooms(token)

SetRooms(c, rooms) == sockets' = [sockets EXCEPT ![c].rooms = rooms]

\* A socket without a token may stay; one whose token is bad is dropped.
HandleConnection(c, token) ==
  /\ ~sockets[c].open
  /\ token.given => verifyWsToken(token)
  /\ sockets' = [sockets EXCEPT ![c] = [open |-> TRUE, token |-> token, rooms |-> {}]]

Disconnect(c) ==
  /\ sockets[c].open
  /\ sockets' = [sockets EXCEPT ![c] = Closed]

Join(c, room)  == sockets[c].open /\ SetRooms(c, sockets[c].rooms \cup {room})
Leave(c, room) == sockets[c].open /\ SetRooms(c, sockets[c].rooms \ {room})

SubscribeNotifications(c) ==
  /\ CanActivate(sockets[c].token)
  /\ Join(c, notificationsRoom(sockets[c].token.sub))

UnsubscribeNotifications(c) ==
  /\ CanActivate(sockets[c].token)
  /\ Leave(c, notificationsRoom(sockets[c].token.sub))

\* the sockets an event of the campaign is emitted to, room by room
Audience(room) == {c \in Clients : room \in sockets[c].rooms}

Copies(c, id) == (IF c \in Audience(campaignRoom(id)) THEN 1 ELSE 0)
                 + (IF c \in Audience(ACTIVITY_ROOM) THEN 1 ELSE 0)

Tick == now < MaxNow /\ now' = now + 1 /\ UNCHANGED sockets

\* what clients other than this project's browser client may do
OtherClientStep(c) ==
  \/ \E token \in Handshakes : HandleConnection(c, token)
  \/ Disconnect(c)
  \/ SubscribeNotifications(c)
  \/ UnsubscribeNotifications(c)
  \/ Join(c, ACTIVITY_ROOM)
  \/ Leave(c, ACTIVITY_ROOM)

GatewayInit == now = 0 /\ sockets = [c \in Clients |-> Closed]

-----------------------------------------------------------------------------
\* A socket enters a private room only while its token is genuine, unexpired and
\* of the right scope, and only the room of the principal the token names:
\* handleSubscribeNotifications must not trust what handleConnection once found.
PrivateRoomsNeedLiveToken ==
  [][\A c \in Clients, sub \in Subs :
       LET room == notificationsRoom(sub)
           token == sockets'[c].token
       IN room \in sockets'[c].rooms /\ room \notin sockets[c].rooms
          => token.genuine /\ now < token.exp /\ sub = token.sub
             /\ NOTIFICATIONS_READ_SCOPE \in token.scopes]_gatewayVars
=============================================================================
