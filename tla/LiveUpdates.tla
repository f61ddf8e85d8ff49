---------------------------- MODULE LiveUpdates -----------------------------
(***************************************************************************)
(* A campaign event from the database to the page: the server emits what   *)
(* it has committed to the rooms, the browser's one shared socket holds    *)
(* the rooms its pages need, and each event delivered invalidates the      *)
(* query the page shows.  Pages read the contract, not the database.       *)
(***************************************************************************)
EXTENDS Gateway, Integers

CONSTANTS
  Browser,     \* the client that runs socketManager
  MaxChain,    \* events per campaign
  MaxPages,    \* pages of one campaign open at a time
  MaxWire      \* packets under way each way, and drops of the connection

ASSUME LiveConstants ==
  /\ Browser \in Clients /\ IsFiniteSet(Campaigns)
  /\ {MaxChain, MaxPages, MaxWire} \subseteq Nat

VARIABLES
  chain, rows,      \* per campaign: events the contract emitted, and committed rows
  emitting,         \* committed, broadcast not yet done
  up, down,         \* packets to and from the browser; `up` also buffers offline
  roomRefCounts,
  cache,            \* the query ['campaign', id] of every campaign
  told, drops       \* history: newest event a loaded page heard of; drops so far

browserVars == <<up, roomRefCounts, cache, told>>
liveVars == <<gatewayVars, chain, rows, emitting, up, down, roomRefCounts, cache, told, drops>>

None == -1          \* no data, no fetch
NoEvent == <<>>

connected == sockets[Browser].open
Mounted(id) == roomRefCounts[id] > 0

Subscribe(id)   == <<"subscribe_campaign", id>>
Unsubscribe(id) == <<"unsubscribe_campaign", id>>

-----------------------------------------------------------------------------
(* The server: commit, then emit. *)

ContractEmits(id) ==
  /\ chain[id] < MaxChain
  /\ chain' = [chain EXCEPT ![id] = @ + 1]
  /\ UNCHANGED <<gatewayVars, rows, emitting, down, browserVars, drops>>

\* persistEvent commits an event once; a replayed one is not broadcast either.
Unseen(id) == rows[id] < chain[id]

Commit(id) ==
  /\ emitting = NoEvent /\ Unseen(id)
  /\ rows' = [rows EXCEPT ![id] = @ + 1]
  /\ emitting' = <<id, rows[id] + 1>>
  /\ UNCHANGED <<gatewayVars, chain, down, browserVars, drops>>

BroadcastEarly ==                                                 \* mutant
  \E id \in Campaigns :
    /\ rows[id] < chain[id]
    /\ connected /\ campaignRoom(id) \in sockets[Browser].rooms /\ Len(down) < MaxWire
    /\ down' = Append(down, <<id, rows[id] + 1>>)
    /\ UNCHANGED <<gatewayVars, chain, rows, emitting, browserVars, drops>>

Broadcast ==
  /\ emitting # NoEvent
  /\ Len(down) + Copies(Browser, emitting[1]) <= MaxWire
  /\ down' = down \o [i \in 1..Copies(Browser, emitting[1]) |-> emitting]
  /\ emitting' = NoEvent
  /\ UNCHANGED <<gatewayVars, chain, rows, browserVars, drops>>

\* The process stops between the two: the event is never broadcast again.
ServerCrash ==
  /\ emitting # NoEvent
  /\ emitting' = NoEvent
  /\ UNCHANGED <<gatewayVars, chain, rows, down, browserVars, drops>>

ServerReceives ==
  /\ connected /\ up # <<>>
  /\ LET id == Head(up)[2]
     IN IF Head(up) = Subscribe(id) THEN Join(Browser, campaignRoom(id))
                                    ELSE Leave(Browser, campaignRoom(id))
  /\ up' = Tail(up)
  /\ UNCHANGED <<now, chain, rows, emitting, down, roomRefCounts, cache, told, drops>>

-----------------------------------------------------------------------------
(* The browser's socket. *)

Held == {id \in Campaigns : Mounted(id)}

RejoinNone == <<>>                                                \* mutant

\* the listener of 'connect' subscribes to every room held
Rejoin == SetToSeq({Subscribe(id) : id \in Held})

\* socket.io flushes what was emitted offline, then runs the listeners; rooms
\* lived on the old socket.  The browser sends no token.
Connect ==
  /\ HandleConnection(Browser, NoToken)
  /\ up' = up \o Rejoin
  /\ UNCHANGED <<now, chain, rows, emitting, down, roomRefCounts, cache, told, drops>>

\* Packets under way are lost both ways.
Drop ==
  /\ drops < MaxWire
  /\ Disconnect(Browser)
  /\ up' = <<>> /\ down' = <<>> /\ drops' = drops + 1
  /\ UNCHANGED <<now, chain, rows, emitting, roomRefCounts, cache, told>>

JoinPackets(id) ==
  IF roomRefCounts[id] = 0 /\ connected THEN <<Subscribe(id)>> ELSE <<>>

LeavePacketsAlways(id) == <<Unsubscribe(id)>>                     \* mutant

\* An unsubscription is emitted, connected or not.
LeavePackets(id) == IF roomRefCounts[id] <= 1 THEN <<Unsubscribe(id)>> ELSE <<>>

-----------------------------------------------------------------------------
(* The query cache (React Query, as configured in queryClient.ts). *)

Idle(q) == q.fetching = None

\* A fetch answers with some state of the contract no older than its start.
StartFetch(id, q) == [q EXCEPT !.fetching = chain[id]]

RefetchShared(id, q) == IF Idle(q) THEN StartFetch(id, q) ELSE q   \* mutant

Refetch(id, q) == IF Idle(q) \/ q.data # None THEN StartFetch(id, q) ELSE q

\* invalidateQueries: mark the query, and refetch it if a page shows it.  A fetch
\* under way is cancelled and begun anew, unless it is the first one: that is shared.
Invalidate(id) ==
  LET marked == [cache[id] EXCEPT !.invalidated = TRUE]
  IN IF Mounted(id) THEN Refetch(id, marked) ELSE marked

\* Mounting a page: join the room, and fetch unless fresh data (younger than
\* staleTime) or a fetch is there.
MountPage(id) ==
  /\ roomRefCounts[id] < MaxPages /\ Len(up) < MaxWire
  /\ roomRefCounts' = [roomRefCounts EXCEPT ![id] = @ + 1]
  /\ up' = up \o JoinPackets(id)
  /\ LET q == cache[id]
         fresh == q.data # None /\ ~q.old /\ ~q.invalidated
     IN cache' = [cache EXCEPT ![id] = IF fresh \/ ~Idle(q) THEN q ELSE StartFetch(id, q)]
  /\ UNCHANGED <<gatewayVars, chain, rows, emitting, down, told, drops>>

UnmountPage(id) ==
  /\ Mounted(id) /\ Len(up) < MaxWire
  /\ roomRefCounts' = [roomRefCounts EXCEPT ![id] = @ - 1]
  /\ up' = up \o LeavePackets(id)
  /\ UNCHANGED <<gatewayVars, chain, rows, emitting, down, cache, told, drops>>

FetchSucceeds(id) ==
  /\ ~Idle(cache[id])
  /\ \E v \in cache[id].fetching..chain[id] :
       cache' = [cache EXCEPT ![id] = [data |-> v, invalidated |-> FALSE,
                                       old |-> FALSE, fetching |-> None]]
  /\ UNCHANGED <<gatewayVars, chain, rows, emitting, up, down, roomRefCounts, told, drops>>

\* after its one retry
FetchFails(id) ==
  /\ ~Idle(cache[id])
  /\ cache' = [cache EXCEPT ![id].fetching = None]
  /\ UNCHANGED <<gatewayVars, chain, rows, emitting, up, down, roomRefCounts, told, drops>>

\* staleTime passes.  Nothing is fetched: there is no polling.
GrowOld(id) ==
  /\ cache[id].data # None /\ ~cache[id].old
  /\ cache' = [cache EXCEPT ![id].old = TRUE]
  /\ UNCHANGED <<gatewayVars, chain, rows, emitting, up, down, roomRefCounts, told, drops>>

\* The listeners of all pages hear each event; those of its campaign invalidate.
ReceiveEvent ==
  /\ down # <<>>
  /\ down' = Tail(down)
  /\ LET id == Head(down)[1]
         v == Head(down)[2]
     IN /\ cache' = IF Mounted(id) THEN [cache EXCEPT ![id] = Invalidate(id)] ELSE cache
        /\ told' = IF Mounted(id) /\ cache[id].data # None
                   THEN [told EXCEPT ![id] = IF v > @ THEN v ELSE @] ELSE told
  /\ UNCHANGED <<gatewayVars, chain, rows, emitting, up, roomRefCounts, drops>>

-----------------------------------------------------------------------------
LiveInit ==
  /\ GatewayInit
  /\ chain = [id \in Campaigns |-> 0] /\ rows = chain /\ told = chain
  /\ emitting = NoEvent /\ up = <<>> /\ down = <<>> /\ drops = 0
  /\ roomRefCounts = chain
  /\ cache = [id \in Campaigns |-> [data |-> None, invalidated |-> FALSE,
                                    old |-> FALSE, fetching |-> None]]

CampaignStep(id) ==
  \/ ContractEmits(id) \/ Commit(id) \/ MountPage(id) \/ UnmountPage(id)
  \/ FetchSucceeds(id) \/ FetchFails(id) \/ GrowOld(id)

OthersStep ==
  /\ Tick \/ \E c \in Clients \ {Browser} : OtherClientStep(c) /\ now' = now
  /\ UNCHANGED <<chain, rows, emitting, down, browserVars, drops>>

LiveNext ==
  \/ \E id \in Campaigns : CampaignStep(id)
  \/ Broadcast \/ ServerCrash \/ ServerReceives \/ Connect \/ Drop \/ ReceiveEvent
  \/ OthersStep

\* The event loops run what is ready; socket.io reconnects for ever; a read of the
\* contract ends.  Nobody has to open or close pages, or emit events.
LiveFairness ==
  /\ WF_liveVars(Broadcast) /\ WF_liveVars(ServerReceives) /\ WF_liveVars(ReceiveEvent)
  /\ WF_liveVars(Connect)
  /\ \A id \in Campaigns : WF_liveVars(Commit(id)) /\ WF_liveVars(FetchSucceeds(id))

LiveSpec == LiveInit /\ [][LiveNext]_liveVars /\ LiveFairness

-----------------------------------------------------------------------------
\* Once what the browser sent has arrived, it is in the rooms of exactly the
\* campaigns its pages show, whatever pages opened and closed while it was offline.
RoomsMatchPages ==
  connected /\ up = <<>>
    => sockets[Browser].rooms = {campaignRoom(id) : id \in Held}

\* A browser is never told of an event that the database does not hold, so that a
\* refetch finds it (CampaignEventsGateway.broadcast).
ToldWhatIsCommitted ==
  \A i \in DOMAIN down : down[i][2] <= rows[down[i][1]]

\* A page that loaded, was told of an event and has settled shows a state that
\* includes the event: no answer from before it overwrites the refetch, and a
\* failed refetch leaves the query marked.
TellingShows ==
  \A id \in Campaigns :
    LET q == cache[id]
    IN Idle(q) /\ q.data # None /\ ~q.invalidated => q.data >= told[id]

\* A page that stays open comes to be in its campaign's room, however often the
\* connection dropped before and whatever was still buffered.
PagesJoinRooms ==
  \A id \in Campaigns :
    Mounted(id) ~> campaignRoom(id) \in sockets[Browser].rooms \/ ~Mounted(id)
=============================================================================
