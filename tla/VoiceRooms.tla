------------------------------ MODULE VoiceRooms ------------------------------
(***************************************************************************)
(* Voice rooms: who sits in which room, and which reservations back them.  *)
(*                                                                         *)
(* A WebSocket client handles its events one at a time in its ReadPump:    *)
(* join and leave run there.  Removals also come from the hub (the client  *)
(* disconnected, or it was the user's last connection), from the callback  *)
(* of a failed PeerConnection, from the deletion of the channel, from the  *)
(* grace timer of an empty room and from the shutdown.  Each of them takes *)
(* the manager's, the room's and the user map's mutex one after the other, *)
(* never together (but for the timer), so a step here is one critical      *)
(* section.                                                                *)
(*                                                                         *)
(* Room instances and peers are numbered in the order they are made, as    *)
(* removePeer compares pointers.  Media, signalling and rate limits are    *)
(* left out; permissions are reduced to the channel's existence.           *)
(***************************************************************************)
EXTENDS Naturals, FiniteSets

CONSTANTS
    Users, Clients, Channels,
    UserOf,             \* the user of each WebSocket connection
    MaxRoomPeers,       \* VOICE_MAX_ROOM_PEERS
    MaxRoomsPerUser,    \* VOICE_MAX_ROOMS_PER_USER
    MaxJoins,           \* bound: voice_join events
    MaxRooms,           \* bound: room instances
    Deletable,          \* bound: channels that may be deleted
    MayStop,            \* bound: may the server be shut down?
    None

Assumptions ==
    /\ UserOf \in [Clients -> Users]
    /\ IsFiniteSet(Users) /\ IsFiniteSet(Clients) /\ IsFiniteSet(Channels)
    /\ {"hub", "pc", "end"} \cap Clients = {}    \* the other threads that remove peers
    /\ MaxRoomPeers \in Nat \ {0} /\ MaxRoomsPerUser \in Nat \ {0}
    /\ MaxJoins \in Nat /\ MaxRooms \in Nat
    /\ Deletable \subseteq Channels /\ MayStop \in BOOLEAN
    /\ None \notin Users \cup Clients \cup Channels \cup (1 .. MaxRooms) \cup (1 .. MaxJoins)

Rooms == 1 .. MaxRooms
Peers == 1 .. MaxJoins

ASSUME RoomsAssumption == Assumptions

VARIABLES
    rooms,      \* Manager.rooms: the room instance of each channel
    userRooms,  \* Manager.userRooms: the channels each user has reserved
    home,       \* Room.channelID, None while the instance does not exist
    closed,     \* Room.closed
    seat,       \* Room.peers: per instance, the peer of each user
    timer,      \* instances whose cleanup timer is armed
    fired,      \* per instance, timer callbacks started and waiting for the locks
    owner,      \* Peer.signalingClient, None while the peer does not exist
    room,       \* Peer.room
    joins, nPeers, nRooms,  \* how many were made so far
    pc, chan, target,       \* per client: where its ReadPump stands, on what
    hub,        \* the unregister the hub is handling
    removals,   \* removePeer and destroy calls under way, one per peer and caller
    dying,      \* instances taken out of the map, destroy still to be called
    channel,    \* in the database "live", then "deleted", "destroyed" after DestroyRoom
    life,       \* "up", "closing" (connections closed), "stopped", "swapped"
    seen        \* per channel, the users its audience was last told are in the call

mapVars    == <<rooms, userRooms>>
roomVars   == <<home, closed, seat, timer, fired>>
peerVars   == <<owner, room>>
countVars  == <<joins, nPeers, nRooms>>
clientVars == <<pc, chan, target>>
endVars    == <<dying, channel, life>>
vars == <<mapVars, roomVars, peerVars, countVars, clientVars, hub, removals, endVars, seen>>

UserOfPeer(p) == UserOf[owner[p]]
Seated(r) == {u \in Users : seat[r][u] # None}

Idle == [client |-> None, phase |-> "idle", list |-> {}]
Removal == [peer : Peers, by : Clients \cup {"hub", "pc", "end"},
            at : {"delete", "untrack", "leave", "notice", "free"}]

TypeOK ==
    /\ rooms \in [Channels -> Rooms \cup {None}]
    /\ userRooms \in [Users -> SUBSET Channels]
    /\ home \in [Rooms -> Channels \cup {None}]
    /\ closed \in SUBSET Rooms
    /\ seat \in [Rooms -> [Users -> Peers \cup {None}]]
    /\ timer \in SUBSET Rooms
    /\ fired \in [Rooms -> Nat]
    /\ owner \in [Peers -> Clients \cup {None}]
    /\ room \in [Peers -> Rooms \cup {None}]
    /\ joins \in 0 .. MaxJoins /\ nPeers \in 0 .. joins /\ nRooms \in 0 .. MaxRooms
    /\ pc \in [Clients -> {"off", "idle", "reserve", "loop", "lookup", "add", "fail",
                           "cancel", "announce", "leaving", "gone", "done"}]
    /\ chan \in [Clients -> Channels \cup {None}]
    /\ target \in [Clients -> Rooms \cup {None}]
    /\ hub \in [client : Clients \cup {None}, phase : {"idle", "client", "user"},
                list : SUBSET Channels]
    /\ removals \in SUBSET Removal
    /\ dying \in SUBSET [room : Rooms, notice : BOOLEAN]
    /\ channel \in [Channels -> {"live", "deleted", "destroyed"}]
    /\ life \in {"up", "closing", "stopped", "swapped"}
    /\ seen \in [Channels -> SUBSET Users]

Init ==
    /\ rooms = [c \in Channels |-> None]
    /\ userRooms = [u \in Users |-> {}]
    /\ home = [r \in Rooms |-> None]
    /\ closed = {}
    /\ seat = [r \in Rooms |-> [u \in Users |-> None]]
    /\ timer = {}
    /\ fired = [r \in Rooms |-> 0]
    /\ owner = [p \in Peers |-> None]
    /\ room = [p \in Peers |-> None]
    /\ joins = 0 /\ nPeers = 0 /\ nRooms = 0
    /\ pc = [c \in Clients |-> "off"]
    /\ chan = [c \in Clients |-> None]
    /\ target = [c \in Clients |-> None]
    /\ hub = Idle
    /\ removals = {}
    /\ dying = {}
    /\ channel = [c \in Channels |-> "live"]
    /\ life = "up"
    /\ seen = [c \in Channels |-> {}]

Goto(c, l) == pc' = [pc EXCEPT ![c] = l]

\* Join returns.
Answer(c) ==
    /\ Goto(c, "idle")
    /\ chan' = [chan EXCEPT ![c] = None]
    /\ target' = [target EXCEPT ![c] = None]

\* trackUserRoom(user, channel, false)
Untrack(u, ch) == userRooms' = [userRooms EXCEPT ![u] = @ \ {ch}]

HubBusy == \E m \in removals : m.by = "hub"

-----------------------------------------------------------------------------
\* voice_join, in the client's ReadPump.

\* handleVoiceJoin: the permission check, against the database.
CanConnectVoice(c, ch) ==
    /\ pc[c] = "idle" /\ life = "up"
    /\ channel[ch] = "live"
    /\ joins < MaxJoins
    /\ joins' = joins + 1
    /\ Goto(c, "reserve")
    /\ chan' = [chan EXCEPT ![c] = ch]
    /\ UNCHANGED <<mapVars, roomVars, peerVars, nPeers, nRooms, target, hub, removals, endVars, seen>>

\* Join's first check of stopped, then reserveUserRoom.
ReserveUserRoom(c) ==
    /\ pc[c] = "reserve"
    /\ IF \/ life \in {"stopped", "swapped"}
          \/ chan[c] \in userRooms[UserOf[c]]
          \/ Cardinality(userRooms[UserOf[c]]) >= MaxRoomsPerUser
       THEN Answer(c) /\ UNCHANGED userRooms
       ELSE /\ Goto(c, "loop") /\ UNCHANGED <<chan, target>>
            /\ userRooms' = [userRooms EXCEPT ![UserOf[c]] = @ \cup {chan[c]}]
    /\ UNCHANGED <<rooms, roomVars, peerVars, countVars, hub, removals, endVars, seen>>

JoinLoop(c) ==
    /\ pc[c] = "loop"
    /\ Goto(c, IF life \in {"stopped", "swapped"} THEN "fail" ELSE "lookup")
    /\ UNCHANGED <<mapVars, roomVars, peerVars, countVars, chan, target, hub, removals, endVars, seen>>

\* getRoom and, when there is none, createRoom, which looks again under the lock.
CreateRoom(c) ==
    /\ pc[c] = "lookup"
    /\ \/ /\ rooms[chan[c]] # None
          /\ target' = [target EXCEPT ![c] = rooms[chan[c]]]
          /\ UNCHANGED <<rooms, home, nRooms>>
       \/ /\ rooms[chan[c]] = None
          /\ nRooms < MaxRooms
          /\ nRooms' = nRooms + 1
          /\ home' = [home EXCEPT ![nRooms'] = chan[c]]
          /\ rooms' = [rooms EXCEPT ![chan[c]] = nRooms']
          /\ target' = [target EXCEPT ![c] = nRooms']
    /\ Goto(c, "add")
    /\ UNCHANGED <<userRooms, closed, seat, timer, fired, peerVars, joins, nPeers, chan, hub,
                   removals, endVars, seen>>

\* The critical section of Room.addPeer.
AddPeer(c) ==
    LET r == target[c]
        u == UserOf[c] IN
    /\ pc[c] = "add"
    /\ \/ r \in closed /\ Goto(c, "loop") /\ UNCHANGED <<seat, peerVars, nPeers>>
       \/ /\ r \notin closed
          /\ seat[r][u] # None \/ Cardinality(Seated(r)) >= MaxRoomPeers
          /\ Goto(c, "fail")
          /\ UNCHANGED <<seat, peerVars, nPeers>>
       \/ /\ r \notin closed
          /\ seat[r][u] = None /\ Cardinality(Seated(r)) < MaxRoomPeers
          /\ nPeers' = nPeers + 1
          /\ seat' = [seat EXCEPT ![r][u] = nPeers']
          /\ owner' = [owner EXCEPT ![nPeers'] = c]
          /\ room' = [room EXCEPT ![nPeers'] = r]
          /\ Goto(c, "cancel")
    /\ UNCHANGED <<mapVars, home, closed, timer, fired, joins, nRooms, chan, target, hub,
                   removals, endVars, seen>>

\* An error after the reservation gives it back.
JoinFails(c) ==
    /\ pc[c] = "fail"
    /\ Untrack(UserOf[c], chan[c])
    /\ Answer(c)
    /\ UNCHANGED <<rooms, roomVars, peerVars, countVars, hub, removals, endVars, seen>>

\* Stops the timer; a callback that already started is not recalled.
CancelCleanup(c) ==
    /\ pc[c] = "cancel"
    /\ timer' = timer \ {target[c]}
    /\ Goto(c, "announce")
    /\ UNCHANGED <<mapVars, home, closed, seat, fired, peerVars, countVars, chan, target, hub,
                   removals, endVars, seen>>

\* voice_state_update to the channel's audience.
AnnounceJoin(c) ==
    /\ pc[c] = "announce"
    /\ seen' = [seen EXCEPT ![chan[c]] = @ \cup {UserOf[c]}]
    /\ Answer(c)
    /\ UNCHANGED <<mapVars, roomVars, peerVars, countVars, hub, removals, endVars>>

-----------------------------------------------------------------------------
\* Removals.  A call of removePeer is first "delete", then "untrack", then
\* "leave"; the thread that called it waits for it.

CallRemovePeer(p, thread) ==
    removals' = removals \cup {[peer |-> p, by |-> thread, at |-> "delete"]}

Return(m) ==
    /\ removals' = removals \ {m}
    /\ pc' = IF m.by \in Clients THEN [pc EXCEPT ![m.by] = "idle"] ELSE pc

GoOn(m, l) == removals' = (removals \ {m}) \cup {[m EXCEPT !.at = l]}

\* Variant: any connection of the user may leave for another one.
LeaveAnyClient(c, ch) ==
    LET p == seat[rooms[ch]][UserOf[c]] IN
    /\ pc[c] = "idle"
    /\ rooms[ch] # None
    /\ p # None
    /\ CallRemovePeer(p, c)
    /\ Goto(c, "leaving")
    /\ UNCHANGED <<mapVars, roomVars, peerVars, countVars, chan, target, hub, endVars, seen>>

\* Variant: nobody looks whether there is a peer.
LeaveAbsent(c, ch) ==
    /\ pc[c] = "idle"
    /\ rooms[ch] # None
    /\ CallRemovePeer(seat[rooms[ch]][UserOf[c]], c)
    /\ Goto(c, "leaving")
    /\ UNCHANGED <<mapVars, roomVars, peerVars, countVars, chan, target, hub, endVars, seen>>

\* voice_leave: clientPeer finds the peer, which must belong to this connection.
Leave(c, ch) ==
    LET p == seat[rooms[ch]][UserOf[c]] IN
    /\ pc[c] = "idle"
    /\ rooms[ch] # None
    /\ p # None /\ owner[p] = c
    /\ CallRemovePeer(p, c)
    /\ Goto(c, "leaving")
    /\ UNCHANGED <<mapVars, roomVars, peerVars, countVars, chan, target, hub, endVars, seen>>

\* The PeerConnection fails; it exists only once the client went on from the join
\* to its offer.  (A callback that starts when the seat is gone changes nothing:
\* those that matter start before and find another peer in the seat.)
PeerConnectionFails(p) ==
    /\ owner[p] # None
    /\ seat[room[p]][UserOfPeer(p)] = p
    /\ ~(pc[owner[p]] \in {"cancel", "announce"} /\ target[owner[p]] = room[p])
    /\ \A m \in removals : ~(m.peer = p /\ m.by = "pc")
    /\ CallRemovePeer(p, "pc")
    /\ UNCHANGED <<mapVars, roomVars, peerVars, countVars, clientVars, hub, endVars, seen>>

\* Variant of the critical section: the user's seat goes, whosever it is.
RemovePeerByUser(m) ==
    LET r == room[m.peer]
        u == UserOfPeer(m.peer) IN
    /\ m.at = "delete"
    /\ seat' = [seat EXCEPT ![r][u] = None]
    /\ timer' = IF Seated(r) \subseteq {u} THEN timer \cup {r} ELSE timer
    /\ GoOn(m, "untrack")
    /\ UNCHANGED <<mapVars, home, closed, fired, peerVars, countVars, clientVars, hub, endVars, seen>>

\* The critical section of removePeer: drop the seat if it is still this
\* peer's, and arm the timer when the room is left empty.
RemovePeer(m) ==
    LET r == room[m.peer]
        u == UserOfPeer(m.peer) IN
    /\ m.at = "delete"
    /\ IF seat[r][u] = m.peer
       THEN /\ seat' = [seat EXCEPT ![r][u] = None]
            /\ timer' = IF Seated(r) = {u} THEN timer \cup {r} ELSE timer
            /\ GoOn(m, "untrack")
            /\ UNCHANGED pc
       ELSE Return(m) /\ UNCHANGED <<seat, timer>>
    /\ UNCHANGED <<mapVars, home, closed, fired, peerVars, countVars, chan, target, hub,
                   endVars, seen>>

\* The reservation goes after the seat, under another lock.
UntrackPeer(m) ==
    /\ m.at = "untrack"
    /\ Untrack(UserOfPeer(m.peer), home[room[m.peer]])
    /\ GoOn(m, "leave")
    /\ UNCHANGED <<rooms, roomVars, peerVars, countVars, clientVars, hub, endVars, seen>>

\* voice_leave to the audience, once the peer is closed.
AnnounceLeave(m) ==
    /\ m.at = "leave"
    /\ seen' = [seen EXCEPT ![home[room[m.peer]]] = @ \ {UserOfPeer(m.peer)}]
    /\ Return(m)
    /\ UNCHANGED <<mapVars, roomVars, peerVars, countVars, chan, target, hub, endVars>>

-----------------------------------------------------------------------------
\* Connections and the hub, which handles one register or unregister at a time.

Connect(c) ==
    /\ pc[c] = "off" /\ hub = Idle /\ life = "up"
    /\ Goto(c, "idle")
    /\ UNCHANGED <<mapVars, roomVars, peerVars, countVars, chan, target, hub, removals, endVars, seen>>

\* Variant: the unregister does not wait for the event being handled.
DisconnectMidEvent(c) ==
    /\ pc[c] \in {"idle", "reserve", "loop", "lookup", "add"} /\ hub = Idle
    /\ hub' = [client |-> c, phase |-> "client", list |-> userRooms[UserOf[c]]]
    /\ UNCHANGED <<mapVars, roomVars, peerVars, countVars, clientVars, removals, endVars, seen>>

\* The connection closes: ReadPump notices between two events and waits for the hub.
Disconnect(c) ==
    /\ pc[c] = "idle"
    /\ Goto(c, "gone")
    /\ UNCHANGED <<mapVars, roomVars, peerVars, countVars, chan, target, hub, removals, endVars, seen>>

\* Run takes the unregister and calls ClientOffline, which copies userRooms.
ClientOffline(c) ==
    /\ pc[c] = "gone" /\ hub = Idle
    /\ hub' = [client |-> c, phase |-> "client", list |-> userRooms[UserOf[c]]]
    /\ UNCHANGED <<mapVars, roomVars, peerVars, countVars, clientVars, removals, endVars, seen>>

\* One turn of the loops of ClientOffline and UserOffline: the room and the peer
\* as they are now; the first loop spares the peers of the user's other connections.
OfflineVisit(ch) ==
    LET p == seat[rooms[ch]][UserOf[hub.client]] IN
    /\ ch \in hub.list /\ ~HubBusy
    /\ hub' = [hub EXCEPT !.list = @ \ {ch}]
    /\ IF /\ rooms[ch] # None
          /\ p # None
          /\ hub.phase = "client" => owner[p] = hub.client
       THEN CallRemovePeer(p, "hub")
       ELSE UNCHANGED removals
    /\ UNCHANGED <<mapVars, roomVars, peerVars, countVars, clientVars, endVars, seen>>

\* presenceOffline: the user's last connection also runs UserOffline.
PresenceOffline ==
    LET c == hub.client
        others == {d \in Clients \ {c} : UserOf[d] = UserOf[c] /\ pc[d] \notin {"off", "done"}} IN
    /\ hub.phase = "client" /\ hub.list = {} /\ ~HubBusy
    /\ Goto(c, "done")
    /\ hub' = IF others # {} THEN Idle
              ELSE [hub EXCEPT !.phase = "user", !.list = userRooms[UserOf[c]]]
    /\ UNCHANGED <<mapVars, roomVars, peerVars, countVars, chan, target, removals, endVars, seen>>

UserOfflineReturns ==
    /\ hub.phase = "user" /\ hub.list = {} /\ ~HubBusy
    /\ hub' = Idle
    /\ UNCHANGED <<mapVars, roomVars, peerVars, countVars, clientVars, removals, endVars, seen>>

-----------------------------------------------------------------------------
\* The end of a room.

TimerFires(r) ==
    /\ r \in timer
    /\ timer' = timer \ {r}
    /\ fired' = [fired EXCEPT ![r] = @ + 1]
    /\ UNCHANGED <<mapVars, home, closed, seat, peerVars, countVars, clientVars, hub, removals,
                   endVars, seen>>

\* Variant: the room is closed in one critical section and unmapped in another
\* that never comes.
CleanupRoomUnmapped(r) ==
    /\ fired[r] > 0
    /\ fired' = [fired EXCEPT ![r] = @ - 1]
    /\ IF rooms[home[r]] = r /\ r \notin closed /\ Seated(r) = {}
       THEN closed' = closed \cup {r} ELSE UNCHANGED closed
    /\ UNCHANGED <<mapVars, home, seat, timer, peerVars, countVars, clientVars, hub, removals,
                   endVars, seen>>

\* Variant: a callback whose timer is no longer set takes itself for cancelled.
CleanupRoomIfSet(r) ==
    /\ fired[r] > 0
    /\ fired' = [fired EXCEPT ![r] = @ - 1]
    /\ IF rooms[home[r]] = r /\ r \notin closed /\ Seated(r) = {} /\ r \in timer
       THEN /\ closed' = closed \cup {r}
            /\ timer' = timer \ {r}
            /\ rooms' = [rooms EXCEPT ![home[r]] = None]
       ELSE UNCHANGED <<closed, timer, rooms>>
    /\ UNCHANGED <<userRooms, home, seat, peerVars, countVars, clientVars, hub, removals,
                   endVars, seen>>

\* The callback, holding both locks: close and unmap a room that is still
\* mapped, open and empty.
CleanupRoom(r) ==
    /\ fired[r] > 0
    /\ fired' = [fired EXCEPT ![r] = @ - 1]
    /\ IF rooms[home[r]] = r /\ r \notin closed /\ Seated(r) = {}
       THEN /\ closed' = closed \cup {r}
            /\ timer' = timer \ {r}
            /\ rooms' = [rooms EXCEPT ![home[r]] = None]
       ELSE UNCHANGED <<closed, timer, rooms>>
    /\ UNCHANGED <<userRooms, home, seat, peerVars, countVars, clientVars, hub, removals,
                   endVars, seen>>

\* services.DeleteChannel deletes the row first.
DeleteChannel(ch) ==
    /\ ch \in Deletable /\ channel[ch] = "live" /\ life = "up"
    /\ channel' = [channel EXCEPT ![ch] = "deleted"]
    /\ UNCHANGED <<mapVars, roomVars, peerVars, countVars, clientVars, hub, removals, dying, life, seen>>

\* It goes on to DestroyRoom: removeRoom takes the instance out of the map.
DestroyRoom(ch) ==
    /\ channel[ch] = "deleted"
    /\ channel' = [channel EXCEPT ![ch] = "destroyed"]
    /\ rooms' = [rooms EXCEPT ![ch] = None]
    /\ dying' = IF rooms[ch] = None THEN dying
                ELSE dying \cup {[room |-> rooms[ch], notice |-> TRUE]}
    /\ UNCHANGED <<userRooms, roomVars, peerVars, countVars, clientVars, hub, removals, life, seen>>

\* hub.Shutdown closes every connection and waits for them, five seconds at most.
ShutdownHub ==
    /\ MayStop /\ life = "up"
    /\ life' = "closing"
    /\ UNCHANGED <<mapVars, roomVars, peerVars, countVars, clientVars, hub, removals, dying,
                   channel, seen>>

\* Manager.Shutdown: stopped is set, then the map is exchanged for an empty one.
Shutdown ==
    /\ \/ /\ life = "closing"
          /\ life' = "stopped"
          /\ UNCHANGED <<rooms, dying>>
       \/ /\ life = "stopped"
          /\ life' = "swapped"
          /\ rooms' = [ch \in Channels |-> None]
          /\ dying' = dying \cup {[room |-> rooms[ch], notice |-> FALSE] :
                                    ch \in {d \in Channels : rooms[d] # None}}
    /\ UNCHANGED <<userRooms, roomVars, peerVars, countVars, clientVars, hub, removals, channel, seen>>

\* The critical section of destroy and destroyWithClosedNotice; their loop over
\* the peers follows, in no particular order.
CloseRoom(d) ==
    LET r == d.room IN
    /\ d \in dying
    /\ dying' = dying \ {d}
    /\ IF r \in closed
       THEN UNCHANGED <<closed, timer, seat, removals>>
       ELSE /\ closed' = closed \cup {r}
            /\ timer' = timer \ {r}
            /\ seat' = [seat EXCEPT ![r] = [u \in Users |-> None]]
            /\ removals' = removals \cup
                 {[peer |-> seat[r][u], by |-> "end", at |-> IF d.notice THEN "notice" ELSE "free"] :
                      u \in Seated(r)}
    /\ UNCHANGED <<mapVars, home, fired, peerVars, countVars, clientVars, hub, channel, life, seen>>

\* destroyWithClosedNotice tells the audience before it gives the reservation back.
NoticeLeave(m) ==
    /\ m.at = "notice"
    /\ seen' = [seen EXCEPT ![home[room[m.peer]]] = @ \ {UserOfPeer(m.peer)}]
    /\ GoOn(m, "free")
    /\ UNCHANGED <<mapVars, roomVars, peerVars, countVars, clientVars, hub, endVars>>

FreePeer(m) ==
    /\ m.at = "free"
    /\ Untrack(UserOfPeer(m.peer), home[room[m.peer]])
    /\ Return(m)
    /\ UNCHANGED <<rooms, roomVars, peerVars, countVars, chan, target, hub, endVars, seen>>

-----------------------------------------------------------------------------
Join(c) ==
    \/ ReserveUserRoom(c)
    \/ JoinLoop(c)
    \/ CreateRoom(c)
    \/ AddPeer(c)
    \/ JoinFails(c)
    \/ CancelCleanup(c)
    \/ AnnounceJoin(c)

RemovalStep(m) ==
    \/ RemovePeer(m)
    \/ UntrackPeer(m)
    \/ AnnounceLeave(m)
    \/ NoticeLeave(m)
    \/ FreePeer(m)

HubStep ==
    \/ \E c \in Clients : ClientOffline(c)
    \/ \E ch \in hub.list : OfflineVisit(ch)
    \/ PresenceOffline
    \/ UserOfflineReturns

TimerStep(r) == TimerFires(r) \/ CleanupRoom(r)

Next ==
    \/ \E c \in Clients :
        \/ Connect(c)
        \/ Disconnect(c)
        \/ Join(c)
        \/ \E ch \in Channels : CanConnectVoice(c, ch) \/ Leave(c, ch)
    \/ \E p \in Peers : PeerConnectionFails(p)
    \/ \E m \in removals : RemovalStep(m)
    \/ HubStep
    \/ \E r \in Rooms : TimerStep(r)
    \/ \E ch \in Channels : DeleteChannel(ch) \/ DestroyRoom(ch)
    \/ \E d \in dying : CloseRoom(d)
    \/ ShutdownHub
    \/ Shutdown

Spec == Init /\ [][Next]_vars

\* Goroutines run, mutexes are handed over and timers fire.  Nothing is assumed
\* of the clients, of the network or of who deletes a channel.
Fairness ==
    /\ \A c \in Clients : WF_vars(Join(c))
    /\ WF_vars(\E m \in removals : RemovalStep(m))
    /\ WF_vars(HubStep)
    /\ \A r \in Rooms : WF_vars(TimerStep(r))
    /\ WF_vars(\E d \in dying : CloseRoom(d))

FairSpec == Spec /\ Fairness

-----------------------------------------------------------------------------
\* Properties.

Joining(c) == pc[c] \in {"loop", "lookup", "add", "fail"}

SeatedIn(u, ch) == \E r \in Rooms : home[r] = ch /\ seat[r][u] # None

Untracking(u, ch) ==
    \E m \in removals :
        m.at \in {"untrack", "notice", "free"} /\ UserOfPeer(m.peer) = u /\ home[room[m.peer]] = ch

\* Whoever sits in a room holds the reservation that keeps the user from a second
\* seat in the channel and that VOICE_MAX_ROOMS_PER_USER counts, whatever is
\* removed and destroyed meanwhile (reserveUserRoom, removePeer, destroy).
SeatsAreReserved ==
    \A u \in Users, ch \in Channels : SeatedIn(u, ch) => ch \in userRooms[u]

\* No reservation is left behind: it belongs to a join under way, to a seat or to
\* a removal that is about to give it back.  A stale one would lock the user out
\* of the channel, which the comment in removePeer warns of.
NoStaleReservation ==
    \A u \in Users : \A ch \in userRooms[u] :
        \/ SeatedIn(u, ch)
        \/ Untracking(u, ch)
        \/ \E c \in Clients : UserOf[c] = u /\ Joining(c) /\ chan[c] = ch

\* A user, over all connections, and a room stay within their limits.
WithinLimits ==
    /\ \A u \in Users : Cardinality({ch \in Channels : SeatedIn(u, ch)}) <= MaxRoomsPerUser
    /\ \A r \in Rooms : Cardinality(Seated(r)) <= MaxRoomPeers

\* Reservations and seats correspond.
ReservationsMatchSeats == SeatsAreReserved /\ NoStaleReservation /\ WithinLimits

\* Closing and unmapping an empty room are one transition: Join never finds a
\* closed room in the map, so its retry loop ends.
MappedRoomsAreOpen ==
    \A ch \in Channels : rooms[ch] # None =>
        rooms[ch] \notin closed \/ \E d \in dying : d.room = rooms[ch]

\* An empty room is never forgotten: its timer runs, its callback waits, or the
\* client that made it is about to take a seat (scheduleCleanupLocked against
\* cancelCleanup, which runs after the joiner let go of the room's lock).
EmptyRoomsAreScheduled ==
    \A ch \in Channels :
        LET r == rooms[ch] IN
        r # None /\ Seated(r) = {} =>
            r \in timer \/ fired[r] > 0 \/ \E c \in Clients : pc[c] = "add" /\ target[c] = r

\* The map holds open rooms, and none that is empty for ever.
RoomsAreTended == MappedRoomsAreOpen /\ EmptyRoomsAreScheduled

\* Once the hub is done with a connection no room holds a peer of it, but for a
\* room about to be destroyed: the copy of userRooms that ClientOffline walks
\* misses nothing, because the unregister waits for the join under way.
GoneClientsHoldNoSeat ==
    \A r \in Rooms : \A u \in Seated(r) :
        pc[owner[seat[r][u]]] = "done" => \E d \in dying : d.room = r

\* A seat ends by a removal of that very peer, asked for by its own connection,
\* by the hub or by its PeerConnection, or with the room: neither a late callback
\* of an earlier peer nor another tab of the user takes it away.
SeatsEndForACauseStep ==
    \A r \in Rooms, u \in Users :
       LET p == seat[r][u] IN
       p # None /\ seat'[r][u] # p =>
          \/ r \in closed'
          \/ \E m \in removals : m.peer = p /\ m.by \in {owner[p], "pc", "hub"}

\* Every voice_join is answered: the retry loop of Join ends.
JoinsEnd ==
    \A c \in Clients : pc[c] = "loop" ~> pc[c] = "idle"

\* A room that stays empty is closed after its grace period.
EmptyRoomsClose ==
    \A r \in Rooms : (r \in timer) ~> (r \in closed \/ Seated(r) # {})

\* What the audience was last told agrees with the seats, but for events that are
\* about to be sent.
AudienceIsRight ==
    \A ch \in Channels, u \in Users :
        \/ u \in seen[ch] <=> SeatedIn(u, ch)
        \/ \E m \in removals : m.at # "delete" /\ UserOfPeer(m.peer) = u
        \/ \E c \in Clients : UserOf[c] = u /\ pc[c] \in {"cancel", "announce"}
=============================================================================
