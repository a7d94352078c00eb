-------------------------- MODULE VoiceRooms_proofs --------------------------
(***************************************************************************)
(* Proofs about VoiceRooms, for any number of users, connections, channels,*)
(* rooms and joins: reservations and seats correspond, the map holds open  *)
(* rooms of which none is forgotten, and a connection that is gone holds   *)
(* no seat.                                                                *)
(***************************************************************************)
EXTENDS VoiceRooms, FiniteSetTheorems, TLAPS

-----------------------------------------------------------------------------
(***************************************************************************)
(* The inductive invariant.                                                *)
(***************************************************************************)
Dying(r) == \E d \in dying : d.room = r

\* Instances are made one after the other and stay of their channel. The map
\* holds open ones that nobody is about to destroy; the others are closed, and
\* then empty, or about to be.
RoomsAreKnown ==
    /\ \A r \in Rooms : home[r] # None <=> r <= nRooms
    /\ \A ch \in Channels : rooms[ch] # None =>
          home[rooms[ch]] = ch /\ rooms[ch] \notin closed /\ ~Dying(rooms[ch])
    /\ \A r \in Rooms : home[r] # None => rooms[home[r]] = r \/ r \in closed \/ Dying(r)
    /\ \A r \in Rooms : home[r] = None =>
          r \notin closed /\ r \notin timer /\ fired[r] = 0 /\ ~Dying(r)
    /\ \A r \in closed : Seated(r) = {}

\* A peer is of one connection and of one room, and the one it sits in.
PeersAreKnown ==
    /\ \A p \in Peers : owner[p] # None <=> p <= nPeers
    /\ \A p \in Peers : owner[p] # None => room[p] # None /\ home[room[p]] # None
    /\ \A r \in Rooms, u \in Users : LET p == seat[r][u] IN
          p # None => owner[p] # None /\ room[p] = r /\ UserOfPeer(p) = u
    /\ \A m \in removals : owner[m.peer] # None

\* What a join has found out so far.
Waiting == {c \in Clients : pc[c] \in {"reserve", "loop", "lookup", "add"}}

JoinersStand ==
    /\ \A c \in Clients : pc[c] \in {"reserve", "loop", "lookup", "add", "fail", "cancel", "announce"}
                          => chan[c] # None
    /\ \A c \in Clients : pc[c] \in {"add", "cancel"} =>
                          target[c] # None /\ home[target[c]] = chan[c]
    /\ nPeers + Cardinality(Waiting) <= joins

\* A connection that leaves waits for the one removal it called ...
LeaversWait ==
    /\ \A m \in removals : m.by \in Clients => pc[m.by] = "leaving"
    /\ \A m, n \in removals : m.by \in Clients /\ n.by = m.by => n = m

\* ... nobody calls one without a cause ...
RemovalsHaveACause ==
    \A m \in removals : m.at = "delete" => m.by \in {owner[m.peer], "pc", "hub"}

\* ... and the hub handles connections that wait for it.
HubIsAwaited ==
    /\ hub.phase = "idle" <=> hub.client = None
    /\ hub.phase = "idle" => hub.list = {}
    /\ hub.phase = "client" => pc[hub.client] = "gone"
    /\ hub.phase = "user" => \A c \in Clients :
          UserOf[c] = UserOf[hub.client] => pc[c] \in {"off", "done"}

\* A reservation is held by a join under way, by a seat, or by a removal that is
\* about to give it back: by exactly one of them.
Gives(m) == m.at \in {"untrack", "notice", "free"}
UserOfRemoval(m) == UserOfPeer(m.peer)
ChannelOf(m) == home[room[m.peer]]

Joins(u, ch) == {c \in Clients : Joining(c) /\ UserOf[c] = u /\ chan[c] = ch}
SeatsOf(u, ch) == {r \in Rooms : home[r] = ch /\ seat[r][u] # None}
Givers(u, ch) == {m \in removals : Gives(m) /\ UserOfRemoval(m) = u /\ ChannelOf(m) = ch}

Held(u, ch) ==
    \/ /\ ch \notin userRooms[u]
       /\ Joins(u, ch) = {} /\ SeatsOf(u, ch) = {} /\ Givers(u, ch) = {}
    \/ /\ ch \in userRooms[u]
       /\ \/ /\ \E c : Joins(u, ch) = {c}
             /\ SeatsOf(u, ch) = {} /\ Givers(u, ch) = {}
          \/ /\ \E r : SeatsOf(u, ch) = {r}
             /\ Joins(u, ch) = {} /\ Givers(u, ch) = {}
          \/ /\ \E m : Givers(u, ch) = {m}
             /\ Joins(u, ch) = {} /\ SeatsOf(u, ch) = {}

ReservationsAreHeld == \A u \in Users, ch \in Channels : Held(u, ch)

Limits ==
    /\ \A u \in Users : Cardinality(userRooms[u]) <= MaxRoomsPerUser
    /\ \A r \in Rooms : Cardinality(Seated(r)) <= MaxRoomPeers

\* Until a join has stopped the timer, nobody takes away the seat it got, but for
\* the end of the room.
NewSeatsStay ==
    \A c \in Clients : pc[c] = "cancel" =>
        \/ target[c] \in closed
        \/ LET p == seat[target[c]][UserOf[c]] IN
              p # None /\ owner[p] = c /\ \A m \in removals : m.peer # p

\* What the hub has not come to yet.
HubMissesNothing ==
    hub.phase = "client" =>
        \A r \in Rooms, u \in Users : LET p == seat[r][u] IN
            p # None /\ owner[p] = hub.client =>
                \/ home[r] \in hub.list
                \/ Dying(r)
                \/ \E m \in removals : m.peer = p /\ m.by = "hub" /\ m.at = "delete"

IInv ==
    /\ TypeOK
    /\ RoomsAreKnown
    /\ PeersAreKnown
    /\ JoinersStand
    /\ LeaversWait
    /\ RemovalsHaveACause
    /\ HubIsAwaited
    /\ ReservationsAreHeld
    /\ Limits
    /\ NewSeatsStay
    /\ EmptyRoomsAreScheduled
    /\ HubMissesNothing
    /\ GoneClientsHoldNoSeat

-----------------------------------------------------------------------------
(***************************************************************************)
(* Typing.                                                                 *)
(***************************************************************************)
USE DEF mapVars, roomVars, peerVars, countVars, clientVars, endVars

LEMMA Constants ==
    /\ UserOf \in [Clients -> Users]
    /\ IsFiniteSet(Users) /\ IsFiniteSet(Clients) /\ IsFiniteSet(Channels)
    /\ "hub" \notin Clients /\ "pc" \notin Clients /\ "end" \notin Clients
    /\ MaxRoomPeers \in Nat \ {0} /\ MaxRoomsPerUser \in Nat \ {0}
    /\ MaxJoins \in Nat /\ MaxRooms \in Nat
    /\ None \notin Users /\ None \notin Clients /\ None \notin Channels
    /\ None \notin Rooms /\ None \notin Peers
    /\ Rooms \subseteq Nat /\ Peers \subseteq Nat
BY RoomsAssumption DEF Assumptions, Rooms, Peers

\* A removal that goes on is a removal.
LEMMA RemovalGoesOn ==
    ASSUME NEW m \in Removal, NEW l \in {"delete", "untrack", "leave", "notice", "free"}
    PROVE  /\ [m EXCEPT !.at = l] \in Removal
           /\ [m EXCEPT !.at = l].peer = m.peer /\ [m EXCEPT !.at = l].by = m.by
           /\ [m EXCEPT !.at = l].at = l
BY DEF Removal

LEMMA GoOnTypes ==
    ASSUME TypeOK, NEW m \in removals, NEW l \in {"delete", "untrack", "leave", "notice", "free"},
           GoOn(m, l)
    PROVE  removals' \in SUBSET Removal
<1>1. removals \subseteq Removal
  BY DEF TypeOK
<1>2. [m EXCEPT !.at = l] \in Removal
  BY <1>1, RemovalGoesOn
<1>3. QED
  BY <1>1, <1>2 DEF GoOn

\* Where seats, owners and rooms of peers lie.
LEMMA Places ==
    ASSUME TypeOK
    PROVE  /\ \A r \in Rooms, u \in Users : seat[r][u] # None => seat[r][u] \in Peers
           /\ \A ch \in Channels : rooms[ch] # None => rooms[ch] \in Rooms
           /\ \A p \in Peers : owner[p] # None => owner[p] \in Clients /\ UserOfPeer(p) \in Users
           /\ \A p \in Peers : room[p] # None => room[p] \in Rooms
           /\ \A r \in Rooms : home[r] # None => home[r] \in Channels
           /\ \A m \in removals : m \in Removal /\ m.peer \in Peers
           /\ \A d \in dying : d.room \in Rooms
BY Constants DEF TypeOK, UserOfPeer, Removal

\* Returning from removePeer keeps the types.
LEMMA ReturnTypes ==
    ASSUME TypeOK, NEW m \in removals, Return(m)
    PROVE  /\ removals' \in SUBSET Removal
           /\ pc' \in [Clients -> {"off", "idle", "reserve", "loop", "lookup", "add", "fail",
                                   "cancel", "announce", "leaving", "gone", "done"}]
BY DEF TypeOK, Return

LEMMA CallTypes ==
    ASSUME TypeOK, NEW p \in Peers, NEW t \in Clients \cup {"hub", "pc", "end"}, CallRemovePeer(p, t)
    PROVE  removals' \in SUBSET Removal
BY DEF TypeOK, CallRemovePeer, Removal

\* A connection that waits has not used up its join: a peer's number is left.
LEMMA PeerIsLeft ==
    ASSUME IInv, NEW c \in Waiting
    PROVE  nPeers < joins /\ nPeers + 1 \in Peers
<1>1. IsFiniteSet(Waiting)
  BY Constants, FS_Subset DEF Waiting
<1>2. Cardinality(Waiting) # 0 /\ Cardinality(Waiting) \in Nat
  BY <1>1, FS_EmptySet, FS_CardinalityType
<1>3. QED
  BY <1>2, Constants DEF IInv, TypeOK, JoinersStand, Peers

\* The steps of a client.
LEMMA ClientTypes ==
    ASSUME IInv, NEW c \in Clients,
           \/ Connect(c) \/ Disconnect(c) \/ Join(c)
           \/ \E ch \in Channels : CanConnectVoice(c, ch) \/ Leave(c, ch)
    PROVE  TypeOK'
<1> USE DEF IInv, TypeOK
<1>1. CASE Connect(c) \/ Disconnect(c)
  BY <1>1 DEF Connect, Disconnect, Goto
<1>2. ASSUME NEW ch \in Channels, CanConnectVoice(c, ch) PROVE TypeOK'
  <2>1. joins' \in 0 .. MaxJoins /\ nPeers \in 0 .. joins'
    BY <1>2, Constants DEF CanConnectVoice
  <2>2. QED
    BY <1>2, <2>1 DEF CanConnectVoice, Goto
<1>3. ASSUME NEW ch \in Channels, Leave(c, ch) PROVE TypeOK'
  <2>1. seat[rooms[ch]][UserOf[c]] \in Peers
    BY <1>3, Places, Constants DEF Leave
  <2>2. removals' \in SUBSET Removal
    BY <1>3, <2>1, CallTypes DEF Leave
  <2>3. QED
    BY <1>3, <2>2 DEF Leave, Goto
<1>4. CASE ReserveUserRoom(c)
  <2>1. CASE Answer(c) /\ UNCHANGED userRooms
    BY <1>4, <2>1 DEF ReserveUserRoom, Answer, Goto
  <2>2. CASE Goto(c, "loop") /\ UNCHANGED <<chan, target>>
             /\ userRooms' = [userRooms EXCEPT ![UserOf[c]] = @ \cup {chan[c]}]
    <3>1. chan[c] \in Channels
      BY <1>4 DEF ReserveUserRoom, JoinersStand
    <3>2. userRooms' \in [Users -> SUBSET Channels]
      BY <2>2, <3>1
    <3>3. QED
      BY <1>4, <2>2, <3>2 DEF ReserveUserRoom, Goto
  <2>3. QED
    BY <1>4, <2>1, <2>2 DEF ReserveUserRoom
<1>5. CASE JoinLoop(c)
  BY <1>5 DEF JoinLoop, Goto
<1>6. CASE CreateRoom(c)
  <2>1. nRooms' \in 0 .. MaxRooms /\ nRooms + 1 \in Nat
        /\ (rooms[chan[c]] = None => nRooms' \in Rooms)
    BY <1>6, Constants DEF CreateRoom, Rooms
  <2>2. chan[c] \in Channels
    BY <1>6 DEF CreateRoom, JoinersStand
  <2>3. CASE rooms[chan[c]] # None
    BY <1>6, <2>2, <2>3 DEF CreateRoom, Goto
  <2>4. CASE rooms[chan[c]] = None
    <3>1. /\ home' = [home EXCEPT ![nRooms'] = chan[c]]
          /\ rooms' = [rooms EXCEPT ![chan[c]] = nRooms']
          /\ target' = [target EXCEPT ![c] = nRooms']
      BY <1>6, <2>4 DEF CreateRoom
    <3>2. /\ home' \in [Rooms -> Channels \cup {None}]
          /\ rooms' \in [Channels -> Rooms \cup {None}]
          /\ target' \in [Clients -> Rooms \cup {None}]
      BY <2>1, <2>2, <2>4, <3>1
    <3>3. QED
      BY <1>6, <2>1, <3>2 DEF CreateRoom, Goto
  <2>5. QED
    BY <2>3, <2>4
<1>7. CASE AddPeer(c)
  <2>1. CASE UNCHANGED <<seat, peerVars, nPeers>> /\ (Goto(c, "loop") \/ Goto(c, "fail"))
    BY <1>7, <2>1 DEF AddPeer, Goto
  <2>2. CASE /\ nPeers' = nPeers + 1
             /\ seat' = [seat EXCEPT ![target[c]][UserOf[c]] = nPeers']
             /\ owner' = [owner EXCEPT ![nPeers'] = c]
             /\ room' = [room EXCEPT ![nPeers'] = target[c]]
             /\ Goto(c, "cancel")
    <3>1. nPeers' \in 0 .. joins /\ nPeers' \in Peers
      BY <1>7, <2>2, PeerIsLeft DEF AddPeer, Waiting
    <3>2. target[c] \in Rooms
      BY <1>7 DEF AddPeer, JoinersStand
    <3>3. seat' \in [Rooms -> [Users -> Peers \cup {None}]]
      BY <2>2, <3>1, <3>2
    <3>4. QED
      BY <1>7, <2>2, <3>1, <3>2, <3>3 DEF AddPeer, Goto
  <2>3. QED
    BY <1>7, <2>1, <2>2 DEF AddPeer
<1>8. CASE JoinFails(c)
  <2>1. userRooms' \in [Users -> SUBSET Channels]
    BY <1>8 DEF JoinFails, Untrack
  <2>2. QED
    BY <1>8, <2>1 DEF JoinFails, Answer, Goto
<1>9. CASE CancelCleanup(c)
  BY <1>9 DEF CancelCleanup, Goto
<1>10. CASE AnnounceJoin(c)
  <2>1. seen' \in [Channels -> SUBSET Users]
    <3>1. UserOf[c] \in Users
      BY Constants
    <3>2. QED
      BY <1>10, <3>1 DEF AnnounceJoin
  <2>2. QED
    BY <1>10, <2>1 DEF AnnounceJoin, Answer, Goto
<1>11. QED
  BY <1>1, <1>2, <1>3, <1>4, <1>5, <1>6, <1>7, <1>8, <1>9, <1>10 DEF Join

LEMMA RemovalTypes ==
    ASSUME IInv, NEW m \in removals, RemovalStep(m)
    PROVE  TypeOK'
<1> USE DEF IInv, TypeOK
<1>1. m \in Removal
  OBVIOUS
<1>2. CASE RemovePeer(m)
  <2>1. CASE seat[room[m.peer]][UserOfPeer(m.peer)] = m.peer
    <3>1. room[m.peer] \in Rooms
      BY Places DEF PeersAreKnown
    <3>2. seat' \in [Rooms -> [Users -> Peers \cup {None}]] /\ timer' \in SUBSET Rooms
      <4>1. /\ seat' = [seat EXCEPT ![room[m.peer]][UserOfPeer(m.peer)] = None]
            /\ timer' \in {timer, timer \cup {room[m.peer]}}
        BY <1>2, <2>1 DEF RemovePeer
      <4>2. QED
        BY <3>1, <4>1
    <3>3. removals' \in SUBSET Removal
      BY <1>2, <2>1, GoOnTypes DEF RemovePeer
    <3>4. QED
      BY <1>2, <2>1, <3>2, <3>3 DEF RemovePeer
  <2>2. CASE seat[room[m.peer]][UserOfPeer(m.peer)] # m.peer
    BY <1>2, <2>2, ReturnTypes DEF RemovePeer
  <2>3. QED
    BY <2>1, <2>2
<1>3. CASE UntrackPeer(m)
  <2>1. removals' \in SUBSET Removal
    BY <1>3, GoOnTypes DEF UntrackPeer
  <2>2. userRooms' \in [Users -> SUBSET Channels]
    BY <1>3 DEF UntrackPeer, Untrack
  <2>3. QED
    BY <1>3, <2>1, <2>2 DEF UntrackPeer
<1>4. CASE AnnounceLeave(m)
  <2>1. seen' \in [Channels -> SUBSET Users]
    BY <1>4 DEF AnnounceLeave
  <2>2. QED
    BY <1>4, <2>1, ReturnTypes DEF AnnounceLeave
<1>5. CASE NoticeLeave(m)
  <2>1. removals' \in SUBSET Removal
    BY <1>5, GoOnTypes DEF NoticeLeave
  <2>2. seen' \in [Channels -> SUBSET Users]
    BY <1>5 DEF NoticeLeave
  <2>3. QED
    BY <1>5, <2>1, <2>2 DEF NoticeLeave
<1>6. CASE FreePeer(m)
  <2>1. userRooms' \in [Users -> SUBSET Channels]
    BY <1>6 DEF FreePeer, Untrack
  <2>2. QED
    BY <1>6, <2>1, ReturnTypes DEF FreePeer
<1>7. QED
  BY <1>2, <1>3, <1>4, <1>5, <1>6 DEF RemovalStep

LEMMA HubTypes ==
    ASSUME IInv, HubStep
    PROVE  TypeOK'
<1> USE DEF IInv, TypeOK
<1>1. ASSUME NEW c \in Clients, ClientOffline(c) PROVE TypeOK'
  <2>1. hub' \in [client : Clients \cup {None}, phase : {"idle", "client", "user"}, list : SUBSET Channels]
    BY <1>1, Constants DEF ClientOffline
  <2>2. QED
    BY <1>1, <2>1 DEF ClientOffline
<1>2. ASSUME NEW ch \in hub.list, OfflineVisit(ch) PROVE TypeOK'
  <2>1. hub' \in [client : Clients \cup {None}, phase : {"idle", "client", "user"}, list : SUBSET Channels]
    BY <1>2 DEF OfflineVisit
  <2>2. hub.client \in Clients /\ ch \in Channels
    BY <1>2 DEF HubIsAwaited
  <2>3. CASE CallRemovePeer(seat[rooms[ch]][UserOf[hub.client]], "hub")
             /\ rooms[ch] # None /\ seat[rooms[ch]][UserOf[hub.client]] # None
    <3>1. seat[rooms[ch]][UserOf[hub.client]] \in Peers
      <4>1. UserOf[hub.client] \in Users
        BY <2>2, Constants
      <4>2. QED
        BY <2>2, <2>3, <4>1, Places
    <3>2. removals' \in SUBSET Removal
      BY <2>3, <3>1, CallTypes
    <3>3. QED
      BY <1>2, <2>1, <3>2 DEF OfflineVisit
  <2>4. CASE UNCHANGED removals
    BY <1>2, <2>1, <2>4 DEF OfflineVisit
  <2>5. QED
    BY <1>2, <2>3, <2>4 DEF OfflineVisit
<1>3. CASE PresenceOffline
  <2>1. hub' \in [client : Clients \cup {None}, phase : {"idle", "client", "user"}, list : SUBSET Channels]
    <3>1. hub.client \in Clients
      BY <1>3 DEF PresenceOffline, HubIsAwaited
    <3>2. QED
      BY <1>3, <3>1, Constants DEF PresenceOffline, Idle
  <2>2. QED
    BY <1>3, <2>1 DEF PresenceOffline, Goto
<1>4. CASE UserOfflineReturns
  BY <1>4 DEF UserOfflineReturns, Idle
<1>5. QED
  BY <1>1, <1>2, <1>3, <1>4 DEF HubStep

LEMMA TypeStep ==
    ASSUME IInv, [Next]_vars
    PROVE  TypeOK'
<1> USE DEF IInv, TypeOK
<1>1. ASSUME NEW p \in Peers, PeerConnectionFails(p) PROVE TypeOK'
  <2>1. removals' \in SUBSET Removal
    BY <1>1, CallTypes DEF PeerConnectionFails
  <2>2. QED
    BY <1>1, <2>1 DEF PeerConnectionFails
<1>2. ASSUME NEW r \in Rooms, TimerStep(r) PROVE TypeOK'
  <2>1. fired' \in [Rooms -> Nat]
    BY <1>2 DEF TimerStep, TimerFires, CleanupRoom
  <2>2. closed' \in SUBSET Rooms /\ timer' \in SUBSET Rooms /\ rooms' \in [Channels -> Rooms \cup {None}]
    <3>1. closed' \in {closed, closed \cup {r}} /\ timer' \in {timer, timer \ {r}}
          /\ (rooms' = rooms \/ rooms' = [rooms EXCEPT ![home[r]] = None])
      BY <1>2 DEF TimerStep, TimerFires, CleanupRoom
    <3>2. QED
      BY <3>1
  <2>3. QED
    BY <1>2, <2>1, <2>2 DEF TimerStep, TimerFires, CleanupRoom
<1>3. ASSUME NEW ch \in Channels, DeleteChannel(ch) \/ DestroyRoom(ch) PROVE TypeOK'
  <2>1. CASE DeleteChannel(ch)
    BY <2>1 DEF DeleteChannel
  <2>2. CASE DestroyRoom(ch)
    <3>1. dying' \in SUBSET [room : Rooms, notice : BOOLEAN]
      <4>1. rooms[ch] # None => [room |-> rooms[ch], notice |-> TRUE] \in [room : Rooms, notice : BOOLEAN]
        BY Places
      <4>2. QED
        BY <2>2, <4>1 DEF DestroyRoom
    <3>2. QED
      BY <2>2, <3>1 DEF DestroyRoom
  <2>3. QED
    BY <1>3, <2>1, <2>2
<1>4. ASSUME NEW d \in dying, CloseRoom(d) PROVE TypeOK'
  <2>1. d.room \in Rooms
    OBVIOUS
  <2>2. removals' \in SUBSET Removal
    <3>1. \A u \in Seated(d.room) : seat[d.room][u] \in Peers
      BY <2>1, Places DEF Seated
    <3>2. \A x \in removals' : \/ x \in removals
                             \/ \E u \in Seated(d.room), l \in {"notice", "free"} :
                                   x = [peer |-> seat[d.room][u], by |-> "end", at |-> l]
      BY <1>4 DEF CloseRoom
    <3>3. QED
      BY <3>1, <3>2 DEF Removal
  <2>3. seat' \in [Rooms -> [Users -> Peers \cup {None}]]
    <3>1. seat' = seat \/ seat' = [seat EXCEPT ![d.room] = [u \in Users |-> None]]
      BY <1>4 DEF CloseRoom
    <3>2. [u \in Users |-> None] \in [Users -> Peers \cup {None}]
      OBVIOUS
    <3>3. QED
      BY <3>1, <3>2
  <2>4. closed' \in SUBSET Rooms /\ timer' \in SUBSET Rooms
    BY <1>4, <2>1 DEF CloseRoom
  <2>5. QED
    BY <1>4, <2>2, <2>3, <2>4 DEF CloseRoom
<1>5. CASE ShutdownHub
  BY <1>5 DEF ShutdownHub
<1>6. CASE Shutdown
  <2>1. dying' \in SUBSET [room : Rooms, notice : BOOLEAN] /\ rooms' \in [Channels -> Rooms \cup {None}]
    <3>1. CASE UNCHANGED <<rooms, dying>>
      BY <3>1
    <3>2. CASE /\ rooms' = [ch \in Channels |-> None]
               /\ dying' = dying \cup {[room |-> rooms[ch], notice |-> FALSE] :
                                         ch \in {d \in Channels : rooms[d] # None}}
      <4>1. \A d \in Channels : rooms[d] # None =>
                [room |-> rooms[d], notice |-> FALSE] \in [room : Rooms, notice : BOOLEAN]
        BY Places
      <4>2. dying' \subseteq [room : Rooms, notice : BOOLEAN]
        <5> SUFFICES ASSUME NEW e \in dying' PROVE e \in [room : Rooms, notice : BOOLEAN]
          OBVIOUS
        <5>1. e \in dying \/ \E d \in Channels : rooms[d] # None /\ e = [room |-> rooms[d], notice |-> FALSE]
          BY <3>2
        <5>2. QED
          BY <4>1, <5>1
      <4>3. QED
        BY <3>2, <4>2
    <3>3. QED
      BY <1>6, <3>1, <3>2 DEF Shutdown
  <2>2. QED
    BY <1>6, <2>1 DEF Shutdown
<1>7. CASE UNCHANGED vars
  BY <1>7 DEF vars
<1>8. QED
  BY <1>1, <1>2, <1>3, <1>4, <1>5, <1>6, <1>7, ClientTypes, RemovalTypes, HubTypes DEF Next

-----------------------------------------------------------------------------
(***************************************************************************)
(* Rooms and peers.                                                        *)
(***************************************************************************)
\* The steps that do anything to the map, to the rooms or to what holds them.
LEMMA RoomSteps ==
    ASSUME [Next]_vars
    PROVE  \/ UNCHANGED <<mapVars, roomVars, peerVars, nPeers, nRooms, dying>>
           \/ \E c \in Clients : ReserveUserRoom(c) \/ JoinFails(c) \/ CreateRoom(c) \/ AddPeer(c) \/ CancelCleanup(c)
           \/ \E m \in removals : RemovePeer(m) \/ UntrackPeer(m) \/ FreePeer(m)
           \/ \E r \in Rooms : TimerFires(r) \/ CleanupRoom(r)
           \/ \E ch \in Channels : DestroyRoom(ch)
           \/ \E d \in dying : CloseRoom(d)
           \/ Shutdown
<1>1. ASSUME NEW c \in Clients,
             Connect(c) \/ Disconnect(c) \/ (\E ch \in Channels : CanConnectVoice(c, ch) \/ Leave(c, ch))
             \/ JoinLoop(c) \/ AnnounceJoin(c)
      PROVE  UNCHANGED <<mapVars, roomVars, peerVars, nPeers, nRooms, dying>>
  BY <1>1 DEF Connect, Disconnect, CanConnectVoice, Leave, JoinLoop, AnnounceJoin
<1>2. ASSUME NEW p \in Peers, PeerConnectionFails(p)
      PROVE  UNCHANGED <<mapVars, roomVars, peerVars, nPeers, nRooms, dying>>
  BY <1>2 DEF PeerConnectionFails
<1>3. ASSUME NEW m \in removals, AnnounceLeave(m) \/ NoticeLeave(m)
      PROVE  UNCHANGED <<mapVars, roomVars, peerVars, nPeers, nRooms, dying>>
  BY <1>3 DEF AnnounceLeave, NoticeLeave
<1>4. ASSUME HubStep
      PROVE  UNCHANGED <<mapVars, roomVars, peerVars, nPeers, nRooms, dying>>
  BY <1>4 DEF HubStep, ClientOffline, OfflineVisit, PresenceOffline, UserOfflineReturns
<1>5. ASSUME ShutdownHub \/ (\E ch \in Channels : DeleteChannel(ch)) \/ UNCHANGED vars
      PROVE  UNCHANGED <<mapVars, roomVars, peerVars, nPeers, nRooms, dying>>
  BY <1>5 DEF ShutdownHub, DeleteChannel, vars
<1>6. QED
  BY <1>1, <1>2, <1>3, <1>4, <1>5 DEF Next, Join, RemovalStep, TimerStep

LEMMA SeatExcept ==
    ASSUME TypeOK, NEW r \in Rooms, NEW u \in Users, NEW v, seat' = [seat EXCEPT ![r][u] = v]
    PROVE  \A q \in Rooms, w \in Users :
               seat'[q][w] = IF q = r /\ w = u THEN v ELSE seat[q][w]
BY DEF TypeOK

\* What the map and the rooms hold, when nothing but timers of rooms that exist
\* and reservations changes.
LEMMA RoomsFrame ==
    ASSUME IInv, UNCHANGED <<rooms, home, closed, seat, dying, nRooms>>,
           \A r \in Rooms : home[r] = None => r \notin timer' /\ fired'[r] = 0
    PROVE  RoomsAreKnown'
BY DEF IInv, RoomsAreKnown, Seated, Dying

LEMMA RoomsStep ==
    ASSUME IInv, TypeOK', [Next]_vars
    PROVE  RoomsAreKnown'
<1> USE DEF IInv
<1>1. CASE UNCHANGED <<mapVars, roomVars, peerVars, nPeers, nRooms, dying>>
  BY <1>1, RoomsFrame DEF RoomsAreKnown
<1>2. ASSUME NEW c \in Clients,
             ReserveUserRoom(c) \/ JoinFails(c) \/ CancelCleanup(c)
      PROVE  RoomsAreKnown'
  BY <1>2, RoomsFrame DEF ReserveUserRoom, JoinFails, CancelCleanup, RoomsAreKnown
<1>3. ASSUME NEW c \in Clients, CreateRoom(c) PROVE RoomsAreKnown'
  <2>0. chan[c] \in Channels
    BY <1>3, Constants DEF CreateRoom, JoinersStand, TypeOK
  <2>1. CASE rooms[chan[c]] # None
    BY <1>3, <2>1, RoomsFrame DEF CreateRoom, RoomsAreKnown
  <2>2. CASE rooms[chan[c]] = None
    <3> DEFINE n == nRooms + 1
    <3>1. /\ nRooms' = n /\ n \in Rooms /\ nRooms \in Nat
          /\ home' = [home EXCEPT ![n] = chan[c]]
          /\ rooms' = [rooms EXCEPT ![chan[c]] = n]
          /\ UNCHANGED <<closed, seat, timer, fired, dying>>
      BY <1>3, <2>2, Constants DEF CreateRoom, TypeOK, Rooms
    <3> HIDE DEF n
    <3>2. home[n] = None
      BY <3>1, Constants DEF RoomsAreKnown, n
    <3>3. n \notin closed /\ n \notin timer /\ fired[n] = 0 /\ ~Dying(n)
      BY <3>1, <3>2 DEF RoomsAreKnown
    <3>4. \A r \in Rooms : home'[r] # None <=> r <= nRooms'
      <4> SUFFICES ASSUME NEW r \in Rooms PROVE home'[r] # None <=> r <= nRooms'
        OBVIOUS
      <4>1. CASE r = n
        BY <2>0, <3>1, <4>1, Constants DEF TypeOK, n
      <4>2. CASE r # n
        <5>1. r <= n <=> r <= nRooms
          BY <3>1, <4>2, Constants DEF n
        <5>2. QED
          BY <3>1, <4>2, <5>1 DEF RoomsAreKnown, TypeOK
      <4>3. QED
        BY <4>1, <4>2
    <3>5. \A r \in Rooms : r # n => home'[r] = home[r]
      BY <3>1 DEF TypeOK
    <3>6. \A ch \in Channels : rooms'[ch] # None =>
             home'[rooms'[ch]] = ch /\ rooms'[ch] \notin closed' /\ ~Dying(rooms[ch])'
      <4> SUFFICES ASSUME NEW ch \in Channels, rooms'[ch] # None
                   PROVE  home'[rooms'[ch]] = ch /\ rooms'[ch] \notin closed' /\ ~Dying(rooms[ch])'
        OBVIOUS
      <4>1. CASE ch = chan[c]
        <5>1. rooms'[ch] = n /\ home'[n] = ch
          BY <2>0, <3>1, <4>1 DEF TypeOK
        <5>2. QED
          BY <3>1, <3>3, <5>1 DEF Dying
      <4>2. CASE ch # chan[c]
        <5>1. rooms'[ch] = rooms[ch] /\ rooms[ch] \in Rooms /\ rooms[ch] # n
          BY <3>1, <3>2, <4>2, Constants DEF RoomsAreKnown, TypeOK
        <5>2. QED
          <6>1. home[rooms[ch]] = ch /\ rooms[ch] \notin closed /\ ~Dying(rooms[ch])
            BY <5>1, <4>2, Constants DEF RoomsAreKnown
          <6>2. QED
            BY <3>1, <3>5, <5>1, <6>1 DEF Dying
      <4>3. QED
        BY <4>1, <4>2
    <3>7. \A r \in Rooms : home'[r] # None => rooms'[home'[r]] = r \/ r \in closed' \/ Dying(r)'
      <4> SUFFICES ASSUME NEW r \in Rooms, home'[r] # None
                   PROVE  rooms'[home'[r]] = r \/ r \in closed' \/ Dying(r)'
        OBVIOUS
      <4>1. CASE r = n
        BY <2>0, <3>1, <4>1 DEF TypeOK
      <4>2. CASE r # n
        BY <2>2, <3>1, <3>5, <4>2, Constants DEF RoomsAreKnown, TypeOK, Dying
      <4>3. QED
        BY <4>1, <4>2
    <3>8. /\ \A r \in Rooms : home'[r] = None =>
                r \notin closed' /\ r \notin timer' /\ fired'[r] = 0 /\ ~Dying(r)'
          /\ \A r \in closed' : Seated(r)' = {}
      <4>1. home'[n] # None
        BY <2>0, <3>1, Constants DEF TypeOK
      <4>2. QED
        BY <3>1, <3>5, <4>1 DEF RoomsAreKnown, Dying, Seated
    <3>9. QED
      BY <3>4, <3>6, <3>7, <3>8 DEF RoomsAreKnown
  <2>3. QED
    BY <2>1, <2>2
<1>4. ASSUME NEW c \in Clients, AddPeer(c) PROVE RoomsAreKnown'
  <2>1. UNCHANGED <<rooms, home, closed, timer, fired, dying, nRooms>>
    BY <1>4 DEF AddPeer
  <2>2. \A r \in closed : seat'[r] = seat[r]
    BY <1>4 DEF AddPeer, TypeOK
  <2>3. QED
    BY <2>1, <2>2 DEF RoomsAreKnown, Seated, Dying
<1>5. ASSUME NEW m \in removals, RemovePeer(m) \/ UntrackPeer(m) \/ FreePeer(m)
      PROVE  RoomsAreKnown'
  <2>1. CASE UntrackPeer(m) \/ FreePeer(m)
    BY <2>1, RoomsFrame DEF UntrackPeer, FreePeer, RoomsAreKnown
  <2>2. CASE RemovePeer(m)
    <3>1. UNCHANGED <<rooms, home, closed, fired, dying, nRooms>>
      BY <2>2 DEF RemovePeer
    <3>2. timer' \subseteq timer \cup {room[m.peer]} /\ room[m.peer] \in Rooms /\ home[room[m.peer]] # None
      BY <2>2, Places DEF RemovePeer, PeersAreKnown
    <3>3. \A r \in closed : Seated(r)' = {}
      <4> SUFFICES ASSUME NEW r \in closed, NEW u \in Users PROVE seat'[r][u] = None
        BY DEF Seated, RemovePeer
      <4>1. seat[r][u] = None /\ r \in Rooms
        BY DEF RoomsAreKnown, Seated, TypeOK
      <4>2. seat' = seat \/ seat' = [seat EXCEPT ![room[m.peer]][UserOfPeer(m.peer)] = None]
        BY <2>2 DEF RemovePeer
      <4>3. UserOfPeer(m.peer) \in Users
        BY Places DEF PeersAreKnown
      <4>4. QED
        <5>1. CASE seat' = [seat EXCEPT ![room[m.peer]][UserOfPeer(m.peer)] = None]
          <6>1. seat'[r][u] = IF r = room[m.peer] /\ u = UserOfPeer(m.peer) THEN None ELSE seat[r][u]
            BY <3>2, <4>1, <4>3, <5>1, SeatExcept, TypeOK
          <6>2. QED
            BY <4>1, <6>1
        <5>2. QED
          BY <4>1, <4>2, <5>1
    <3>4. QED
      BY <3>1, <3>2, <3>3 DEF RoomsAreKnown, Dying
  <2>3. QED
    BY <1>5, <2>1, <2>2
<1>6. ASSUME NEW r \in Rooms, TimerFires(r) PROVE RoomsAreKnown'
  <2>1. home[r] # None
    BY <1>6 DEF TimerFires, RoomsAreKnown
  <2>2. QED
    BY <1>6, <2>1, RoomsFrame DEF TimerFires, RoomsAreKnown, TypeOK
<1>7. ASSUME NEW r \in Rooms, CleanupRoom(r) PROVE RoomsAreKnown'
  <2>1. home[r] \in Channels /\ fired[r] # 0
    BY <1>7, Places DEF CleanupRoom, RoomsAreKnown, TypeOK
  <2>2. \A q \in Rooms : home[q] = None => fired'[q] = 0
    BY <1>7, <2>1, Constants DEF CleanupRoom, RoomsAreKnown, TypeOK
  <2>3. CASE UNCHANGED <<closed, timer, rooms>>
    BY <1>7, <2>2, <2>3, RoomsFrame DEF CleanupRoom, RoomsAreKnown
  <2>4. CASE /\ rooms[home[r]] = r /\ Seated(r) = {}
             /\ closed' = closed \cup {r} /\ timer' = timer \ {r}
             /\ rooms' = [rooms EXCEPT ![home[r]] = None]
    <3>1. UNCHANGED <<home, seat, dying, nRooms>>
      BY <1>7 DEF CleanupRoom
    <3>2. \A ch \in Channels : rooms'[ch] # None => rooms'[ch] = rooms[ch] /\ rooms[ch] # r
      BY <2>1, <2>4 DEF RoomsAreKnown, TypeOK
    <3>3. \A q \in Rooms : home[q] # None => rooms'[home[q]] = rooms[home[q]] \/ rooms[home[q]] = r
      BY <2>1, <2>4 DEF TypeOK
    <3>4. QED
      BY <2>1, <2>2, <2>4, <3>1, <3>2, <3>3, Constants DEF RoomsAreKnown, Dying, Seated
  <2>5. QED
    BY <1>7, <2>3, <2>4 DEF CleanupRoom
<1>8. ASSUME NEW ch \in Channels, DestroyRoom(ch) PROVE RoomsAreKnown'
  <2>1. UNCHANGED <<home, closed, seat, timer, fired, nRooms>> /\ rooms' = [rooms EXCEPT ![ch] = None]
    BY <1>8 DEF DestroyRoom
  <2>2. \A r \in Rooms : Dying(r)' <=> Dying(r) \/ rooms[ch] = r
    <3>1. CASE rooms[ch] = None
      BY <1>8, <3>1, Constants DEF DestroyRoom, Dying
    <3>2. CASE rooms[ch] # None
      <4>1. dying' = dying \cup {[room |-> rooms[ch], notice |-> TRUE]}
        BY <1>8, <3>2 DEF DestroyRoom
      <4>2. [room |-> rooms[ch], notice |-> TRUE].room = rooms[ch]
        OBVIOUS
      <4>3. QED
        BY <4>1, <4>2 DEF Dying
    <3>3. QED
      BY <3>1, <3>2
  <2>3. \A c \in Channels : rooms'[c] # None => rooms'[c] = rooms[c] /\ c # ch
    BY <2>1 DEF TypeOK
  <2>4. \A r \in Rooms : home[r] # None => rooms'[home[r]] = rooms[home[r]] \/ home[r] = ch
    BY <2>1, Places DEF TypeOK
  <2>5. \A c \in Channels : rooms[c] # None => rooms[c] \in Rooms /\ home[rooms[c]] = c
    BY Places DEF RoomsAreKnown
  <2>6. \A c \in Channels : rooms'[c] # None =>
           home'[rooms'[c]] = c /\ rooms'[c] \notin closed' /\ ~Dying(rooms[c])'
    <3> SUFFICES ASSUME NEW c \in Channels, rooms'[c] # None
                 PROVE  home'[rooms'[c]] = c /\ rooms'[c] \notin closed' /\ ~Dying(rooms[c])'
      OBVIOUS
    <3>1. rooms'[c] = rooms[c] /\ c # ch /\ rooms[c] \in Rooms /\ home[rooms[c]] = c
          /\ rooms[c] \notin closed /\ ~Dying(rooms[c])
      BY <2>3, <2>5 DEF RoomsAreKnown
    <3>2. rooms[ch] # rooms[c]
      BY <2>5, <3>1, Constants
    <3>3. ~(\E d \in dying' : d.room = rooms[c])
      BY <2>2, <3>1, <3>2 DEF Dying
    <3>4. QED
      BY <2>1, <3>1, <3>3 DEF Dying
  <2>7. \A r \in Rooms : home[r] # None => rooms'[home[r]] = r \/ r \in closed \/ Dying(r)'
    BY <2>2, <2>4 DEF RoomsAreKnown
  <2>8. \A r \in Rooms : home[r] = None => ~Dying(r)'
    BY <2>2, <2>5, Constants DEF RoomsAreKnown
  <2>9. QED
    BY <2>1, <2>6, <2>7, <2>8 DEF RoomsAreKnown, Seated
<1>9. ASSUME NEW d \in dying, CloseRoom(d) PROVE RoomsAreKnown'
  <2> DEFINE r == d.room
  <2>1. r \in Rooms /\ Dying(r) /\ home[r] # None
    BY Places DEF Dying, RoomsAreKnown
  <2>2. UNCHANGED <<rooms, home, fired, nRooms>> /\ closed' = closed \cup {r} /\ timer' \subseteq timer
    BY <1>9 DEF CloseRoom
  <2>3. \A q \in Rooms : Dying(q)' => Dying(q)
    BY <1>9 DEF CloseRoom, Dying
  <2>4. \A q \in Rooms : Dying(q) => Dying(q)' \/ q = r
    BY <1>9 DEF CloseRoom, Dying
  <2>5. \A q \in closed' : Seated(q)' = {}
    <3> SUFFICES ASSUME NEW q \in closed', NEW u \in Users PROVE seat'[q][u] = None
      BY DEF Seated
    <3>1. CASE r \in closed
      BY <1>9, <2>2, <3>1 DEF CloseRoom, RoomsAreKnown, Seated
    <3>2. CASE r \notin closed
      BY <1>9, <2>1, <2>2, <3>2 DEF CloseRoom, RoomsAreKnown, Seated, TypeOK
    <3>3. QED
      BY <3>1, <3>2
  <2> HIDE DEF r
  <2>6. QED
    BY <2>1, <2>2, <2>3, <2>4, <2>5, Places DEF RoomsAreKnown
<1>10. CASE Shutdown
  <2>1. UNCHANGED <<home, closed, seat, timer, fired, nRooms>>
    BY <1>10 DEF Shutdown
  <2>2. CASE UNCHANGED <<rooms, dying>>
    BY <2>1, <2>2, RoomsFrame DEF RoomsAreKnown
  <2>3. CASE /\ rooms' = [ch \in Channels |-> None]
             /\ dying' = dying \cup {[room |-> rooms[ch], notice |-> FALSE] :
                                       ch \in {d \in Channels : rooms[d] # None}}
    <3>1. \A r \in Rooms : Dying(r)' <=> Dying(r) \/ \E ch \in Channels : rooms[ch] = r
      <4> SUFFICES ASSUME NEW r \in Rooms
                   PROVE  Dying(r)' <=> Dying(r) \/ \E ch \in Channels : rooms[ch] = r
        OBVIOUS
      <4>1. ASSUME NEW ch \in Channels, rooms[ch] = r PROVE Dying(r)'
        <5>1. [room |-> rooms[ch], notice |-> FALSE] \in dying'
          BY <2>3, <4>1, Constants
        <5>2. QED
          BY <4>1, <5>1 DEF Dying
      <4>2. Dying(r) => Dying(r)'
        BY <2>3 DEF Dying
      <4>3. ASSUME NEW e \in dying', e.room = r PROVE Dying(r) \/ \E ch \in Channels : rooms[ch] = r
        <5>1. e \in dying \/ \E ch \in Channels : e = [room |-> rooms[ch], notice |-> FALSE]
          BY <2>3
        <5>2. QED
          BY <4>3, <5>1 DEF Dying
      <4>4. QED
        BY <4>1, <4>2, <4>3 DEF Dying
    <3>2. QED
      <4>1. \A r \in Rooms : home[r] # None => r \in closed \/ Dying(r)'
        BY <3>1, Places DEF RoomsAreKnown
      <4>2. \A r \in Rooms : home[r] = None => ~Dying(r)'
        <5> SUFFICES ASSUME NEW r \in Rooms, home[r] = None PROVE ~Dying(r)'
          OBVIOUS
        <5>1. \A ch \in Channels : rooms[ch] # r
          BY Constants DEF RoomsAreKnown
        <5>2. QED
          BY <3>1, <5>1 DEF RoomsAreKnown
      <4>3. \A ch \in Channels : rooms'[ch] = None
        BY <2>3
      <4>4. QED
        BY <2>1, <4>1, <4>2, <4>3 DEF RoomsAreKnown, Seated
  <2>4. QED
    BY <1>10, <2>2, <2>3 DEF Shutdown
<1>11. QED
  BY <1>1, <1>2, <1>3, <1>4, <1>5, <1>6, <1>7, <1>8, <1>9, <1>10, RoomSteps

\* A peer stays of its connection and its room, and a room of its channel.
LEMMA PeersStay ==
    ASSUME IInv, TypeOK', [Next]_vars
    PROVE  /\ \A p \in Peers : owner[p] # None =>
                  owner'[p] = owner[p] /\ room'[p] = room[p] /\ UserOfPeer(p)' = UserOfPeer(p)
           /\ \A r \in Rooms : home[r] # None => home'[r] = home[r]
           /\ \A m \in removals : ChannelOf(m)' = ChannelOf(m) /\ UserOfRemoval(m)' = UserOfRemoval(m)
<1> USE DEF IInv
<1>1. \A p \in Peers : owner[p] # None => owner'[p] = owner[p] /\ room'[p] = room[p]
  <2>1. ASSUME NEW c \in Clients, AddPeer(c)
        PROVE  \A p \in Peers : owner[p] # None => owner'[p] = owner[p] /\ room'[p] = room[p]
    <3>1. CASE UNCHANGED peerVars
      BY <3>1
    <3>2. CASE /\ owner' = [owner EXCEPT ![nPeers'] = c]
               /\ room' = [room EXCEPT ![nPeers'] = target[c]]
               /\ nPeers' = nPeers + 1
      <4>1. nPeers' \in Peers /\ ~(nPeers' <= nPeers)
        BY <2>1, <3>2, PeerIsLeft DEF AddPeer, Waiting, TypeOK
      <4>2. owner[nPeers'] = None
        BY <4>1 DEF PeersAreKnown
      <4>3. QED
        BY <3>2, <4>1, <4>2 DEF TypeOK
    <3>3. QED
      BY <2>1, <3>1, <3>2 DEF AddPeer
  <2>2. (\A c \in Clients : ~AddPeer(c)) => UNCHANGED peerVars
    BY RoomSteps DEF ReserveUserRoom, JoinFails, CreateRoom, CancelCleanup, RemovePeer, UntrackPeer,
                     FreePeer, TimerFires, CleanupRoom, DestroyRoom, CloseRoom, Shutdown
  <2>3. QED
    BY <2>1, <2>2
<1>2. \A r \in Rooms : home[r] # None => home'[r] = home[r]
  <2>1. ASSUME NEW c \in Clients, CreateRoom(c)
        PROVE  \A r \in Rooms : home[r] # None => home'[r] = home[r]
    <3>1. home' = home \/ (home' = [home EXCEPT ![nRooms'] = chan[c]] /\ nRooms' = nRooms + 1)
      BY <2>1 DEF CreateRoom
    <3>2. \A r \in Rooms : home[r] # None => r # nRooms + 1
      BY Constants DEF RoomsAreKnown, TypeOK
    <3>3. QED
      BY <3>1, <3>2 DEF TypeOK
  <2>2. (\A c \in Clients : ~CreateRoom(c)) => UNCHANGED home
    BY RoomSteps DEF ReserveUserRoom, JoinFails, AddPeer, CancelCleanup, RemovePeer, UntrackPeer,
                     FreePeer, TimerFires, CleanupRoom, DestroyRoom, CloseRoom, Shutdown
  <2>3. QED
    BY <2>1, <2>2
<1>3. \A p \in Peers : owner[p] # None => UserOfPeer(p)' = UserOfPeer(p)
  BY <1>1 DEF UserOfPeer
<1>4. \A m \in removals : ChannelOf(m)' = ChannelOf(m) /\ UserOfRemoval(m)' = UserOfRemoval(m)
  <2> SUFFICES ASSUME NEW m \in removals
               PROVE  ChannelOf(m)' = ChannelOf(m) /\ UserOfRemoval(m)' = UserOfRemoval(m)
    OBVIOUS
  <2>1. m.peer \in Peers /\ owner[m.peer] # None /\ room[m.peer] \in Rooms /\ home[room[m.peer]] # None
    BY Places DEF PeersAreKnown
  <2>2. QED
    BY <1>1, <1>2, <1>3, <2>1 DEF ChannelOf, UserOfRemoval
<1>5. QED
  BY <1>1, <1>2, <1>3, <1>4

\* Where removals come from: those that were there, those of peers that sit in a
\* room, one after the other from a thread that calls removePeer, or all of a room
\* that is closed.
LEMMA RemovalOrigins ==
    ASSUME IInv, TypeOK', [Next]_vars
    PROVE  \A x \in removals' :
              \/ x \in removals
              \/ \E m \in removals : RemovalStep(m) /\ x.peer = m.peer /\ x.by = m.by
              \/ /\ x.at = "delete" /\ x.by # "end" /\ UNCHANGED seat
                 /\ \E r \in Rooms, u \in Users : seat[r][u] = x.peer
              \/ /\ x.at \in {"notice", "free"} /\ x.by = "end"
                 /\ \E d \in dying : /\ CloseRoom(d) /\ d.room \notin closed
                                     /\ \E u \in Users : seat[d.room][u] = x.peer
<1> USE DEF IInv
<1> SUFFICES ASSUME NEW x \in removals', x \notin removals
             PROVE  \/ \E m \in removals : RemovalStep(m) /\ x.peer = m.peer /\ x.by = m.by
                    \/ /\ x.at = "delete" /\ x.by # "end" /\ UNCHANGED seat
                       /\ \E r \in Rooms, u \in Users : seat[r][u] = x.peer
                    \/ /\ x.at \in {"notice", "free"} /\ x.by = "end"
                       /\ \E d \in dying : /\ CloseRoom(d) /\ d.room \notin closed
                                           /\ \E u \in Users : seat[d.room][u] = x.peer
  OBVIOUS
<1>1. ASSUME NEW c \in Clients, NEW ch \in Channels, Leave(c, ch)
      PROVE  x.at = "delete" /\ x.by # "end" /\ UNCHANGED seat /\ \E r \in Rooms, u \in Users : seat[r][u] = x.peer
  <2>1. x = [peer |-> seat[rooms[ch]][UserOf[c]], by |-> c, at |-> "delete"]
    BY <1>1 DEF Leave, CallRemovePeer
  <2>2. rooms[ch] \in Rooms /\ UserOf[c] \in Users /\ UNCHANGED seat
    BY <1>1, Places, Constants DEF Leave
  <2>3. QED
    BY <2>1, <2>2, Constants
<1>2. ASSUME NEW p \in Peers, PeerConnectionFails(p)
      PROVE  x.at = "delete" /\ x.by # "end" /\ UNCHANGED seat /\ \E r \in Rooms, u \in Users : seat[r][u] = x.peer
  <2>1. x = [peer |-> p, by |-> "pc", at |-> "delete"]
    BY <1>2 DEF PeerConnectionFails, CallRemovePeer
  <2>2. seat[room[p]][UserOfPeer(p)] = p /\ room[p] \in Rooms /\ UserOfPeer(p) \in Users /\ UNCHANGED seat
    BY <1>2, Places DEF PeerConnectionFails, PeersAreKnown
  <2>3. QED
    BY <2>1, <2>2
<1>3. ASSUME NEW ch \in hub.list, OfflineVisit(ch)
      PROVE  x.at = "delete" /\ x.by # "end" /\ UNCHANGED seat /\ \E r \in Rooms, u \in Users : seat[r][u] = x.peer
  <2>1. /\ x = [peer |-> seat[rooms[ch]][UserOf[hub.client]], by |-> "hub", at |-> "delete"]
        /\ rooms[ch] # None /\ UNCHANGED seat
    BY <1>3 DEF OfflineVisit, CallRemovePeer
  <2>2. hub.client \in Clients /\ ch \in Channels
    BY <1>3 DEF OfflineVisit, HubIsAwaited, TypeOK
  <2>3. rooms[ch] \in Rooms /\ UserOf[hub.client] \in Users
    BY <2>1, <2>2, Places, Constants
  <2>4. QED
    BY <2>1, <2>3
<1>4. ASSUME NEW m \in removals, RemovalStep(m)
      PROVE  x.peer = m.peer /\ x.by = m.by
  <2>1. m \in Removal
    BY Places
  <2>2. \A l \in {"delete", "untrack", "leave", "notice", "free"} :
            GoOn(m, l) => x = [m EXCEPT !.at = l]
    BY DEF GoOn
  <2>3. ~Return(m)
    BY DEF Return
  <2>4. \E l \in {"delete", "untrack", "leave", "notice", "free"} : GoOn(m, l)
    BY <1>4, <2>3 DEF RemovalStep, RemovePeer, UntrackPeer, AnnounceLeave, NoticeLeave, FreePeer
  <2>5. QED
    <3>1. PICK l \in {"delete", "untrack", "leave", "notice", "free"} : GoOn(m, l)
      BY <2>4
    <3>2. x = [m EXCEPT !.at = l]
      BY <2>2, <3>1
    <3>3. QED
      BY <2>1, <3>2, RemovalGoesOn
<1>5. ASSUME NEW d \in dying, CloseRoom(d)
      PROVE  /\ x.at \in {"notice", "free"} /\ x.by = "end" /\ d.room \notin closed
             /\ \E u \in Users : seat[d.room][u] = x.peer
  BY <1>5 DEF CloseRoom, Seated
<1>6. CASE \/ \E c \in Clients : \/ Connect(c) \/ Disconnect(c) \/ Join(c)
                                 \/ \E ch \in Channels : CanConnectVoice(c, ch)
           \/ \E c \in Clients : ClientOffline(c)
           \/ PresenceOffline \/ UserOfflineReturns
           \/ \E r \in Rooms : TimerStep(r)
           \/ \E ch \in Channels : DeleteChannel(ch) \/ DestroyRoom(ch)
           \/ ShutdownHub \/ Shutdown \/ UNCHANGED vars
  <2>1. UNCHANGED removals
    BY <1>6 DEF Connect, Disconnect, Join, ReserveUserRoom, JoinLoop, CreateRoom, AddPeer, JoinFails,
                CancelCleanup, AnnounceJoin, CanConnectVoice, ClientOffline, PresenceOffline,
                UserOfflineReturns, TimerStep, TimerFires, CleanupRoom, DeleteChannel, DestroyRoom,
                ShutdownHub, Shutdown, vars
  <2>2. QED
    BY <2>1
<1>7. QED
  BY <1>1, <1>2, <1>3, <1>4, <1>5, <1>6 DEF Next, HubStep

LEMMA RemovalsAreOfPeers ==
    ASSUME IInv, TypeOK', [Next]_vars
    PROVE  \A x \in removals' : x.peer \in Peers /\ owner[x.peer] # None
<1> USE DEF IInv
<1> SUFFICES ASSUME NEW x \in removals' PROVE x.peer \in Peers /\ owner[x.peer] # None
  OBVIOUS
<1>1. x.peer \in Peers
  BY DEF TypeOK, Removal
<1>2. ASSUME NEW r \in Rooms, NEW u \in Users, seat[r][u] = x.peer PROVE owner[x.peer] # None
  BY <1>1, <1>2, Constants DEF PeersAreKnown
<1>3. QED
  BY <1>1, <1>2, RemovalOrigins, Places DEF PeersAreKnown

LEMMA PeersStep ==
    ASSUME IInv, TypeOK', [Next]_vars
    PROVE  PeersAreKnown'
<1> USE DEF IInv
<1>0. \A m \in removals' : owner'[m.peer] # None
  BY RemovalsAreOfPeers, PeersStay
<1>1. \A r \in Rooms, u \in Users : seat'[r][u] # None =>
         \/ seat'[r][u] = seat[r][u]
         \/ \E c \in Clients : AddPeer(c)
  <2>1. ASSUME NEW m \in removals, RemovePeer(m)
        PROVE  \A r \in Rooms, u \in Users : seat'[r][u] # None => seat'[r][u] = seat[r][u]
    <3>1. CASE seat' = [seat EXCEPT ![room[m.peer]][UserOfPeer(m.peer)] = None]
      <4>1. room[m.peer] \in Rooms /\ UserOfPeer(m.peer) \in Users
        BY Places DEF PeersAreKnown
      <4>2. \A r \in Rooms, u \in Users : seat'[r][u] =
                IF r = room[m.peer] /\ u = UserOfPeer(m.peer) THEN None ELSE seat[r][u]
        BY <3>1, <4>1 DEF TypeOK
      <4>3. QED
        BY <4>2
    <3>2. QED
      BY <2>1, <3>1 DEF RemovePeer
  <2>2. ASSUME NEW d \in dying, CloseRoom(d)
        PROVE  \A r \in Rooms, u \in Users : seat'[r][u] # None => seat'[r][u] = seat[r][u]
    BY <2>2 DEF CloseRoom, TypeOK
  <2>3. (\A c \in Clients : ~AddPeer(c)) /\ (\A m \in removals : ~RemovePeer(m)) /\ (\A d \in dying : ~CloseRoom(d))
        => UNCHANGED seat
    BY RoomSteps DEF ReserveUserRoom, JoinFails, CreateRoom, CancelCleanup, UntrackPeer,
                     FreePeer, TimerFires, CleanupRoom, DestroyRoom, Shutdown
  <2>4. QED
    BY <2>1, <2>2, <2>3
<1>2. CASE ~\E c \in Clients : AddPeer(c)
  <2>1. UNCHANGED <<peerVars, nPeers>>
    BY <1>2, RoomSteps DEF ReserveUserRoom, JoinFails, CreateRoom, CancelCleanup, RemovePeer, UntrackPeer,
                     FreePeer, TimerFires, CleanupRoom, DestroyRoom, CloseRoom, Shutdown
  <2>2. \A p \in Peers : owner[p] # None => room[p] # None /\ home'[room[p]] # None
    BY PeersStay, Places DEF PeersAreKnown
  <2>3. \A r \in Rooms, u \in Users : LET p == seat'[r][u] IN
          p # None => owner[p] # None /\ room[p] = r /\ UserOfPeer(p) = u
    BY <1>1, <1>2 DEF PeersAreKnown
  <2>4. QED
    BY <1>0, <2>1, <2>2, <2>3 DEF PeersAreKnown, UserOfPeer
<1>3. ASSUME NEW c \in Clients, AddPeer(c) PROVE PeersAreKnown'
  <2> DEFINE n == nPeers + 1
  <2>1. target[c] \in Rooms /\ home[target[c]] # None /\ UserOf[c] \in Users /\ UNCHANGED home
        /\ chan[c] # None
    BY <1>3, Constants DEF AddPeer, JoinersStand, TypeOK
  <2>2. CASE UNCHANGED <<seat, peerVars, nPeers>>
    BY <1>0, <2>1, <2>2 DEF PeersAreKnown, UserOfPeer
  <2>3. CASE /\ nPeers' = n
             /\ seat' = [seat EXCEPT ![target[c]][UserOf[c]] = n]
             /\ owner' = [owner EXCEPT ![n] = c]
             /\ room' = [room EXCEPT ![n] = target[c]]
    <3>1. n \in Peers /\ nPeers \in Nat
      BY <1>3, PeerIsLeft DEF AddPeer, Waiting, TypeOK
    <3> HIDE DEF n
    <3>2. \A p \in Peers : owner'[p] # None <=> p <= nPeers'
      <4> SUFFICES ASSUME NEW p \in Peers PROVE owner'[p] # None <=> p <= nPeers'
        OBVIOUS
      <4>1. CASE p = n
        BY <2>3, <3>1, <4>1, Constants DEF TypeOK
      <4>2. CASE p # n
        <5>1. p <= n <=> p <= nPeers
          BY <3>1, <4>2, Constants DEF n
        <5>2. QED
          BY <2>3, <3>1, <4>2, <5>1 DEF PeersAreKnown, TypeOK
      <4>3. QED
        BY <4>1, <4>2
    <3>3. owner[n] = None
      BY <3>1 DEF PeersAreKnown, n
    <3>4. /\ owner'[n] = c /\ room'[n] = target[c]
          /\ \A p \in Peers : p # n => owner'[p] = owner[p] /\ room'[p] = room[p]
      BY <2>3, <3>1 DEF TypeOK
    <3>5. \A p \in Peers : owner'[p] # None => room'[p] # None /\ home'[room'[p]] # None
      BY <2>1, <3>4, Constants DEF PeersAreKnown
    <3>6. ASSUME NEW r \in Rooms, NEW u \in Users, seat'[r][u] # None
          PROVE  /\ owner'[seat'[r][u]] # None /\ room'[seat'[r][u]] = r
                 /\ UserOf[owner'[seat'[r][u]]] = u
      <4>1. CASE r = target[c] /\ u = UserOf[c]
        <5>1. seat'[r][u] = n
          <6>1. \A q \in Rooms, w \in Users : seat'[q][w] =
                    IF q = target[c] /\ w = UserOf[c] THEN n ELSE seat[q][w]
            BY <2>1, <2>3 DEF TypeOK
          <6>2. QED
            BY <4>1, <6>1
        <5>2. QED
          BY <3>4, <4>1, <5>1, Constants
      <4>2. CASE ~(r = target[c] /\ u = UserOf[c])
        <5>1. seat'[r][u] = seat[r][u] /\ seat[r][u] \in Peers
          BY <2>1, <2>3, <3>6, <4>2, SeatExcept, Places
        <5>2. owner[seat[r][u]] # None /\ room[seat[r][u]] = r /\ UserOfPeer(seat[r][u]) = u
          BY <3>6, <5>1 DEF PeersAreKnown
        <5>3. QED
          BY <3>3, <3>4, <5>1, <5>2 DEF UserOfPeer
      <4>3. QED
        BY <4>1, <4>2
    <3>7. QED
      BY <1>0, <3>2, <3>5, <3>6 DEF PeersAreKnown, UserOfPeer
  <2>4. QED
    BY <1>3, <2>2, <2>3 DEF AddPeer
<1>4. QED
  BY <1>2, <1>3

-----------------------------------------------------------------------------
(***************************************************************************)
(* Clients, the threads that remove peers, and the hub.                    *)
(***************************************************************************)
\* Where the ReadPumps stand: whoever steps, one client at a time.
LEMMA ClientsStep ==
    ASSUME IInv, TypeOK', [Next]_vars
    PROVE  \/ UNCHANGED clientVars
           \/ \E c \in Clients : /\ \/ Connect(c) \/ Disconnect(c) \/ Join(c)
                                    \/ \E ch \in Channels : CanConnectVoice(c, ch) \/ Leave(c, ch)
                                 /\ \A d \in Clients \ {c} : /\ pc'[d] = pc[d] /\ chan'[d] = chan[d]
                                                             /\ target'[d] = target[d]
           \/ \E m \in removals : /\ Return(m) /\ UNCHANGED <<chan, target>>
                                  /\ RemovePeer(m) \/ AnnounceLeave(m) \/ FreePeer(m)
           \/ PresenceOffline /\ pc[hub.client] = "gone" /\ UNCHANGED <<chan, target>>
<1> USE DEF IInv
<1>1. ASSUME NEW c \in Clients, NEW d \in Clients \ {c},
             \/ Connect(c) \/ Disconnect(c) \/ Join(c)
             \/ \E ch \in Channels : CanConnectVoice(c, ch) \/ Leave(c, ch)
      PROVE  pc'[d] = pc[d] /\ chan'[d] = chan[d] /\ target'[d] = target[d]
  BY <1>1 DEF Connect, Disconnect, Join, ReserveUserRoom, JoinLoop, CreateRoom, AddPeer, JoinFails,
              CancelCleanup, AnnounceJoin, CanConnectVoice, Leave, Goto, Answer, TypeOK
<1>2. ASSUME NEW p \in Peers, PeerConnectionFails(p) PROVE UNCHANGED clientVars
  BY <1>2 DEF PeerConnectionFails
<1>3. ASSUME NEW m \in removals, RemovalStep(m)
      PROVE  \/ UNCHANGED clientVars
             \/ /\ Return(m) /\ UNCHANGED <<chan, target>>
                /\ RemovePeer(m) \/ AnnounceLeave(m) \/ FreePeer(m)
  BY <1>3 DEF RemovalStep, RemovePeer, UntrackPeer, AnnounceLeave, NoticeLeave, FreePeer
<1>4. CASE HubStep
  <2>1. PresenceOffline => pc[hub.client] = "gone" /\ UNCHANGED <<chan, target>>
    BY DEF PresenceOffline, HubIsAwaited
  <2>2. ~PresenceOffline => UNCHANGED clientVars
    BY <1>4 DEF HubStep, ClientOffline, OfflineVisit, UserOfflineReturns
  <2>3. QED
    BY <2>1, <2>2
<1>5. CASE \/ \E r \in Rooms : TimerStep(r)
           \/ \E ch \in Channels : DeleteChannel(ch) \/ DestroyRoom(ch)
           \/ \E d \in dying : CloseRoom(d)
           \/ ShutdownHub \/ Shutdown \/ UNCHANGED vars
  BY <1>5 DEF TimerStep, TimerFires, CleanupRoom, DeleteChannel, DestroyRoom, CloseRoom, ShutdownHub,
              Shutdown, vars
<1>6. QED
  BY <1>1, <1>2, <1>3, <1>4, <1>5 DEF Next

\* A join is counted when it begins and a peer when it is made.
LEMMA JoinsAreCounted ==
    ASSUME IInv, TypeOK', [Next]_vars
    PROVE  nPeers' + Cardinality(Waiting') <= joins'
<1> USE DEF IInv
<1>1. IsFiniteSet(Waiting) /\ Cardinality(Waiting) \in Nat /\ nPeers \in Nat /\ joins \in Nat
      /\ nPeers + Cardinality(Waiting) <= joins
  BY Constants, FS_Subset, FS_CardinalityType DEF Waiting, JoinersStand, TypeOK
<1>2. ASSUME Waiting' \subseteq Waiting, UNCHANGED <<nPeers, joins>>
      PROVE  nPeers' + Cardinality(Waiting') <= joins'
  <2>1. Cardinality(Waiting') <= Cardinality(Waiting) /\ Cardinality(Waiting') \in Nat
    BY <1>1, <1>2, FS_Subset, FS_CardinalityType
  <2>2. QED
    BY <1>1, <1>2, <2>1
<1>3. ASSUME NEW c \in Clients, AddPeer(c)
      PROVE  nPeers' + Cardinality(Waiting') <= joins'
  <2>1. c \in Waiting
    BY <1>3 DEF AddPeer, Waiting
  <2>2. CASE Goto(c, "loop") \/ (Goto(c, "fail") /\ UNCHANGED nPeers)
    <3>1. Waiting' \subseteq Waiting
      BY <2>1, <2>2 DEF Waiting, Goto, TypeOK
    <3>2. UNCHANGED <<nPeers, joins>>
      BY <1>3, <2>2 DEF AddPeer, Goto, TypeOK
    <3>3. QED
      BY <1>2, <3>1, <3>2
  <2>3. CASE Goto(c, "cancel") /\ nPeers' = nPeers + 1
    <3>1. Waiting' = Waiting \ {c}
      BY <2>1, <2>3 DEF Waiting, Goto, TypeOK
    <3>2. Cardinality(Waiting') = Cardinality(Waiting) - 1
      BY <1>1, <2>1, <3>1, FS_RemoveElement
    <3>3. UNCHANGED joins
      BY <1>3 DEF AddPeer
    <3>4. QED
      BY <1>1, <2>3, <3>2, <3>3
  <2>4. QED
    BY <1>3, <2>2, <2>3 DEF AddPeer
<1>4. ASSUME NEW c \in Clients, NEW ch \in Channels, CanConnectVoice(c, ch)
      PROVE  nPeers' + Cardinality(Waiting') <= joins'
  <2>1. c \notin Waiting /\ Waiting' = Waiting \cup {c} /\ joins' = joins + 1 /\ UNCHANGED nPeers
    BY <1>4 DEF CanConnectVoice, Waiting, Goto, TypeOK
  <2>2. Cardinality(Waiting') = Cardinality(Waiting) + 1
    BY <1>1, <2>1, FS_AddElement
  <2>3. QED
    BY <1>1, <2>1, <2>2
<1>5. ASSUME NEW c \in Clients,
             Connect(c) \/ Disconnect(c) \/ (\E ch \in Channels : Leave(c, ch)) \/ ReserveUserRoom(c)
             \/ JoinLoop(c) \/ CreateRoom(c) \/ JoinFails(c) \/ CancelCleanup(c) \/ AnnounceJoin(c)
      PROVE  Waiting' \subseteq Waiting /\ UNCHANGED <<nPeers, joins>>
  BY <1>5 DEF Connect, Disconnect, Leave, ReserveUserRoom, JoinLoop, CreateRoom, JoinFails, CancelCleanup,
              AnnounceJoin, Goto, Answer, Waiting, TypeOK
<1>6. ASSUME NEW m \in removals, Return(m) PROVE Waiting' \subseteq Waiting
  BY <1>6 DEF Return, Waiting, TypeOK
<1>7. CASE PresenceOffline
  BY <1>2, <1>7 DEF PresenceOffline, Goto, Waiting, TypeOK
<1>8. UNCHANGED pc => Waiting' = Waiting
  BY DEF Waiting
<1>9. (\E c \in Clients : AddPeer(c) \/ \E ch \in Channels : CanConnectVoice(c, ch))
      \/ UNCHANGED <<nPeers, joins>>
  BY DEF Next, Join, RemovalStep, HubStep, TimerStep, Connect, Disconnect, Leave, ReserveUserRoom,
         JoinLoop, CreateRoom, JoinFails, CancelCleanup,
              AnnounceJoin, PeerConnectionFails, RemovePeer, UntrackPeer, AnnounceLeave, NoticeLeave,
              FreePeer, ClientOffline, OfflineVisit,
              PresenceOffline, UserOfflineReturns, TimerFires, CleanupRoom, DeleteChannel, DestroyRoom,
              CloseRoom, ShutdownHub,
              Shutdown, vars
<1>10. QED
  BY <1>2, <1>3, <1>4, <1>5, <1>6, <1>7, <1>8, <1>9, ClientsStep DEF Join

LEMMA JoinersStep ==
    ASSUME IInv, TypeOK', [Next]_vars
    PROVE  JoinersStand'
<1> USE DEF IInv
<1> DEFINE Stands(c) ==
    /\ pc[c] \in {"reserve", "loop", "lookup", "add", "fail", "cancel", "announce"} => chan[c] # None
    /\ pc[c] \in {"add", "cancel"} => target[c] # None /\ home[target[c]] = chan[c]
<1>0. \A c \in Clients : Stands(c)
  BY DEF JoinersStand
<1>1. ASSUME NEW c \in Clients, pc'[c] = pc[c], chan'[c] = chan[c], target'[c] = target[c] PROVE Stands(c)'
  <2>1. pc[c] \in {"add", "cancel"} => target[c] \in Rooms /\ home[target[c]] # None
    BY <1>0, Constants DEF TypeOK
  <2>2. QED
    BY <1>0, <1>1, <2>1, PeersStay
<1>2. ASSUME NEW c \in Clients,
             \/ Connect(c) \/ Disconnect(c) \/ Join(c)
             \/ \E ch \in Channels : CanConnectVoice(c, ch) \/ Leave(c, ch)
      PROVE  Stands(c)'
  <2>1. CASE Connect(c) \/ Disconnect(c) \/ \E ch \in Channels : Leave(c, ch)
    BY <2>1 DEF Connect, Disconnect, Leave, Goto, TypeOK
  <2>2. ASSUME NEW ch \in Channels, CanConnectVoice(c, ch) PROVE Stands(c)'
    BY <2>2, Constants DEF CanConnectVoice, Goto, TypeOK
  <2>3. CASE ReserveUserRoom(c) \/ JoinLoop(c) \/ JoinFails(c) \/ AnnounceJoin(c)
    BY <1>0, <2>3 DEF ReserveUserRoom, JoinLoop, JoinFails, AnnounceJoin, Answer, Goto, TypeOK
  <2>4. CASE CreateRoom(c)
    <3>1. chan[c] \in Channels /\ pc'[c] = "add" /\ chan' = chan
      BY <1>0, <2>4 DEF CreateRoom, Goto, TypeOK
    <3>2. CASE rooms[chan[c]] # None
      BY <2>4, <3>1, <3>2, Constants DEF CreateRoom, RoomsAreKnown, TypeOK
    <3>3. CASE rooms[chan[c]] = None
      <4>1. nRooms' \in Rooms
        BY <2>4, <3>3, Constants DEF CreateRoom, TypeOK, Rooms
      <4>2. QED
        BY <2>4, <3>1, <3>3, <4>1, Constants DEF CreateRoom, TypeOK
    <3>4. QED
      BY <3>2, <3>3
  <2>5. CASE AddPeer(c) \/ CancelCleanup(c)
    BY <1>0, <2>5 DEF AddPeer, CancelCleanup, Goto, TypeOK
  <2>6. QED
    BY <1>2, <2>1, <2>2, <2>3, <2>4, <2>5 DEF Join
<1>3. ASSUME NEW c \in Clients, pc'[c] \in {"idle", "done"} PROVE Stands(c)'
  BY <1>3
<1>4. ASSUME NEW m \in removals, Return(m), UNCHANGED <<chan, target>> PROVE \A c \in Clients : Stands(c)'
  <2>1. \A c \in Clients : pc'[c] = pc[c] \/ pc'[c] = "idle"
    BY <1>4 DEF Return, TypeOK
  <2>2. QED
    BY <1>1, <1>3, <1>4, <2>1
<1>5. ASSUME PresenceOffline, UNCHANGED <<chan, target>> PROVE \A c \in Clients : Stands(c)'
  <2>1. \A c \in Clients : pc'[c] = pc[c] \/ pc'[c] = "done"
    BY <1>5 DEF PresenceOffline, Goto, TypeOK
  <2>2. QED
    BY <1>1, <1>3, <1>5, <2>1
<1> HIDE DEF Stands
<1>6. \A c \in Clients : Stands(c)'
  BY <1>1, <1>2, <1>4, <1>5, ClientsStep
<1>7. QED
  BY <1>6, JoinsAreCounted DEF Stands, JoinersStand

LEMMA LeaversStep ==
    ASSUME IInv, TypeOK', [Next]_vars
    PROVE  LeaversWait'
<1> USE DEF IInv
<1>1. ASSUME NEW c \in Clients, NEW ch \in Channels, Leave(c, ch) PROVE LeaversWait'
  <2>1. pc[c] = "idle" /\ pc' = [pc EXCEPT ![c] = "leaving"]
        /\ removals' = removals \cup {[peer |-> seat[rooms[ch]][UserOf[c]], by |-> c, at |-> "delete"]}
    BY <1>1 DEF Leave, CallRemovePeer, Goto
  <2>2. \A m \in removals : m.by # c
    BY <2>1 DEF LeaversWait
  <2>3. QED
    BY <2>1, <2>2 DEF LeaversWait, TypeOK
<1>2. ASSUME \A x \in removals' : x \in removals \/ x.by \notin Clients, UNCHANGED pc PROVE LeaversWait'
  BY <1>2 DEF LeaversWait
<1>3. ASSUME NEW p \in Peers, PeerConnectionFails(p) PROVE LeaversWait'
  <2>1. UNCHANGED pc /\ \A x \in removals' : x \in removals \/ x.by = "pc"
    BY <1>3 DEF PeerConnectionFails, CallRemovePeer
  <2>2. QED
    BY <1>2, <2>1, Constants
<1>4. ASSUME NEW m \in removals, Return(m) PROVE LeaversWait'
  BY <1>4 DEF Return, LeaversWait, TypeOK
<1>5. ASSUME NEW m \in removals, NEW l \in {"delete", "untrack", "leave", "notice", "free"}, GoOn(m, l), UNCHANGED pc
      PROVE  LeaversWait'
  <2>1. [m EXCEPT !.at = l].by = m.by
    BY Places, RemovalGoesOn
  <2>2. \A n \in removals' : n = [m EXCEPT !.at = l] \/ (n \in removals /\ n # m)
    BY <1>5 DEF GoOn
  <2>3. QED
    BY <1>5, <2>1, <2>2 DEF LeaversWait
<1>6. ASSUME NEW m \in removals, RemovalStep(m) PROVE LeaversWait'
  <2>1. Return(m) \/ (UNCHANGED pc /\ \E l \in {"delete", "untrack", "leave", "notice", "free"} : GoOn(m, l))
    BY <1>6 DEF RemovalStep, RemovePeer, UntrackPeer, AnnounceLeave, NoticeLeave, FreePeer
  <2>2. QED
    BY <1>4, <1>5, <2>1
<1>7. CASE UNCHANGED removals
  <2>1. \A m \in removals : m.by \in Clients => pc'[m.by] = "leaving"
    <3>1. ASSUME NEW c \in Clients, pc[c] = "leaving",
                 \/ Connect(c) \/ Disconnect(c) \/ Join(c)
                 \/ \E ch \in Channels : CanConnectVoice(c, ch) \/ Leave(c, ch)
          PROVE  FALSE
      BY <3>1 DEF Connect, Disconnect, Join, ReserveUserRoom, JoinLoop, CreateRoom, AddPeer, JoinFails,
                  CancelCleanup, AnnounceJoin, CanConnectVoice, Leave
    <3>2. ASSUME PresenceOffline, pc[hub.client] = "gone", NEW c \in Clients, pc[c] = "leaving" PROVE pc'[c] = "leaving"
      BY <3>2 DEF PresenceOffline, Goto, TypeOK
    <3>3. \A m \in removals : ~Return(m)
      BY <1>7 DEF Return
    <3>4. QED
      BY <3>1, <3>2, <3>3, ClientsStep DEF LeaversWait
  <2>2. QED
    BY <1>7, <2>1 DEF LeaversWait
<1>8. ASSUME NEW ch \in hub.list, OfflineVisit(ch) PROVE LeaversWait'
  <2>1. UNCHANGED pc /\ \A x \in removals' : x \in removals \/ x.by = "hub"
    BY <1>8 DEF OfflineVisit, CallRemovePeer
  <2>2. QED
    BY <1>2, <2>1, Constants
<1>9. ASSUME NEW d \in dying, CloseRoom(d) PROVE LeaversWait'
  <2>1. UNCHANGED pc /\ \A x \in removals' : x \in removals \/ x.by = "end"
    BY <1>9 DEF CloseRoom
  <2>2. QED
    BY <1>2, <2>1, Constants
<1>10. CASE \/ \E c \in Clients : \/ Connect(c) \/ Disconnect(c) \/ Join(c)
                                 \/ \E ch \in Channels : CanConnectVoice(c, ch)
            \/ \E c \in Clients : ClientOffline(c)
            \/ PresenceOffline \/ UserOfflineReturns
            \/ \E r \in Rooms : TimerStep(r)
            \/ \E ch \in Channels : DeleteChannel(ch) \/ DestroyRoom(ch)
            \/ ShutdownHub \/ Shutdown \/ UNCHANGED vars
  <2>1. UNCHANGED removals
    BY <1>10 DEF Connect, Disconnect, Join, ReserveUserRoom, JoinLoop, CreateRoom, AddPeer, JoinFails,
                CancelCleanup, AnnounceJoin, CanConnectVoice, ClientOffline, PresenceOffline,
                UserOfflineReturns, TimerStep, TimerFires, CleanupRoom, DeleteChannel, DestroyRoom,
                ShutdownHub, Shutdown, vars
  <2>2. QED
    BY <1>7, <2>1
<1>11. QED
  BY <1>1, <1>3, <1>6, <1>8, <1>9, <1>10 DEF Next, HubStep

LEMMA HubAwaitedStep ==
    ASSUME IInv, TypeOK', [Next]_vars
    PROVE  HubIsAwaited'
<1> USE DEF IInv
<1>1. ASSUME UNCHANGED hub, NEW c \in Clients,
             \/ Connect(c) \/ Disconnect(c) \/ Join(c)
             \/ \E ch \in Channels : CanConnectVoice(c, ch) \/ Leave(c, ch)
      PROVE  HubIsAwaited'
  <2>1. /\ pc[c] \notin {"gone", "done"} /\ (pc[c] = "off" => hub = Idle)
        /\ \A d \in Clients \ {c} : pc'[d] = pc[d]
    BY <1>1 DEF Connect, Disconnect, Join, ReserveUserRoom, JoinLoop, CreateRoom, AddPeer, JoinFails,
                CancelCleanup, AnnounceJoin, CanConnectVoice, Leave, Goto, Answer, TypeOK
  <2>2. hub.phase # "idle" => hub.client \in Clients /\ pc[c] # "off"
    BY <2>1 DEF HubIsAwaited, TypeOK, Idle
  <2>3. QED
    BY <1>1, <2>1, <2>2 DEF HubIsAwaited
<1>2. ASSUME UNCHANGED hub, NEW m \in removals, Return(m) PROVE HubIsAwaited'
  <2>1. \A c \in Clients : pc'[c] = pc[c] \/ pc[c] = "leaving"
    BY <1>2 DEF Return, LeaversWait, TypeOK
  <2>2. hub.phase # "idle" => hub.client \in Clients
    BY DEF HubIsAwaited, TypeOK
  <2>3. QED
    BY <1>2, <2>1, <2>2 DEF HubIsAwaited
<1>3. ASSUME UNCHANGED <<hub, pc>> PROVE HubIsAwaited'
  BY <1>3 DEF HubIsAwaited
<1>4. ASSUME NEW c \in Clients, ClientOffline(c) PROVE HubIsAwaited'
  BY <1>4, Constants DEF ClientOffline, HubIsAwaited
<1>5. ASSUME NEW ch \in hub.list, OfflineVisit(ch) PROVE HubIsAwaited'
  <2>1. UNCHANGED pc /\ hub' = [hub EXCEPT !.list = @ \ {ch}]
    BY <1>5 DEF OfflineVisit
  <2>2. hub'.phase = hub.phase /\ hub'.client = hub.client /\ hub'.list = hub.list \ {ch}
    BY <2>1 DEF TypeOK
  <2>3. QED
    BY <2>1, <2>2 DEF HubIsAwaited
<1>6. CASE PresenceOffline
  <2>1. hub.client \in Clients /\ pc' = [pc EXCEPT ![hub.client] = "done"]
    BY <1>6 DEF PresenceOffline, HubIsAwaited, TypeOK, Goto
  <2>2. CASE hub' = Idle
    BY <2>2 DEF HubIsAwaited, Idle
  <2>3. CASE /\ {d \in Clients \ {hub.client} : UserOf[d] = UserOf[hub.client] /\ pc[d] \notin {"off", "done"}} = {}
             /\ hub' = [hub EXCEPT !.phase = "user", !.list = userRooms[UserOf[hub.client]]]
    <3>1. hub'.phase = "user" /\ hub'.client = hub.client
      BY <2>3 DEF TypeOK
    <3>2. QED
      BY <2>1, <2>3, <3>1, Constants DEF HubIsAwaited, TypeOK
  <2>4. QED
    BY <1>6, <2>2, <2>3 DEF PresenceOffline
<1>7. CASE UserOfflineReturns
  BY <1>7 DEF UserOfflineReturns, HubIsAwaited, Idle
<1>8. CASE ~HubStep
  <2>1. UNCHANGED hub
    BY <1>8 DEF Next, Join, RemovalStep, TimerStep, Connect, Disconnect, CanConnectVoice, Leave,
           ReserveUserRoom,
              JoinLoop, CreateRoom, AddPeer, JoinFails, CancelCleanup, AnnounceJoin, PeerConnectionFails,
              RemovePeer, UntrackPeer, AnnounceLeave, NoticeLeave, FreePeer, TimerFires, CleanupRoom,
              DeleteChannel, DestroyRoom, CloseRoom, ShutdownHub, Shutdown, vars
  <2>2. ~PresenceOffline
    BY <1>8 DEF HubStep
  <2>3. QED
    BY <1>1, <1>2, <1>3, <2>1, <2>2, ClientsStep
<1>9. QED
  BY <1>4, <1>5, <1>6, <1>7, <1>8 DEF HubStep

-----------------------------------------------------------------------------
(***************************************************************************)
(* Reservations and who holds them.                                        *)
(***************************************************************************)
\* Joins are those of before, but for a client that steps.
LEMMA JoinsBut ==
    ASSUME NEW c \in Clients, \A d \in Clients \ {c} : pc'[d] = pc[d] /\ chan'[d] = chan[d],
           NEW u, NEW ch
    PROVE  Joins(u, ch)' = IF Joining(c)' /\ UserOf[c] = u /\ chan'[c] = ch
                           THEN Joins(u, ch) \cup {c} ELSE Joins(u, ch) \ {c}
BY DEF Joins, Joining

LEMMA JoinsKept ==
    ASSUME IInv, TypeOK', [Next]_vars,
           \A c \in Clients : ~ReserveUserRoom(c) /\ ~AddPeer(c) /\ ~JoinFails(c),
           NEW u, NEW ch
    PROVE  Joins(u, ch)' = Joins(u, ch)
<1> USE DEF IInv
<1>1. ASSUME NEW c \in Clients,
             \/ Connect(c) \/ Disconnect(c) \/ JoinLoop(c) \/ CreateRoom(c) \/ CancelCleanup(c) \/ AnnounceJoin(c)
             \/ \E k \in Channels : CanConnectVoice(c, k) \/ Leave(c, k)
      PROVE  (Joining(c)' <=> Joining(c)) /\ (Joining(c) => chan'[c] = chan[c])
  BY <1>1 DEF Connect, Disconnect, JoinLoop, CreateRoom, CancelCleanup, AnnounceJoin, CanConnectVoice, Leave,
              Goto, Answer, Joining, TypeOK
<1>2. ASSUME NEW m \in removals, Return(m), UNCHANGED chan
      PROVE  \A c \in Clients : (Joining(c)' <=> Joining(c)) /\ (Joining(c) => chan'[c] = chan[c])
  BY <1>2 DEF Return, Joining, LeaversWait, TypeOK
<1>3. ASSUME PresenceOffline, pc[hub.client] = "gone", UNCHANGED chan
      PROVE  \A c \in Clients : (Joining(c)' <=> Joining(c)) /\ (Joining(c) => chan'[c] = chan[c])
  BY <1>3 DEF PresenceOffline, Goto, Joining, TypeOK
<1>4. \A c \in Clients : (Joining(c)' <=> Joining(c)) /\ (Joining(c) => chan'[c] = chan[c])
  <2>1. CASE UNCHANGED clientVars
    BY <2>1 DEF Joining
  <2>2. ASSUME NEW c \in Clients,
               \/ Connect(c) \/ Disconnect(c) \/ Join(c)
               \/ \E k \in Channels : CanConnectVoice(c, k) \/ Leave(c, k),
               \A d \in Clients \ {c} : pc'[d] = pc[d] /\ chan'[d] = chan[d]
        PROVE  \A d \in Clients : (Joining(d)' <=> Joining(d)) /\ (Joining(d) => chan'[d] = chan[d])
    <3>1. (Joining(c)' <=> Joining(c)) /\ (Joining(c) => chan'[c] = chan[c])
      BY <1>1, <2>2 DEF Join
    <3>2. QED
      BY <2>2, <3>1 DEF Joining
  <2>3. QED
    BY <1>2, <1>3, <2>1, <2>2, ClientsStep
<1>5. QED
  BY <1>4 DEF Joins

\* Removals that give back are those of before, but for one that goes on or returns ...
LEMMA GiversGoOn ==
    ASSUME IInv, TypeOK', [Next]_vars, NEW m \in removals,
           NEW l \in {"delete", "untrack", "leave", "notice", "free"}, GoOn(m, l), NEW u, NEW ch
    PROVE  /\ l \in {"untrack", "notice", "free"} /\ UserOfRemoval(m) = u /\ ChannelOf(m) = ch
              => Givers(u, ch)' = (Givers(u, ch) \ {m}) \cup {[m EXCEPT !.at = l]}
           /\ ~(l \in {"untrack", "notice", "free"} /\ UserOfRemoval(m) = u /\ ChannelOf(m) = ch)
              => Givers(u, ch)' = Givers(u, ch) \ {m} \/ m = [m EXCEPT !.at = l]
<1> DEFINE n == [m EXCEPT !.at = l]
<1>1. n.peer = m.peer /\ n.at = l
  BY Places, RemovalGoesOn DEF IInv
<1>2. removals' = (removals \ {m}) \cup {n}
  BY DEF GoOn
<1> HIDE DEF n
<1>3. UserOfRemoval(n)' = UserOfRemoval(m) /\ ChannelOf(n)' = ChannelOf(m)
  BY <1>1, PeersStay DEF UserOfRemoval, ChannelOf
<1>4. \A x \in removals : UserOfRemoval(x)' = UserOfRemoval(x) /\ ChannelOf(x)' = ChannelOf(x)
  BY PeersStay
<1>5. \A x : x \in Givers(u, ch)' <=>
           \/ x \in Givers(u, ch) /\ x # m
           \/ x = n /\ l \in {"untrack", "notice", "free"} /\ UserOfRemoval(m) = u /\ ChannelOf(m) = ch
  BY <1>1, <1>2, <1>3, <1>4 DEF Givers, Gives
<1>6. QED
  BY <1>5 DEF n

LEMMA GiversReturn ==
    ASSUME IInv, TypeOK', [Next]_vars, NEW m \in removals, Return(m), NEW u, NEW ch
    PROVE  Givers(u, ch)' = Givers(u, ch) \ {m}
BY PeersStay DEF Return, Givers

LEMMA GiversKept ==
    ASSUME IInv, TypeOK', [Next]_vars,
           \A m \in removals : ~RemovePeer(m) /\ ~UntrackPeer(m) /\ ~NoticeLeave(m) /\ ~FreePeer(m),
           \A d \in dying : ~CloseRoom(d),
           NEW u, NEW ch
    PROVE  Givers(u, ch)' = Givers(u, ch)
<1>1. \A x \in removals' : x \in removals \/ ~Gives(x)
  BY RemovalOrigins DEF RemovalStep, AnnounceLeave, Return, Gives
<1>2. \A x \in removals : x \in removals' \/ ~Gives(x)
  <2>1. ASSUME NEW m \in removals, AnnounceLeave(m)
        PROVE  \A x \in removals : x \in removals' \/ ~Gives(x)
    BY <2>1 DEF AnnounceLeave, Return, Gives
  <2>2. (\A m \in removals : ~AnnounceLeave(m)) => removals \subseteq removals'
    BY DEF Next, Join, RemovalStep, HubStep, TimerStep, Connect, Disconnect, CanConnectVoice, Leave,
           ReserveUserRoom,
           JoinLoop, CreateRoom, AddPeer, JoinFails, CancelCleanup, AnnounceJoin, PeerConnectionFails,
           CallRemovePeer, ClientOffline, OfflineVisit, PresenceOffline, UserOfflineReturns, TimerFires,
           CleanupRoom, DeleteChannel, DestroyRoom, ShutdownHub, Shutdown, vars
  <2>3. QED
    BY <2>1, <2>2
<1>3. QED
  BY <1>1, <1>2, PeersStay DEF Givers

\* Who sits stays in the room and the channel; seats change by AddPeer, RemovePeer
\* and CloseRoom only.
LEMMA SeatsStay ==
    ASSUME IInv, TypeOK', [Next]_vars
    PROVE  /\ \A r \in Rooms, u \in Users : seat'[r][u] # None => home'[r] = home[r]
           /\ \A r \in Rooms, u \in Users : seat[r][u] # None => home'[r] = home[r] /\ home[r] # None
           /\ \/ UNCHANGED seat
              \/ \E c \in Clients : AddPeer(c)
              \/ \E m \in removals : RemovePeer(m)
              \/ \E d \in dying : CloseRoom(d)
<1>1. \A r \in Rooms, u \in Users : seat[r][u] # None => home'[r] = home[r] /\ home[r] # None
  BY PeersStay, Places DEF IInv, PeersAreKnown
<1>2. UNCHANGED seat \/ UNCHANGED home
  BY RoomSteps DEF ReserveUserRoom, JoinFails, CreateRoom, AddPeer, CancelCleanup, RemovePeer, UntrackPeer,
                   FreePeer, TimerFires, CleanupRoom, DestroyRoom, CloseRoom, Shutdown
<1>3. \/ UNCHANGED seat
      \/ \E c \in Clients : AddPeer(c)
      \/ \E m \in removals : RemovePeer(m)
      \/ \E d \in dying : CloseRoom(d)
  BY RoomSteps DEF ReserveUserRoom, JoinFails, CreateRoom, CancelCleanup, UntrackPeer,
                   FreePeer, TimerFires, CleanupRoom, DestroyRoom, Shutdown
<1>4. QED
  BY <1>1, <1>2, <1>3

LEMMA SeatsKept ==
    ASSUME IInv, TypeOK', [Next]_vars, NEW u \in Users, NEW ch,
           \A r \in Rooms : seat'[r][u] = None <=> seat[r][u] = None
    PROVE  SeatsOf(u, ch)' = SeatsOf(u, ch)
BY SeatsStay DEF SeatsOf

\* The same holders and the same reservation.
LEMMA HeldFrame ==
    ASSUME IInv, NEW u \in Users, NEW ch \in Channels,
           ch \in userRooms'[u] <=> ch \in userRooms[u],
           Joins(u, ch)' = Joins(u, ch), SeatsOf(u, ch)' = SeatsOf(u, ch), Givers(u, ch)' = Givers(u, ch)
    PROVE  Held(u, ch)'
<1>1. Held(u, ch)
  BY DEF IInv, ReservationsAreHeld
<1>2. QED
  BY <1>1 DEF Held

\* The reservation changes hands, or is made or given back.
LEMMA HolderIsAlone ==
    ASSUME IInv, NEW u \in Users, NEW ch \in Channels
    PROVE  /\ \A c \in Joins(u, ch) : ch \in userRooms[u] /\ Joins(u, ch) = {c} /\ SeatsOf(u, ch) = {} /\ Givers(u, ch) = {}
           /\ \A r \in SeatsOf(u, ch) : ch \in userRooms[u] /\ SeatsOf(u, ch) = {r} /\ Joins(u, ch) = {} /\ Givers(u, ch) = {}
           /\ \A m \in Givers(u, ch) : ch \in userRooms[u] /\ Givers(u, ch) = {m} /\ Joins(u, ch) = {} /\ SeatsOf(u, ch) = {}
           /\ ch \notin userRooms[u] => Joins(u, ch) = {} /\ SeatsOf(u, ch) = {} /\ Givers(u, ch) = {}
<1>1. Held(u, ch)
  BY DEF IInv, ReservationsAreHeld
<1>2. QED
  BY <1>1 DEF Held

LEMMA ReservationsOfJoins ==
    ASSUME IInv, TypeOK', [Next]_vars, NEW c \in Clients,
           ReserveUserRoom(c) \/ JoinFails(c) \/ AddPeer(c)
    PROVE  ReservationsAreHeld'
<1> USE DEF IInv
<1> DEFINE v == UserOf[c]
           k == chan[c]
<1>1. v \in Users /\ k \in Channels /\ pc[c] \in {"reserve", "fail", "add"}
  BY Constants DEF JoinersStand, TypeOK, ReserveUserRoom, JoinFails, AddPeer
<1>2. \A u, ch : Givers(u, ch)' = Givers(u, ch)
  <2>1. UNCHANGED removals
    BY DEF ReserveUserRoom, JoinFails, AddPeer
  <2>2. QED
    BY <2>1, PeersStay DEF Givers
<1>3. \A d \in Clients \ {c} : pc'[d] = pc[d] /\ chan'[d] = chan[d]
  BY DEF ReserveUserRoom, JoinFails, AddPeer, Answer, Goto, TypeOK
<1>4. \A u, ch : Joins(u, ch)' = IF Joining(c)' /\ v = u /\ chan'[c] = ch
                                 THEN Joins(u, ch) \cup {c} ELSE Joins(u, ch) \ {c}
  BY <1>3, JoinsBut
<1>5. \A u, ch : c \in Joins(u, ch) <=> Joining(c) /\ u = v /\ ch = k
  BY DEF Joins
<1>6. SUFFICES ASSUME NEW u \in Users, NEW ch \in Channels PROVE Held(u, ch)'
  BY DEF ReservationsAreHeld
<1>7. UNCHANGED seat => SeatsOf(u, ch)' = SeatsOf(u, ch)
  BY SeatsKept
<1> HIDE DEF v, k
<1>8. CASE ReserveUserRoom(c)
  <2>1. UNCHANGED seat /\ ~Joining(c)
    BY <1>8 DEF ReserveUserRoom, Joining
  <2>2. CASE Answer(c) /\ UNCHANGED userRooms
    <3>1. ~Joining(c)'
      BY <1>1, <2>2 DEF Answer, Goto, Joining, TypeOK
    <3>2. Joins(u, ch)' = Joins(u, ch)
      BY <1>4, <1>5, <2>1, <3>1
    <3>3. QED
      BY <1>2, <1>7, <2>1, <2>2, <3>2, HeldFrame
  <2>3. CASE /\ Goto(c, "loop") /\ UNCHANGED chan /\ k \notin userRooms[v]
             /\ userRooms' = [userRooms EXCEPT ![v] = @ \cup {k}]
    <3>1. Joining(c)' /\ chan'[c] = k
      BY <1>1, <2>3 DEF Goto, Joining, TypeOK, k
    <3>2. userRooms'[u] = IF u = v THEN userRooms[u] \cup {k} ELSE userRooms[u]
      BY <1>1, <2>3 DEF TypeOK
    <3>3. CASE u = v /\ ch = k
      <4>1. Joins(u, ch) = {} /\ SeatsOf(u, ch) = {} /\ Givers(u, ch) = {}
        BY <2>3, <3>3, HolderIsAlone
      <4>2. Joins(u, ch)' = {c} /\ SeatsOf(u, ch)' = {} /\ Givers(u, ch)' = {} /\ ch \in userRooms'[u]
        BY <1>2, <1>4, <1>7, <2>1, <3>1, <3>2, <3>3, <4>1
      <4>3. QED
        BY <4>2 DEF Held
    <3>4. CASE ~(u = v /\ ch = k)
      <4>1. Joins(u, ch)' = Joins(u, ch)
        BY <1>4, <1>5, <3>1, <3>4
      <4>2. QED
        BY <1>2, <1>7, <2>1, <3>2, <3>4, <4>1, HeldFrame
    <3>5. QED
      BY <3>3, <3>4
  <2>4. QED
    BY <1>8, <2>2, <2>3 DEF ReserveUserRoom, v, k
<1>9. CASE JoinFails(c)
  <2>1. UNCHANGED seat /\ Joining(c) /\ userRooms' = [userRooms EXCEPT ![v] = @ \ {k}]
    BY <1>9 DEF JoinFails, Untrack, Joining, v, k
  <2>2. ~Joining(c)'
    BY <1>9 DEF JoinFails, Answer, Goto, Joining, TypeOK
  <2>3. userRooms'[u] = IF u = v THEN userRooms[u] \ {k} ELSE userRooms[u]
    BY <1>1, <2>1 DEF TypeOK
  <2>4. CASE u = v /\ ch = k
    <3>1. Joins(u, ch) = {c} /\ SeatsOf(u, ch) = {} /\ Givers(u, ch) = {}
      BY <1>5, <2>1, <2>4, HolderIsAlone
    <3>2. Joins(u, ch)' = {} /\ SeatsOf(u, ch)' = {} /\ Givers(u, ch)' = {} /\ ch \notin userRooms'[u]
      BY <1>2, <1>4, <1>7, <2>1, <2>2, <2>3, <2>4, <3>1
    <3>3. QED
      BY <3>2 DEF Held
  <2>5. CASE ~(u = v /\ ch = k)
    <3>1. Joins(u, ch)' = Joins(u, ch)
      BY <1>4, <1>5, <2>2, <2>5
    <3>2. QED
      BY <1>2, <1>7, <2>1, <2>3, <2>5, <3>1, HeldFrame
  <2>6. QED
    BY <2>4, <2>5
<1>10. CASE AddPeer(c)
  <2>1. UNCHANGED <<userRooms, chan, home>> /\ Joining(c)
    BY <1>10 DEF AddPeer, Joining
  <2>2. CASE UNCHANGED seat /\ (Goto(c, "loop") \/ Goto(c, "fail"))
    <3>1. Joining(c)'
      BY <2>2 DEF Goto, Joining, TypeOK
    <3>2. Joins(u, ch)' = Joins(u, ch)
      BY <1>4, <1>5, <2>1, <3>1 DEF k
    <3>3. QED
      BY <1>2, <1>7, <2>1, <2>2, <3>2, HeldFrame
  <2>3. CASE /\ nPeers' = nPeers + 1 /\ Goto(c, "cancel")
             /\ seat' = [seat EXCEPT ![target[c]][v] = nPeers']
    <3>1. ~Joining(c)'
      BY <2>3 DEF Goto, Joining, TypeOK
    <3>2. target[c] \in Rooms /\ home[target[c]] = k
      BY <1>10 DEF AddPeer, JoinersStand, TypeOK, k
    <3>3. nPeers' # None
      BY <1>10, <2>3, PeerIsLeft, Constants DEF AddPeer, Waiting
    <3>4. \A r \in Rooms, w \in Users : seat'[r][w] = IF r = target[c] /\ w = v THEN nPeers' ELSE seat[r][w]
      BY <1>1, <2>3, <3>2 DEF TypeOK
    <3>5. CASE u = v /\ ch = k
      <4>1. Joins(u, ch) = {c} /\ SeatsOf(u, ch) = {} /\ Givers(u, ch) = {} /\ ch \in userRooms[u]
        BY <1>5, <2>1, <3>5, HolderIsAlone
      <4>2. SeatsOf(u, ch)' = {target[c]}
        BY <2>1, <3>2, <3>3, <3>4, <3>5, <4>1 DEF SeatsOf
      <4>3. Joins(u, ch)' = {} /\ Givers(u, ch)' = {} /\ ch \in userRooms'[u]
        BY <1>2, <1>4, <2>1, <3>1, <4>1
      <4>4. QED
        BY <4>2, <4>3 DEF Held
    <3>6. CASE ~(u = v /\ ch = k)
      <4>1. Joins(u, ch)' = Joins(u, ch)
        BY <1>4, <1>5, <3>1, <3>6
      <4>2. SeatsOf(u, ch)' = SeatsOf(u, ch)
        BY <2>1, <3>2, <3>4, <3>6 DEF SeatsOf
      <4>3. QED
        BY <1>2, <2>1, <4>1, <4>2, HeldFrame
    <3>7. QED
      BY <3>5, <3>6
  <2>4. QED
    BY <1>10, <2>2, <2>3 DEF AddPeer, v
<1>11. QED
  BY <1>8, <1>9, <1>10

LEMMA ReservationsOfRemovals ==
    ASSUME IInv, TypeOK', [Next]_vars, NEW m \in removals,
           RemovePeer(m) \/ UntrackPeer(m) \/ NoticeLeave(m) \/ FreePeer(m)
    PROVE  ReservationsAreHeld'
<1> USE DEF IInv
<1> DEFINE v == UserOfRemoval(m)
           k == ChannelOf(m)
           q == room[m.peer]
<1>1. m \in Removal /\ v \in Users /\ k \in Channels /\ q \in Rooms /\ home[q] = k
  BY Places DEF PeersAreKnown, UserOfRemoval, ChannelOf
<1>2. \A u, ch : m \in Givers(u, ch) <=> Gives(m) /\ u = v /\ ch = k
  BY DEF Givers
<1>3. SUFFICES ASSUME NEW u \in Users, NEW ch \in Channels PROVE Held(u, ch)'
  BY DEF ReservationsAreHeld
<1>4. Joins(u, ch)' = Joins(u, ch)
  <2>1. \A c \in Clients : (Joining(c)' <=> Joining(c)) /\ chan'[c] = chan[c]
    BY DEF RemovePeer, UntrackPeer, NoticeLeave, FreePeer, Return, LeaversWait, Joining, TypeOK
  <2>2. QED
    BY <2>1 DEF Joins
<1>5. UNCHANGED seat => SeatsOf(u, ch)' = SeatsOf(u, ch)
  BY SeatsKept
<1>6. UserOfPeer(m.peer) = v
  BY DEF UserOfRemoval
<1> HIDE DEF v, k
<1>7. CASE RemovePeer(m)
  <2>1. UNCHANGED <<userRooms, home>> /\ ~Gives(m)
    BY <1>7 DEF RemovePeer, Gives
  <2>2. CASE seat[q][v] # m.peer
    <3>1. Return(m) /\ UNCHANGED seat
      BY <1>6, <1>7, <2>2 DEF RemovePeer
    <3>2. Givers(u, ch)' = Givers(u, ch)
      BY <1>2, <2>1, <3>1, GiversReturn
    <3>3. QED
      BY <1>4, <1>5, <2>1, <3>1, <3>2, HeldFrame
  <2>3. CASE seat[q][v] = m.peer
    <3>1. GoOn(m, "untrack") /\ seat' = [seat EXCEPT ![q][v] = None]
      BY <1>6, <1>7, <2>3 DEF RemovePeer
    <3>2. \A r \in Rooms, w \in Users : seat'[r][w] = IF r = q /\ w = v THEN None ELSE seat[r][w]
      BY <1>1, <3>1 DEF TypeOK
    <3>3. m # [m EXCEPT !.at = "untrack"]
      BY <1>1, <1>7, RemovalGoesOn DEF RemovePeer
    <3>4. m.peer # None
      BY <1>1, Constants DEF Removal
    <3>5. CASE u = v /\ ch = k
      <4>1. q \in SeatsOf(u, ch)
        BY <1>1, <2>3, <3>4, <3>5 DEF SeatsOf
      <4>2. SeatsOf(u, ch) = {q} /\ Joins(u, ch) = {} /\ Givers(u, ch) = {} /\ ch \in userRooms[u]
        BY <4>1, HolderIsAlone
      <4>3. SeatsOf(u, ch)' = {}
        BY <2>1, <3>2, <3>5, <4>2 DEF SeatsOf
      <4>4. Givers(u, ch)' = {[m EXCEPT !.at = "untrack"]}
        BY <3>1, <3>5, <4>2, GiversGoOn DEF v, k
      <4>5. QED
        BY <1>4, <2>1, <4>2, <4>3, <4>4 DEF Held
    <3>6. CASE ~(u = v /\ ch = k)
      <4>1. SeatsOf(u, ch)' = SeatsOf(u, ch)
        BY <1>1, <2>1, <3>2, <3>6 DEF SeatsOf
      <4>2. Givers(u, ch)' = Givers(u, ch)
        BY <1>2, <2>1, <3>1, <3>3, <3>6, GiversGoOn DEF v, k
      <4>3. QED
        BY <1>4, <2>1, <4>1, <4>2, HeldFrame
    <3>7. QED
      BY <3>5, <3>6
  <2>4. QED
    BY <2>2, <2>3
<1>8. CASE UntrackPeer(m) \/ FreePeer(m)
  <2>1. /\ Gives(m) /\ UNCHANGED seat
        /\ userRooms' = [userRooms EXCEPT ![v] = @ \ {k}]
    BY <1>6, <1>8 DEF UntrackPeer, FreePeer, Gives, Untrack, ChannelOf, k
  <2>2. userRooms'[u] = IF u = v THEN userRooms[u] \ {k} ELSE userRooms[u]
    BY <1>1, <2>1 DEF TypeOK
  <2>3. Givers(u, ch)' = Givers(u, ch) \ {m}
    <3>1. CASE UntrackPeer(m)
      <4>1. m # [m EXCEPT !.at = "leave"] /\ GoOn(m, "leave")
        BY <1>1, <3>1, RemovalGoesOn DEF UntrackPeer
      <4>2. QED
        BY <4>1, GiversGoOn
    <3>2. CASE FreePeer(m)
      BY <3>2, GiversReturn DEF FreePeer
    <3>3. QED
      BY <1>8, <3>1, <3>2
  <2>4. CASE u = v /\ ch = k
    <3>1. Givers(u, ch) = {m} /\ Joins(u, ch) = {} /\ SeatsOf(u, ch) = {}
      BY <1>2, <2>1, <2>4, HolderIsAlone
    <3>2. ch \notin userRooms'[u] /\ Givers(u, ch)' = {} /\ Joins(u, ch)' = {} /\ SeatsOf(u, ch)' = {}
      BY <1>4, <1>5, <2>1, <2>2, <2>3, <2>4, <3>1
    <3>3. QED
      BY <3>2 DEF Held
  <2>5. CASE ~(u = v /\ ch = k)
    <3>1. Givers(u, ch)' = Givers(u, ch)
      BY <1>2, <2>3, <2>5
    <3>2. QED
      BY <1>4, <1>5, <2>1, <2>2, <2>5, <3>1, HeldFrame
  <2>6. QED
    BY <2>4, <2>5
<1>9. CASE NoticeLeave(m)
  <2>1. Gives(m) /\ UNCHANGED <<userRooms, seat>> /\ GoOn(m, "free") /\ m # [m EXCEPT !.at = "free"]
    BY <1>1, <1>9, RemovalGoesOn DEF NoticeLeave, Gives
  <2>2. CASE u = v /\ ch = k
    <3>1. Givers(u, ch) = {m} /\ Joins(u, ch) = {} /\ SeatsOf(u, ch) = {} /\ ch \in userRooms[u]
      BY <1>2, <2>1, <2>2, HolderIsAlone
    <3>2. Givers(u, ch)' = {[m EXCEPT !.at = "free"]}
      BY <2>1, <2>2, <3>1, GiversGoOn DEF v, k
    <3>3. QED
      BY <1>4, <1>5, <2>1, <3>1, <3>2 DEF Held
  <2>3. CASE ~(u = v /\ ch = k)
    <3>1. Givers(u, ch)' = Givers(u, ch)
      BY <1>2, <2>1, <2>3, GiversGoOn DEF v, k
    <3>2. QED
      BY <1>4, <1>5, <2>1, <3>1, HeldFrame
  <2>4. QED
    BY <2>2, <2>3
<1>10. QED
  BY <1>7, <1>8, <1>9

LEMMA ReservationsOfEndings ==
    ASSUME IInv, TypeOK', [Next]_vars, NEW d \in dying, CloseRoom(d)
    PROVE  ReservationsAreHeld'
<1> USE DEF IInv
<1> DEFINE q == d.room
           Its(w) == [peer |-> seat[q][w], by |-> "end", at |-> IF d.notice THEN "notice" ELSE "free"]
<1>1. q \in Rooms /\ UNCHANGED <<userRooms, home, owner, room>>
  BY Places DEF CloseRoom
<1>2. SUFFICES ASSUME NEW u \in Users, NEW ch \in Channels PROVE Held(u, ch)'
  BY DEF ReservationsAreHeld
<1>3. Joins(u, ch)' = Joins(u, ch)
  BY DEF CloseRoom, Joins, Joining
<1>4. CASE q \in closed
  <2>1. UNCHANGED <<seat, removals>>
    BY <1>4 DEF CloseRoom
  <2>2. SeatsOf(u, ch)' = SeatsOf(u, ch) /\ Givers(u, ch)' = Givers(u, ch)
    BY <1>1, <2>1 DEF SeatsOf, Givers, UserOfRemoval, UserOfPeer, ChannelOf
  <2>3. QED
    BY <1>1, <1>3, <2>2, HeldFrame
<1>5. CASE q \notin closed
  <2>1. /\ seat' = [seat EXCEPT ![q] = [w \in Users |-> None]]
        /\ removals' = removals \cup {Its(w) : w \in Seated(q)}
    BY <1>5 DEF CloseRoom
  <2>2. \A r \in Rooms, w \in Users : seat'[r][w] = IF r = q THEN None ELSE seat[r][w]
    BY <1>1, <2>1 DEF TypeOK
  <2>3. \A w \in Seated(q) : /\ UserOfRemoval(Its(w)) = w /\ ChannelOf(Its(w)) = home[q]
                             /\ Gives(Its(w))
    <3>1. \A w \in Seated(q) : UserOfPeer(seat[q][w]) = w /\ room[seat[q][w]] = q
      BY <1>1 DEF Seated, PeersAreKnown
    <3>2. QED
      BY <3>1 DEF UserOfRemoval, ChannelOf, Gives
  <2>4. \A x : x \in Givers(u, ch)' <=>
           \/ x \in Givers(u, ch)
           \/ u \in Seated(q) /\ home[q] = ch /\ x = Its(u)
    <3> HIDE DEF Its
    <3>1. \A x : x \in Givers(u, ch)' <=> x \in removals' /\ Gives(x) /\ UserOfRemoval(x) = u /\ ChannelOf(x) = ch
      BY <1>1 DEF Givers, UserOfRemoval, UserOfPeer, ChannelOf
    <3>2. QED
      BY <2>1, <2>3, <3>1 DEF Givers
  <2> HIDE DEF Its
  <2>5. CASE u \in Seated(q) /\ home[q] = ch
    <3>1. q \in SeatsOf(u, ch)
      BY <1>1, <2>5 DEF SeatsOf, Seated
    <3>2. SeatsOf(u, ch) = {q} /\ Joins(u, ch) = {} /\ Givers(u, ch) = {} /\ ch \in userRooms[u]
      BY <3>1, HolderIsAlone
    <3>3. SeatsOf(u, ch)' = {}
      BY <1>1, <2>2, <3>2 DEF SeatsOf
    <3>4. Givers(u, ch)' = {Its(u)}
      BY <2>4, <2>5, <3>2
    <3>5. QED
      BY <1>1, <1>3, <3>2, <3>3, <3>4 DEF Held
  <2>6. CASE ~(u \in Seated(q) /\ home[q] = ch)
    <3>1. SeatsOf(u, ch)' = SeatsOf(u, ch)
      BY <1>1, <2>2, <2>6 DEF SeatsOf, Seated
    <3>2. Givers(u, ch)' = Givers(u, ch)
      BY <2>4, <2>6
    <3>3. QED
      BY <1>1, <1>3, <3>1, <3>2, HeldFrame
  <2>7. QED
    BY <2>5, <2>6
<1>6. QED
  BY <1>4, <1>5

LEMMA ReservationsStep ==
    ASSUME IInv, TypeOK', [Next]_vars
    PROVE  ReservationsAreHeld'
<1>1. CASE /\ \A c \in Clients : ~ReserveUserRoom(c) /\ ~AddPeer(c) /\ ~JoinFails(c)
           /\ \A m \in removals : ~RemovePeer(m) /\ ~UntrackPeer(m) /\ ~NoticeLeave(m) /\ ~FreePeer(m)
           /\ \A d \in dying : ~CloseRoom(d)
  <2>1. UNCHANGED <<userRooms, seat>>
    BY <1>1, RoomSteps DEF CreateRoom, CancelCleanup, TimerFires, CleanupRoom, DestroyRoom, Shutdown
  <2> SUFFICES ASSUME NEW u \in Users, NEW ch \in Channels PROVE Held(u, ch)'
    BY DEF ReservationsAreHeld
  <2>2. Joins(u, ch)' = Joins(u, ch) /\ Givers(u, ch)' = Givers(u, ch) /\ SeatsOf(u, ch)' = SeatsOf(u, ch)
    BY <1>1, <2>1, JoinsKept, GiversKept, SeatsKept
  <2>3. QED
    BY <2>1, <2>2, HeldFrame
<1>2. QED
  BY <1>1, ReservationsOfJoins, ReservationsOfRemovals, ReservationsOfEndings

\* Who asks for a seat to end, and which.
LEMMA WhoCalls ==
    ASSUME IInv, TypeOK', [Next]_vars, NEW x \in removals', x \notin removals, x.at = "delete"
    PROVE  \/ x.by \in Clients /\ owner[x.peer] = x.by /\ pc[x.by] = "idle"
           \/ x.by = "pc" /\ PeerConnectionFails(x.peer)
           \/ /\ x.by = "hub" /\ hub.phase = "client" /\ hub.client \in Clients
              /\ owner[x.peer] = hub.client /\ pc[hub.client] = "gone"
           \/ /\ x.by = "hub" /\ hub.phase = "user" /\ hub.client \in Clients
              /\ UserOfPeer(x.peer) = UserOf[hub.client]
<1> USE DEF IInv
<1>1. ASSUME NEW c \in Clients, NEW ch \in Channels, Leave(c, ch)
      PROVE  x.by \in Clients /\ owner[x.peer] = x.by /\ pc[x.by] = "idle"
  BY <1>1 DEF Leave, CallRemovePeer
<1>2. ASSUME NEW p \in Peers, PeerConnectionFails(p) PROVE x.by = "pc" /\ PeerConnectionFails(x.peer)
  <2>1. x = [peer |-> p, by |-> "pc", at |-> "delete"]
    BY <1>2 DEF PeerConnectionFails, CallRemovePeer
  <2>2. x.by = "pc" /\ x.peer = p
    BY <2>1
  <2>3. QED
    BY <1>2, <2>2
<1>3. ASSUME NEW ch \in hub.list, OfflineVisit(ch)
      PROVE  /\ x.by = "hub" /\ hub.client \in Clients
             /\ \/ hub.phase = "client" /\ owner[x.peer] = hub.client /\ pc[hub.client] = "gone"
                \/ hub.phase = "user" /\ UserOfPeer(x.peer) = UserOf[hub.client]
  <2>1. /\ x = [peer |-> seat[rooms[ch]][UserOf[hub.client]], by |-> "hub", at |-> "delete"]
        /\ rooms[ch] # None /\ seat[rooms[ch]][UserOf[hub.client]] # None
        /\ hub.phase = "client" => owner[x.peer] = hub.client
    BY <1>3 DEF OfflineVisit, CallRemovePeer
  <2>2. hub.client \in Clients /\ ch \in Channels /\ hub.phase \in {"client", "user"}
    BY <1>3 DEF OfflineVisit, HubIsAwaited, TypeOK
  <2>3. rooms[ch] \in Rooms /\ UserOf[hub.client] \in Users
    BY <2>1, <2>2, Places, Constants
  <2>4. UserOfPeer(x.peer) = UserOf[hub.client]
    BY <2>1, <2>3 DEF PeersAreKnown
  <2>5. QED
    BY <2>1, <2>2, <2>4 DEF HubIsAwaited
<1>4. ASSUME NEW m \in removals, RemovalStep(m)
      PROVE  FALSE
  <2>1. m \in Removal
    BY Places
  <2>2. \A l \in {"untrack", "leave", "free"} : ~GoOn(m, l)
    <3> SUFFICES ASSUME NEW l \in {"untrack", "leave", "free"}, GoOn(m, l) PROVE FALSE
      OBVIOUS
    <3>1. x = [m EXCEPT !.at = l]
      BY DEF GoOn
    <3>2. QED
      BY <2>1, <3>1, RemovalGoesOn
  <2>3. ~Return(m)
    BY DEF Return
  <2>4. QED
    BY <1>4, <2>2, <2>3 DEF RemovalStep, RemovePeer, UntrackPeer, AnnounceLeave, NoticeLeave, FreePeer
<1>5. ASSUME NEW d \in dying, CloseRoom(d)
      PROVE  FALSE
  BY <1>5 DEF CloseRoom
<1>6. CASE \/ \E c \in Clients : \/ Connect(c) \/ Disconnect(c) \/ Join(c)
                                 \/ \E ch \in Channels : CanConnectVoice(c, ch)
           \/ \E c \in Clients : ClientOffline(c)
           \/ PresenceOffline \/ UserOfflineReturns
           \/ \E r \in Rooms : TimerStep(r)
           \/ \E ch \in Channels : DeleteChannel(ch) \/ DestroyRoom(ch)
           \/ ShutdownHub \/ Shutdown \/ UNCHANGED vars
  <2>1. UNCHANGED removals
    BY <1>6 DEF Connect, Disconnect, Join, ReserveUserRoom, JoinLoop, CreateRoom, AddPeer, JoinFails,
                CancelCleanup, AnnounceJoin, CanConnectVoice, ClientOffline, PresenceOffline,
                UserOfflineReturns, TimerStep, TimerFires, CleanupRoom, DeleteChannel, DestroyRoom,
                ShutdownHub, Shutdown, vars
  <2>2. QED
    BY <2>1
<1>7. QED
  BY <1>1, <1>2, <1>3, <1>4, <1>5, <1>6 DEF Next, HubStep

LEMMA CausesStep ==
    ASSUME IInv, TypeOK', [Next]_vars
    PROVE  RemovalsHaveACause'
<1> SUFFICES ASSUME NEW x \in removals', x.at = "delete" PROVE x.by \in {owner'[x.peer], "pc", "hub"}
  BY DEF RemovalsHaveACause
<1>1. x.by \in {owner[x.peer], "pc", "hub"}
  BY WhoCalls DEF IInv, RemovalsHaveACause
<1>2. owner'[x.peer] = owner[x.peer]
  BY RemovalsAreOfPeers, PeersStay
<1>3. QED
  BY <1>1, <1>2

\* How seats change.
LEMMA SeatChanges ==
    ASSUME IInv, TypeOK', [Next]_vars, NEW r \in Rooms, NEW u \in Users, seat'[r][u] # seat[r][u]
    PROVE  \/ \E c \in Clients : /\ AddPeer(c) /\ r = target[c] /\ u = UserOf[c] /\ r \notin closed
                                 /\ seat[r][u] = None /\ seat'[r][u] = nPeers + 1 /\ nPeers + 1 \in Peers
                                 /\ owner[nPeers + 1] = None /\ owner'[nPeers + 1] = c
                                 /\ pc[c] = "add" /\ pc'[c] = "cancel"
           \/ \E m \in removals : /\ RemovePeer(m) /\ m.at = "delete" /\ m.peer = seat[r][u] /\ r = room[m.peer]
                                  /\ u = UserOfPeer(m.peer) /\ seat'[r][u] = None
           \/ \E d \in dying : CloseRoom(d) /\ d.room = r /\ r \in closed' /\ seat'[r][u] = None
<1> USE DEF IInv
<1>1. ASSUME NEW c \in Clients, AddPeer(c)
      PROVE  /\ r = target[c] /\ u = UserOf[c] /\ r \notin closed
             /\ seat[r][u] = None /\ seat'[r][u] = nPeers + 1 /\ nPeers + 1 \in Peers
             /\ owner[nPeers + 1] = None /\ owner'[nPeers + 1] = c
             /\ pc[c] = "add" /\ pc'[c] = "cancel"
  <2>1. /\ nPeers' = nPeers + 1 /\ Goto(c, "cancel") /\ pc[c] = "add"
        /\ target[c] \notin closed /\ seat[target[c]][UserOf[c]] = None
        /\ seat' = [seat EXCEPT ![target[c]][UserOf[c]] = nPeers']
        /\ owner' = [owner EXCEPT ![nPeers'] = c]
    BY <1>1 DEF AddPeer
  <2>2. nPeers + 1 \in Peers /\ nPeers \in Nat
    BY <2>1, PeerIsLeft DEF Waiting, TypeOK
  <2>3. owner[nPeers + 1] = None
    BY <2>2 DEF PeersAreKnown
  <2>4. target[c] \in Rooms /\ UserOf[c] \in Users
    BY <2>1, Constants DEF JoinersStand, TypeOK
  <2>5. r = target[c] /\ u = UserOf[c]
    BY <1>1, <2>1, <2>4 DEF TypeOK
  <2>6. seat'[r][u] = nPeers'
    BY <2>1, <2>4, <2>5 DEF TypeOK
  <2>7. owner'[nPeers + 1] = c /\ pc'[c] = "cancel"
    BY <2>1, <2>2 DEF Goto, TypeOK
  <2>8. QED
    BY <2>1, <2>2, <2>3, <2>5, <2>6, <2>7
<1>2. ASSUME NEW m \in removals, RemovePeer(m)
      PROVE  /\ m.at = "delete" /\ m.peer = seat[r][u] /\ r = room[m.peer] /\ u = UserOfPeer(m.peer)
             /\ seat'[r][u] = None
  <2>1. m.at = "delete" /\ seat[room[m.peer]][UserOfPeer(m.peer)] = m.peer
        /\ seat' = [seat EXCEPT ![room[m.peer]][UserOfPeer(m.peer)] = None]
    BY <1>2 DEF RemovePeer
  <2>2. room[m.peer] \in Rooms /\ UserOfPeer(m.peer) \in Users
    BY Places DEF PeersAreKnown
  <2>3. r = room[m.peer] /\ u = UserOfPeer(m.peer)
    BY <1>2, <2>1, <2>2 DEF TypeOK
  <2>4. seat'[r][u] = None
    BY <2>1, <2>2, <2>3 DEF TypeOK
  <2>5. QED
    BY <2>1, <2>3, <2>4
<1>3. ASSUME NEW d \in dying, CloseRoom(d)
      PROVE  d.room = r /\ r \in closed' /\ seat'[r][u] = None
  BY <1>3 DEF CloseRoom, TypeOK
<1>4. QED
  BY <1>1, <1>2, <1>3, SeatsStay

LEMMA ClosedForEver ==
    ASSUME [Next]_vars
    PROVE  closed \subseteq closed'
BY RoomSteps DEF ReserveUserRoom, JoinFails, CreateRoom, AddPeer, CancelCleanup, RemovePeer, UntrackPeer,
                 FreePeer, TimerFires, CleanupRoom, DestroyRoom, CloseRoom, Shutdown

LEMMA LimitsStep ==
    ASSUME IInv, TypeOK', [Next]_vars
    PROVE  Limits'
<1> USE DEF IInv
<1>1. ASSUME NEW u \in Users PROVE Cardinality(userRooms'[u]) <= MaxRoomsPerUser
  <2>1. IsFiniteSet(userRooms[u]) /\ Cardinality(userRooms[u]) \in Nat /\ Cardinality(userRooms[u]) <= MaxRoomsPerUser
    BY Constants, FS_Subset, FS_CardinalityType DEF TypeOK, Limits
  <2>2. CASE userRooms'[u] \subseteq userRooms[u]
    <3>1. Cardinality(userRooms'[u]) <= Cardinality(userRooms[u]) /\ Cardinality(userRooms'[u]) \in Nat
      BY <2>1, <2>2, FS_Subset, FS_CardinalityType
    <3>2. QED
      BY <2>1, <3>1, Constants
  <2>3. ASSUME NEW c \in Clients, ReserveUserRoom(c), ~(userRooms'[u] \subseteq userRooms[u])
        PROVE  Cardinality(userRooms'[u]) <= MaxRoomsPerUser
    <3>1. /\ u = UserOf[c] /\ userRooms'[u] = userRooms[u] \cup {chan[c]} /\ chan[c] \notin userRooms[u]
          /\ ~(Cardinality(userRooms[u]) >= MaxRoomsPerUser)
      BY <2>3 DEF ReserveUserRoom, TypeOK
    <3>2. Cardinality(userRooms'[u]) = Cardinality(userRooms[u]) + 1
      BY <2>1, <3>1, FS_AddElement
    <3>3. QED
      BY <2>1, <3>1, <3>2, Constants
  <2>4. (\E c \in Clients : ReserveUserRoom(c)) \/ userRooms'[u] \subseteq userRooms[u]
    <3>1. (\E v, k : Untrack(v, k)) => userRooms'[u] \subseteq userRooms[u]
      BY DEF Untrack, TypeOK
    <3>2. \/ \E c \in Clients : ReserveUserRoom(c)
          \/ \E v, k : Untrack(v, k)
          \/ UNCHANGED userRooms
      BY RoomSteps DEF JoinFails, CreateRoom, AddPeer, CancelCleanup, RemovePeer, UntrackPeer,
                       FreePeer, TimerFires, CleanupRoom, DestroyRoom, CloseRoom, Shutdown
    <3>3. QED
      BY <3>1, <3>2
  <2>5. QED
    BY <2>2, <2>3, <2>4
<1>2. ASSUME NEW r \in Rooms PROVE Cardinality(Seated(r)') <= MaxRoomPeers
  <2>1. IsFiniteSet(Seated(r)) /\ Cardinality(Seated(r)) \in Nat /\ Cardinality(Seated(r)) <= MaxRoomPeers
    BY Constants, FS_Subset, FS_CardinalityType DEF Seated, Limits
  <2>2. CASE Seated(r)' \subseteq Seated(r)
    <3>1. Cardinality(Seated(r)') <= Cardinality(Seated(r)) /\ Cardinality(Seated(r)') \in Nat
      BY <2>1, <2>2, FS_Subset, FS_CardinalityType
    <3>2. QED
      BY <2>1, <3>1, Constants
  <2>3. ASSUME NEW w \in Seated(r)', w \notin Seated(r) PROVE Cardinality(Seated(r)') <= MaxRoomPeers
    <3>1. w \in Users /\ seat'[r][w] # None /\ seat[r][w] = None
      BY <2>3 DEF Seated
    <3>2. PICK c \in Clients : AddPeer(c) /\ r = target[c] /\ w = UserOf[c]
      BY <3>1, SeatChanges
    <3>3. Cardinality(Seated(r)) < MaxRoomPeers
      <4>1. UNCHANGED seat \/ Cardinality(Seated(target[c])) < MaxRoomPeers
        BY <3>2 DEF AddPeer
      <4>2. QED
        BY <3>1, <3>2, <4>1
    <3>4. \A v \in Users : v # w /\ seat'[r][v] # None => seat[r][v] # None
      BY <3>1, <3>2 DEF AddPeer, TypeOK
    <3>5. Seated(r)' \subseteq Seated(r) \cup {w}
      BY <3>4 DEF Seated
    <3>6. IsFiniteSet(Seated(r) \cup {w}) /\ Cardinality(Seated(r) \cup {w}) = Cardinality(Seated(r)) + 1
      BY <2>1, <2>3, FS_AddElement
    <3>7. Cardinality(Seated(r)') <= Cardinality(Seated(r) \cup {w}) /\ Cardinality(Seated(r)') \in Nat
      BY <3>5, <3>6, FS_Subset, FS_CardinalityType
    <3>8. QED
      BY <2>1, <3>3, <3>6, <3>7, Constants
  <2>4. QED
    BY <2>2, <2>3
<1>3. QED
  BY <1>1, <1>2 DEF Limits

-----------------------------------------------------------------------------
(***************************************************************************)
(* New seats, empty rooms and connections that end.                        *)
(***************************************************************************)
\* A client comes to "cancel" by AddPeer only and to "done" by PresenceOffline
\* only; it leaves "add" by AddPeer only, and its target stays meanwhile.
LEMMA WhereClientsCome ==
    ASSUME IInv, TypeOK', [Next]_vars, NEW c \in Clients
    PROVE  /\ pc'[c] = "cancel" => AddPeer(c) \/ (pc[c] = "cancel" /\ target'[c] = target[c])
           /\ pc'[c] = "done" => pc[c] = "done" \/ (PresenceOffline /\ hub.client = c)
           /\ pc[c] = "add" => AddPeer(c) \/ (pc'[c] = "add" /\ target'[c] = target[c])
<1> USE DEF IInv
<1> DEFINE P(d) ==
      /\ pc'[d] = "cancel" => AddPeer(d) \/ (pc[d] = "cancel" /\ target'[d] = target[d])
      /\ pc'[d] = "done" => pc[d] = "done" \/ (PresenceOffline /\ hub.client = d)
      /\ pc[d] = "add" => AddPeer(d) \/ (pc'[d] = "add" /\ target'[d] = target[d])
<1>1. ASSUME \/ Connect(c) \/ Disconnect(c) \/ Join(c)
             \/ \E ch \in Channels : CanConnectVoice(c, ch) \/ Leave(c, ch)
      PROVE  P(c)
  <2>1. CASE AddPeer(c)
    BY <2>1 DEF AddPeer, Goto, TypeOK
  <2>2. CASE ReserveUserRoom(c) \/ JoinFails(c) \/ AnnounceJoin(c) \/ JoinLoop(c) \/ CreateRoom(c) \/ CancelCleanup(c)
    BY <2>2 DEF ReserveUserRoom, JoinFails, AnnounceJoin, JoinLoop, CreateRoom, CancelCleanup, Goto,
           Answer, TypeOK
  <2>3. CASE Connect(c) \/ Disconnect(c) \/ \E ch \in Channels : CanConnectVoice(c, ch) \/ Leave(c, ch)
    BY <2>3 DEF Connect, Disconnect, CanConnectVoice, Leave, Goto, TypeOK
  <2>4. QED
    BY <1>1, <2>1, <2>2, <2>3 DEF Join
<1>2. ASSUME pc'[c] = pc[c], target'[c] = target[c] PROVE P(c)
  BY <1>2
<1>3. ASSUME NEW m \in removals, Return(m), UNCHANGED <<chan, target>> PROVE P(c)
  <2>1. pc'[c] = pc[c] \/ (pc[c] = "leaving" /\ pc'[c] = "idle")
    BY <1>3 DEF Return, LeaversWait, TypeOK
  <2>2. QED
    BY <1>3, <2>1
<1>4. ASSUME PresenceOffline, pc[hub.client] = "gone", UNCHANGED <<chan, target>> PROVE P(c)
  <2>1. pc'[c] = pc[c] \/ (hub.client = c /\ pc[c] = "gone" /\ pc'[c] = "done")
    BY <1>4 DEF PresenceOffline, Goto, TypeOK
  <2>2. QED
    BY <1>4, <2>1
<1> HIDE DEF P
<1>5. P(c)
  BY <1>1, <1>2, <1>3, <1>4, ClientsStep
<1>6. QED
  BY <1>5 DEF P

LEMMA NewSeatsStep ==
    ASSUME IInv, TypeOK', [Next]_vars
    PROVE  NewSeatsStay'
<1> USE DEF IInv
<1> SUFFICES ASSUME NEW c \in Clients, pc'[c] = "cancel", target'[c] \notin closed'
             PROVE  LET p == seat'[target'[c]][UserOf[c]] IN
                        p # None /\ owner'[p] = c /\ \A m \in removals' : m.peer # p
  BY DEF NewSeatsStay
<1>1. CASE AddPeer(c)
  <2>1. /\ nPeers' = nPeers + 1 /\ UNCHANGED <<target, removals>> /\ pc[c] = "add"
        /\ seat' = [seat EXCEPT ![target[c]][UserOf[c]] = nPeers']
        /\ owner' = [owner EXCEPT ![nPeers'] = c]
    BY <1>1 DEF AddPeer, Goto, TypeOK
  <2>2. nPeers' \in Peers /\ nPeers \in Nat /\ ~(nPeers' <= nPeers)
    BY <2>1, PeerIsLeft DEF Waiting, TypeOK
  <2>3. target[c] \in Rooms /\ UserOf[c] \in Users
    BY <2>1, Constants DEF JoinersStand, TypeOK
  <2>4. seat'[target[c]][UserOf[c]] = nPeers' /\ owner'[nPeers'] = c
    BY <2>1, <2>2, <2>3 DEF TypeOK
  <2>5. \A m \in removals : m.peer # nPeers'
    BY <2>2, Places DEF PeersAreKnown
  <2>6. QED
    BY <2>1, <2>2, <2>4, <2>5, Constants
<1>2. CASE ~AddPeer(c)
  <2> DEFINE r == target[c]
             u == UserOf[c]
             p == seat[r][u]
  <2>1. pc[c] = "cancel" /\ target'[c] = r /\ r \notin closed
    BY <1>2, WhereClientsCome, ClosedForEver
  <2>2. r \in Rooms /\ u \in Users /\ p # None /\ owner[p] = c /\ \A m \in removals : m.peer # p
    BY <2>1, Constants DEF JoinersStand, TypeOK, NewSeatsStay
  <2>3. p \in Peers /\ room[p] = r /\ UserOfPeer(p) = u
    BY <2>2, Places DEF PeersAreKnown
  <2> HIDE DEF r, u, p
  <2>4. seat'[r][u] = p
    <3> SUFFICES ASSUME seat'[r][u] # seat[r][u] PROVE FALSE
      BY DEF p
    <3>1. \/ seat[r][u] = None
          \/ \E m \in removals : m.peer = seat[r][u]
          \/ r \in closed'
      BY <2>2, SeatChanges
    <3>2. QED
      BY <2>1, <2>2, <3>1 DEF p
  <2>5. owner'[p] = c
    BY <2>2, <2>3, PeersStay, Constants
  <2>6. ASSUME NEW x \in removals', x.peer = p PROVE FALSE
    <3>1. x \notin removals
      BY <2>2, <2>6
    <3>2. \A m \in removals : x.peer # m.peer
      BY <2>2, <2>6
    <3>3. CASE x.at = "delete"
      <4>1. ~PeerConnectionFails(x.peer)
        BY <2>1, <2>2, <2>3, <2>6 DEF PeerConnectionFails
      <4>2. ~(hub.phase = "user" /\ hub.client \in Clients /\ UserOfPeer(x.peer) = UserOf[hub.client])
        BY <2>1, <2>3, <2>6 DEF HubIsAwaited, u
      <4>3. QED
        BY <2>1, <2>2, <2>6, <3>1, <3>3, <4>1, <4>2, WhoCalls
    <3>4. CASE x.at # "delete"
      <4>1. PICK d \in dying : CloseRoom(d) /\ d.room \notin closed /\ \E w \in Users : seat[d.room][w] = p
        BY <2>6, <3>1, <3>2, <3>4, RemovalOrigins
      <4>2. room[p] = d.room
        <5>1. d.room \in Rooms
          BY Places
        <5>2. QED
          BY <2>2, <4>1, <5>1 DEF PeersAreKnown
      <4>3. d.room \in closed'
        BY <4>1 DEF CloseRoom
      <4>4. QED
        BY <2>1, <2>3, <4>2, <4>3
    <3>5. QED
      BY <3>3, <3>4
  <2>7. QED
    BY <2>1, <2>2, <2>4, <2>5, <2>6 DEF u
<1>3. QED
  BY <1>1, <1>2

\* An empty room whose timer is not running has a callback waiting or a join coming.
LEMMA EmptyRoomsStep ==
    ASSUME IInv, TypeOK', [Next]_vars, RoomsAreKnown'
    PROVE  EmptyRoomsAreScheduled'
<1> USE DEF IInv
<1> DEFINE Tended(q) == q \in timer \/ fired[q] > 0 \/ \E c \in Clients : pc[c] = "add" /\ target[c] = q
<1> SUFFICES ASSUME NEW ch \in Channels, NEW r, r = rooms'[ch], r # None, Seated(r)' = {}
             PROVE  Tended(r)'
  BY DEF EmptyRoomsAreScheduled
<1>1. r \in Rooms /\ r \notin closed' /\ r \notin closed
  BY ClosedForEver DEF RoomsAreKnown, TypeOK
<1>2. CASE \E c \in Clients : CreateRoom(c) /\ pc'[c] = "add" /\ target'[c] = r
  BY <1>2
<1>3. CASE ~\E c \in Clients : CreateRoom(c) /\ pc'[c] = "add" /\ target'[c] = r
  <2>1. rooms[ch] = r
    <3>1. ASSUME NEW c \in Clients, CreateRoom(c) PROVE rooms[ch] = r
      <4>1. chan[c] \in Channels /\ pc'[c] = "add"
        BY <3>1 DEF CreateRoom, Goto, JoinersStand, TypeOK
      <4>2. UNCHANGED rooms \/ (rooms' = [rooms EXCEPT ![chan[c]] = nRooms'] /\ target'[c] = nRooms')
        BY <3>1 DEF CreateRoom, TypeOK
      <4>3. QED
        BY <1>3, <3>1, <4>1, <4>2 DEF TypeOK
    <3>2. ASSUME NEW q \in Rooms, CleanupRoom(q) PROVE rooms[ch] = r
      BY <3>2 DEF CleanupRoom, TypeOK
    <3>3. ASSUME NEW k \in Channels, DestroyRoom(k) PROVE rooms[ch] = r
      BY <3>3 DEF DestroyRoom, TypeOK
    <3>4. CASE Shutdown
      BY <3>4 DEF Shutdown
    <3>5. QED
      BY <3>1, <3>2, <3>3, <3>4, RoomSteps DEF ReserveUserRoom, JoinFails, AddPeer, CancelCleanup,
                RemovePeer, UntrackPeer, FreePeer, TimerFires, CloseRoom
  <2>2. home[r] = ch /\ ~Dying(r)
    BY <1>1, <2>1 DEF RoomsAreKnown
  <2>3. CASE Seated(r) # {}
    <3>1. PICK u \in Users : seat[r][u] # None /\ seat'[r][u] = None
      BY <2>3 DEF Seated
    <3>2. \A d \in dying : d.room # r
      BY <2>2 DEF Dying
    <3>3. nPeers + 1 \in Peers => nPeers + 1 # None
      BY Constants
    <3>4. PICK m \in removals : RemovePeer(m) /\ m.peer = seat[r][u] /\ r = room[m.peer] /\ u = UserOfPeer(m.peer)
      BY <1>1, <3>1, <3>2, <3>3, SeatChanges
    <3>5. seat' = [seat EXCEPT ![r][u] = None] /\ (Seated(r) = {u} => r \in timer')
      BY <3>4 DEF RemovePeer
    <3>6. Seated(r) = {u}
      BY <1>1, <3>1, <3>5 DEF Seated, TypeOK
    <3>7. QED
      BY <3>5, <3>6
  <2>4. CASE Seated(r) = {}
    <3>1. Tended(r)
      BY <2>1, <2>4 DEF EmptyRoomsAreScheduled
    <3>2. ASSUME NEW c \in Clients, pc[c] = "add", target[c] = r PROVE Tended(r)'
      <4>1. CASE AddPeer(c)
        <5>1. \A u \in Users : seat[r][u] = None /\ seat'[r][u] = None
          BY <2>4 DEF Seated
        <5>2. ~(Cardinality(Seated(target[c])) >= MaxRoomPeers)
          BY <2>4, <3>2, FS_EmptySet, Constants
        <5>3. UserOf[c] \in Users
          BY Constants
        <5>4. seat' = [seat EXCEPT ![r][UserOf[c]] = nPeers'] /\ nPeers' = nPeers + 1
          BY <1>1, <3>2, <4>1, <5>1, <5>2, <5>3, Constants DEF AddPeer
        <5>5. nPeers' # None
          BY <3>2, <5>4, PeerIsLeft, Constants DEF Waiting
        <5>6. seat'[r][UserOf[c]] = nPeers'
          BY <1>1, <5>3, <5>4 DEF TypeOK
        <5>7. QED
          BY <5>1, <5>3, <5>5, <5>6
      <4>2. CASE ~AddPeer(c)
        BY <3>2, <4>2, WhereClientsCome
      <4>3. QED
        BY <4>1, <4>2
    <3>3. CASE r \in timer
      <4>1. ASSUME NEW c \in Clients, CancelCleanup(c) PROVE r \in timer'
        <5>1. target[c] # r
          <6>1. pc[c] = "cancel"
            BY <4>1 DEF CancelCleanup
          <6>2. target[c] = r => seat[r][UserOf[c]] # None
            BY <1>1, <6>1 DEF NewSeatsStay
          <6>3. QED
            BY <2>4, <6>2, Constants DEF Seated
        <5>2. QED
          BY <3>3, <4>1, <5>1 DEF CancelCleanup
      <4>2. ASSUME NEW q \in Rooms, TimerFires(q) PROVE r \in timer' \/ fired'[r] > 0
        BY <1>1, <3>3, <4>2 DEF TimerFires, TypeOK
      <4>3. ASSUME NEW q \in Rooms, CleanupRoom(q) PROVE r \in timer'
        <5>1. (closed' = closed \cup {q} /\ timer' = timer \ {q}) \/ UNCHANGED timer
          BY <4>3 DEF CleanupRoom
        <5>2. QED
          BY <1>1, <3>3, <5>1
      <4>4. ASSUME NEW d \in dying, CloseRoom(d) PROVE r \in timer'
        BY <2>2, <3>3, <4>4 DEF CloseRoom, Dying
      <4>5. ASSUME NEW m \in removals, RemovePeer(m) PROVE r \in timer'
        BY <3>3, <4>5 DEF RemovePeer
      <4>6. QED
        BY <3>3, <4>1, <4>2, <4>3, <4>4, <4>5, RoomSteps DEF ReserveUserRoom, JoinFails, CreateRoom, AddPeer,
                UntrackPeer, FreePeer, DestroyRoom, Shutdown
    <3>4. CASE fired[r] > 0
      <4>1. ASSUME NEW q \in Rooms, CleanupRoom(q) PROVE fired'[r] > 0
        <5>1. q # r
          BY <1>1, <2>1, <2>2, <2>4, <4>1 DEF CleanupRoom
        <5>2. QED
          BY <1>1, <3>4, <4>1, <5>1 DEF CleanupRoom, TypeOK
      <4>2. ASSUME NEW q \in Rooms, TimerFires(q) PROVE fired'[r] > 0
        BY <1>1, <3>4, <4>2 DEF TimerFires, TypeOK
      <4>3. QED
        BY <3>4, <4>1, <4>2, RoomSteps DEF ReserveUserRoom, JoinFails, CreateRoom, AddPeer, CancelCleanup,
                RemovePeer, UntrackPeer, FreePeer, DestroyRoom, CloseRoom, Shutdown
    <3>5. QED
      BY <3>1, <3>2, <3>3, <3>4
  <2>5. QED
    BY <2>3, <2>4
<1>4. QED
  BY <1>2, <1>3

\* Rooms stop dying, and calls of removePeer come to an end, for a reason.
LEMMA WhatEnds ==
    ASSUME IInv, TypeOK', [Next]_vars
    PROVE  /\ \A r \in Rooms : Dying(r) => Dying(r)' \/ r \in closed'
           /\ \A m \in removals : m \in removals' \/ RemovalStep(m)
<1>1. ASSUME NEW d \in dying, CloseRoom(d)
      PROVE  /\ \A r \in Rooms : Dying(r) => Dying(r)' \/ r \in closed'
             /\ removals \subseteq removals'
  BY <1>1 DEF CloseRoom, Dying
<1>2. (\A d \in dying : ~CloseRoom(d)) => dying \subseteq dying'
  BY RoomSteps DEF ReserveUserRoom, JoinFails, CreateRoom, AddPeer, CancelCleanup, RemovePeer, UntrackPeer,
                   FreePeer, TimerFires, CleanupRoom, DestroyRoom, Shutdown
<1>3. \A m \in removals : m \in removals' \/ RemovalStep(m)
  <2>1. ASSUME NEW m \in removals, RemovalStep(m)
        PROVE  \A n \in removals : n \in removals' \/ n = m
    BY <2>1 DEF RemovalStep, RemovePeer, UntrackPeer, AnnounceLeave, NoticeLeave, FreePeer, Return, GoOn
  <2>2. (\A m \in removals : ~RemovalStep(m)) => removals \subseteq removals'
    BY <1>1 DEF Next, Join, HubStep, TimerStep, Connect, Disconnect, CanConnectVoice, Leave, ReserveUserRoom,
           JoinLoop, CreateRoom, AddPeer, JoinFails, CancelCleanup, AnnounceJoin, PeerConnectionFails,
           CallRemovePeer, ClientOffline, OfflineVisit, PresenceOffline, UserOfflineReturns, TimerFires,
           CleanupRoom, DeleteChannel, DestroyRoom, ShutdownHub, Shutdown, vars
  <2>3. QED
    BY <2>1, <2>2
<1>4. QED
  BY <1>1, <1>2, <1>3 DEF Dying

LEMMA HubMissesStep ==
    ASSUME IInv, TypeOK', [Next]_vars, RoomsAreKnown'
    PROVE  HubMissesNothing'
<1> USE DEF IInv
<1> DEFINE Called(p) == \E m \in removals : m.peer = p /\ m.by = "hub" /\ m.at = "delete"
<1> SUFFICES ASSUME hub'.phase = "client", NEW r \in Rooms, NEW u \in Users, NEW p, p = seat'[r][u],
                    p # None, owner'[p] = hub'.client
             PROVE  home'[r] \in hub'.list \/ Dying(r)' \/ Called(p)'
  BY DEF HubMissesNothing
<1>0. r \notin closed' /\ home'[r] = home[r]
  <2>1. r \notin closed'
    BY DEF RoomsAreKnown, Seated
  <2>2. QED
    BY <2>1, SeatsStay
<1>1. CASE \E c \in Clients : ClientOffline(c)
  <2>1. PICK c \in Clients : ClientOffline(c)
    BY <1>1
  <2>2. UNCHANGED <<seat, owner, home>> /\ hub'.client = c /\ hub'.list = userRooms[UserOf[c]]
    BY <2>1 DEF ClientOffline
  <2>3. UserOfPeer(p) = u /\ owner[p] = c
    BY <2>2 DEF PeersAreKnown
  <2>4. home[r] \in Channels /\ r \in SeatsOf(u, home[r])
    BY <2>2, SeatsStay, Places DEF SeatsOf
  <2>5. home[r] \in userRooms[u]
    BY <2>4, HolderIsAlone
  <2>6. QED
    BY <2>2, <2>3, <2>5 DEF UserOfPeer
<1>2. CASE ~\E c \in Clients : ClientOffline(c)
  <2>1. /\ hub.phase = "client" /\ hub'.client = hub.client
        /\ hub' = hub \/ \E ch \in hub.list : OfflineVisit(ch) /\ hub'.list = hub.list \ {ch}
    <3>1. CASE HubStep
      <4>1. ~PresenceOffline /\ ~UserOfflineReturns
        <5>1. PresenceOffline => hub' = Idle \/ hub' = [hub EXCEPT !.phase = "user", !.list = userRooms[UserOf[hub.client]]]
          BY DEF PresenceOffline
        <5>2. hub' # Idle
          BY DEF Idle
        <5>3. hub' # [hub EXCEPT !.phase = "user", !.list = userRooms[UserOf[hub.client]]]
          BY DEF TypeOK
        <5>4. QED
          BY <5>1, <5>2, <5>3 DEF UserOfflineReturns
      <4>2. PICK ch \in hub.list : OfflineVisit(ch)
        BY <1>2, <3>1, <4>1 DEF HubStep
      <4>3. hub' = [hub EXCEPT !.list = @ \ {ch}]
        BY <4>2 DEF OfflineVisit
      <4>4. hub'.phase = hub.phase /\ hub'.client = hub.client /\ hub'.list = hub.list \ {ch}
        BY <4>3 DEF TypeOK
      <4>5. QED
        BY <4>2, <4>4
    <3>2. CASE ~HubStep
      <4>1. UNCHANGED hub
        BY <3>2 DEF Next, Join, RemovalStep, TimerStep, Connect, Disconnect, CanConnectVoice, Leave,
               ReserveUserRoom,
                JoinLoop, CreateRoom, AddPeer, JoinFails, CancelCleanup, AnnounceJoin, PeerConnectionFails,
                RemovePeer, UntrackPeer, AnnounceLeave, NoticeLeave, FreePeer, TimerFires, CleanupRoom,
                DeleteChannel, DestroyRoom, CloseRoom, ShutdownHub, Shutdown, vars
      <4>2. QED
        BY <4>1
    <3>3. QED
      BY <3>1, <3>2
  <2>2. pc[hub.client] = "gone" /\ hub.client \in Clients
    BY <2>1 DEF HubIsAwaited, TypeOK
  <2>3. seat[r][u] = p
    <3>1. CASE seat'[r][u] = seat[r][u]
      BY <3>1
    <3>2. CASE seat'[r][u] # seat[r][u]
      BY <2>1, <2>2, <3>2, SeatChanges
    <3>3. QED
      BY <3>1, <3>2
  <2>4. p \in Peers /\ owner[p] = hub.client /\ room[p] = r /\ UserOfPeer(p) = u
    BY <2>1, <2>3, Places, PeersStay DEF PeersAreKnown
  <2>5. CASE Dying(r)
    BY <1>0, <2>5, WhatEnds
  <2>6. ASSUME NEW m \in removals, m.peer = p, m.by = "hub", m.at = "delete" PROVE Called(p)'
    <3>1. ~RemovePeer(m)
      <4>1. ASSUME RemovePeer(m) PROVE seat' = [seat EXCEPT ![r][u] = None]
        BY <2>3, <2>4, <2>6, <4>1 DEF RemovePeer
      <4>2. seat' = [seat EXCEPT ![r][u] = None] => seat'[r][u] = None
        BY DEF TypeOK
      <4>3. QED
        BY <4>1, <4>2
    <3>2. ~RemovalStep(m)
      BY <2>6, <3>1 DEF RemovalStep, UntrackPeer, AnnounceLeave, NoticeLeave, FreePeer
    <3>3. QED
      BY <2>6, <3>2, WhatEnds
  <2>7. CASE home[r] \in hub.list
    <3>1. CASE hub' = hub
      BY <1>0, <2>7, <3>1
    <3>2. ASSUME NEW ch \in hub.list, OfflineVisit(ch), hub'.list = hub.list \ {ch}
          PROVE  home'[r] \in hub'.list \/ Dying(r)' \/ Called(p)'
      <4>1. CASE home[r] # ch
        BY <1>0, <2>7, <3>2, <4>1
      <4>2. CASE home[r] = ch
        <5>1. rooms[ch] = r \/ r \in closed \/ Dying(r)
          BY <4>2, <2>3, SeatsStay DEF RoomsAreKnown
        <5>2. r \notin closed
          BY <1>0, ClosedForEver
        <5>3. CASE rooms[ch] = r
          <6>1. u = UserOf[hub.client]
            BY <2>4 DEF UserOfPeer
          <6>2. CallRemovePeer(p, "hub")
            BY <2>1, <2>3, <2>4, <3>2, <5>3, <6>1, Constants DEF OfflineVisit
          <6>3. [peer |-> p, by |-> "hub", at |-> "delete"] \in removals'
            BY <6>2 DEF CallRemovePeer
          <6>4. QED
            BY <6>3
        <5>4. QED
          BY <2>5, <5>1, <5>2, <5>3
      <4>3. QED
        BY <4>1, <4>2
    <3>3. QED
      BY <2>1, <3>1, <3>2
  <2>8. QED
    BY <2>1, <2>3, <2>4, <2>5, <2>6, <2>7 DEF HubMissesNothing
<1>3. QED
  BY <1>1, <1>2

\* Once the hub is through, the connection's peers sit only in rooms that end.
LEMMA GoneClientsStep ==
    ASSUME IInv, TypeOK', [Next]_vars, RoomsAreKnown'
    PROVE  GoneClientsHoldNoSeat'
<1> USE DEF IInv
<1> SUFFICES ASSUME NEW r \in Rooms, NEW u \in Users, NEW p, p = seat'[r][u], p # None, pc'[owner'[p]] = "done"
             PROVE  Dying(r)'
  BY DEF GoneClientsHoldNoSeat, Seated, Dying
<1>1. r \notin closed'
  BY DEF RoomsAreKnown, Seated
<1>2. seat[r][u] = p
  BY SeatChanges
<1>3. p \in Peers /\ owner'[p] = owner[p] /\ owner[p] \in Clients
  BY <1>2, Places, PeersStay DEF PeersAreKnown
<1>4. Dying(r)
  <2>1. CASE pc[owner[p]] = "done"
    BY <1>2, <2>1 DEF GoneClientsHoldNoSeat, Seated, Dying
  <2>2. CASE PresenceOffline /\ hub.client = owner[p]
    <3>1. hub.phase = "client" /\ hub.list = {} /\ \A m \in removals : m.by # "hub"
      BY <2>2 DEF PresenceOffline, HubBusy
    <3>2. QED
      BY <1>2, <2>2, <3>1 DEF HubMissesNothing
  <2>3. QED
    BY <1>3, <2>1, <2>2, WhereClientsCome
<1>5. QED
  BY <1>1, <1>4, WhatEnds

-----------------------------------------------------------------------------
(***************************************************************************)
(* The theorems.                                                           *)
(***************************************************************************)
LEMMA InvInit == Init => IInv
<1> SUFFICES ASSUME Init PROVE IInv
  OBVIOUS
<1> USE DEF Init
<1>1. TypeOK
  BY Constants DEF TypeOK, Idle
<1>2. RoomsAreKnown
  <2>1. \A r \in Rooms : ~(r <= 0)
    BY DEF Rooms
  <2>2. QED
    BY <2>1 DEF RoomsAreKnown, Dying
<1>3. PeersAreKnown
  <2>1. \A p \in Peers : ~(p <= 0)
    BY DEF Peers
  <2>2. QED
    BY <2>1 DEF PeersAreKnown
<1>4. JoinersStand
  <2>1. Waiting = {}
    BY DEF Waiting
  <2>2. QED
    BY <2>1, FS_EmptySet DEF JoinersStand
<1>5. LeaversWait /\ RemovalsHaveACause /\ HubIsAwaited /\ HubMissesNothing
  BY DEF LeaversWait, RemovalsHaveACause, HubIsAwaited, HubMissesNothing, Idle
<1>6. ReservationsAreHeld
  BY DEF ReservationsAreHeld, Held, Joins, Joining, SeatsOf, Givers
<1>7. Limits
  <2>1. \A r \in Rooms : Seated(r) = {}
    BY DEF Seated
  <2>2. \A u \in Users : userRooms[u] = {}
    OBVIOUS
  <2>3. Cardinality({}) = 0 /\ 0 <= MaxRoomsPerUser /\ 0 <= MaxRoomPeers
    BY FS_EmptySet, Constants
  <2> QED
    BY <2>1, <2>2, <2>3 DEF Limits
<1>8. NewSeatsStay /\ EmptyRoomsAreScheduled /\ GoneClientsHoldNoSeat
  BY DEF NewSeatsStay, EmptyRoomsAreScheduled, GoneClientsHoldNoSeat, Seated
<1>9. QED
  BY <1>1, <1>2, <1>3, <1>4, <1>5, <1>6, <1>7, <1>8 DEF IInv

LEMMA InvAlways == Spec => []IInv
<1>1. ASSUME IInv, [Next]_vars PROVE IInv'
  <2>1. TypeOK'
    BY <1>1, TypeStep
  <2>2. RoomsAreKnown'
    BY <1>1, <2>1, RoomsStep
  <2>3. PeersAreKnown' /\ JoinersStand' /\ LeaversWait' /\ RemovalsHaveACause' /\ HubIsAwaited'
    BY <1>1, <2>1, PeersStep, JoinersStep, LeaversStep, CausesStep, HubAwaitedStep
  <2>4. ReservationsAreHeld' /\ Limits'
    BY <1>1, <2>1, ReservationsStep, LimitsStep
  <2>5. NewSeatsStay' /\ EmptyRoomsAreScheduled' /\ HubMissesNothing' /\ GoneClientsHoldNoSeat'
    BY <1>1, <2>1, <2>2, NewSeatsStep, EmptyRoomsStep, HubMissesStep, GoneClientsStep
  <2>6. QED
    BY <2>1, <2>2, <2>3, <2>4, <2>5 DEF IInv
<1>2. QED
  BY <1>1, InvInit, PTL DEF Spec

\* Every variable keeps its type.
THEOREM TypeCorrect == Spec => []TypeOK
<1>1. IInv => TypeOK
  BY DEF IInv
<1>2. QED
  BY <1>1, InvAlways, PTL

\* Whoever sits in a room holds the channel's reservation, every reservation
\* belongs to a seat, a join or a removal under way, and the limits of rooms and
\* of users hold: reserveUserRoom, addPeer, removePeer and destroy, which take one
\* lock after the other, never leave the two maps in disagreement.
THEOREM SeatsAndReservationsAgree == Spec => []ReservationsMatchSeats
<1>1. ASSUME IInv PROVE ReservationsMatchSeats
  <2> USE <1>1 DEF IInv
  <2>1. SeatsAreReserved
    <3> SUFFICES ASSUME NEW u \in Users, NEW ch \in Channels, NEW r \in SeatsOf(u, ch) PROVE ch \in userRooms[u]
      BY DEF SeatsAreReserved, SeatedIn, SeatsOf
    <3>1. QED
      BY HolderIsAlone
  <2>2. NoStaleReservation
    <3> SUFFICES ASSUME NEW u \in Users, NEW ch \in userRooms[u]
                 PROVE  \/ SeatedIn(u, ch)
                        \/ Untracking(u, ch)
                        \/ \E c \in Clients : UserOf[c] = u /\ Joining(c) /\ chan[c] = ch
      BY DEF NoStaleReservation
    <3>1. ch \in Channels
      BY DEF TypeOK
    <3>2. Held(u, ch)
      BY <3>1 DEF ReservationsAreHeld
    <3>3. Joins(u, ch) # {} \/ SeatsOf(u, ch) # {} \/ Givers(u, ch) # {}
      BY <3>2 DEF Held
    <3>4. QED
      BY <3>3 DEF Joins, SeatsOf, Givers, Gives, UserOfRemoval, ChannelOf, SeatedIn, Untracking
  <2>3. WithinLimits
    <3>1. ASSUME NEW u \in Users
          PROVE  Cardinality({ch \in Channels : SeatedIn(u, ch)}) <= MaxRoomsPerUser
      <4>1. {ch \in Channels : SeatedIn(u, ch)} \subseteq userRooms[u]
        BY <2>1 DEF SeatsAreReserved
      <4>2. IsFiniteSet(userRooms[u])
        BY Constants, FS_Subset DEF TypeOK
      <4>3. /\ Cardinality({ch \in Channels : SeatedIn(u, ch)}) <= Cardinality(userRooms[u])
            /\ Cardinality({ch \in Channels : SeatedIn(u, ch)}) \in Nat /\ Cardinality(userRooms[u]) \in Nat
        BY <4>1, <4>2, FS_Subset, FS_CardinalityType
      <4>4. QED
        BY <4>3, Constants DEF Limits
    <3>2. QED
      BY <3>1 DEF WithinLimits, Limits
  <2>4. QED
    BY <2>1, <2>2, <2>3 DEF ReservationsMatchSeats
<1>2. QED
  BY <1>1, InvAlways, PTL

\* The map holds open rooms, and none of them stays empty without a timer, a
\* callback or a join that will see to it (cancelCleanup against
\* scheduleCleanupLocked and cleanupRoom).
THEOREM NoRoomIsForgotten == Spec => []RoomsAreTended
<1>1. IInv => RoomsAreTended
  BY DEF IInv, RoomsAreTended, MappedRoomsAreOpen, RoomsAreKnown
<1>2. QED
  BY <1>1, InvAlways, PTL

\* Once the hub is done with a connection, no room but one that is about to be
\* destroyed holds a peer of it: ClientOffline's copy of userRooms misses nothing.
THEOREM TheGoneHaveLeft == Spec => []GoneClientsHoldNoSeat
<1>1. IInv => GoneClientsHoldNoSeat
  BY DEF IInv
<1>2. QED
  BY <1>1, InvAlways, PTL

\* A seat ends by a removal of that very peer, called by its own connection, by
\* the hub or by its PeerConnection, or with the room: removePeer compares
\* pointers, so a late callback of an earlier peer takes nobody's seat.
THEOREM SeatsEndForACause == Spec => [][SeatsEndForACauseStep]_vars
<1>1. ASSUME IInv, TypeOK', [Next]_vars PROVE SeatsEndForACauseStep
  <2> SUFFICES ASSUME NEW r \in Rooms, NEW u \in Users, seat[r][u] # None, seat'[r][u] # seat[r][u], r \notin closed'
               PROVE  \E m \in removals : m.peer = seat[r][u] /\ m.by \in {owner[seat[r][u]], "pc", "hub"}
    BY DEF SeatsEndForACauseStep
  <2>1. PICK m \in removals : m.peer = seat[r][u] /\ m.at = "delete"
    BY <1>1, SeatChanges
  <2>2. QED
    BY <1>1, <2>1 DEF IInv, RemovalsHaveACause
<1>2. IInv => TypeOK
  BY DEF IInv
<1>3. QED
  BY <1>1, <1>2, InvAlways, PTL DEF Spec
=============================================================================
