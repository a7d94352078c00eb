------------------------------- MODULE MCVoice -------------------------------
(***************************************************************************)
(* Voice rooms for model checking: one connection of each of two users and *)
(* a room for both, with a channel that may be deleted and a server that   *)
(* may be stopped (the module extended); and a user with two tabs and two  *)
(* channels. A behaviour is of one of them, chosen at the start; the       *)
(* variables of the tabs are Frozen in the other.                          *)
(***************************************************************************)
EXTENDS MCVoiceRooms

CONSTANTS v1, v2, t1, t2, x, y, Frozen

VARIABLE part     \* the part this behaviour is of

VARIABLES tRooms, tUserRooms, tHome, tClosed, tSeat, tTimer, tFired, tOwner, tRoom,
    tJoins, tPeers, tMade, tPc, tChan, tTarget, tHub, tRemovals, tDying, tChannel,
    tLife, tSeen
tabVars == <<tRooms, tUserRooms, tHome, tClosed, tSeat, tTimer, tFired, tOwner, tRoom,
    tJoins, tPeers, tMade, tPc, tChan, tTarget, tHub, tRemovals, tDying, tChannel,
    tLife, tSeen>>
Tabs == INSTANCE VoiceRooms WITH
    Users <- {v1, v2}, Clients <- {t1, t2}, Channels <- {x, y},
    UserOf <- [c \in {t1, t2} |-> v1], MaxRoomPeers <- 1, MaxRoomsPerUser <- 1,
    MaxJoins <- 2, MaxRooms <- 3, Deletable <- {}, MayStop <- FALSE,
    rooms <- tRooms, userRooms <- tUserRooms, home <- tHome, closed <- tClosed,
    seat <- tSeat, timer <- tTimer, fired <- tFired, owner <- tOwner, room <- tRoom,
    joins <- tJoins, nPeers <- tPeers, nRooms <- tMade, pc <- tPc, chan <- tChan,
    target <- tTarget, hub <- tHub, removals <- tRemovals, dying <- tDying,
    channel <- tChannel, life <- tLife, seen <- tSeen

ASSUME Tabs!Assumptions

TabsFrozen ==
    /\ tRooms = Frozen /\ tUserRooms = Frozen /\ tHome = Frozen /\ tClosed = Frozen
    /\ tSeat = Frozen /\ tTimer = Frozen /\ tFired = Frozen /\ tOwner = Frozen
    /\ tRoom = Frozen /\ tJoins = Frozen /\ tPeers = Frozen /\ tMade = Frozen
    /\ tPc = Frozen /\ tChan = Frozen /\ tTarget = Frozen /\ tHub = Frozen
    /\ tRemovals = Frozen /\ tDying = Frozen /\ tChannel = Frozen /\ tLife = Frozen
    /\ tSeen = Frozen

VoiceInit ==
    /\ part \in {"rooms", "tabs"}
    /\ Init
    /\ IF part = "tabs" THEN Tabs!Init ELSE TabsFrozen

\* Bound: a channel is deleted or the server is stopped, not both in one behaviour.
DeletedOrStopped == life = "up" \/ \A ch \in Channels : channel[ch] = "live"

VoiceNext ==
    \/ part = "rooms" /\ Next /\ DeletedOrStopped' /\ UNCHANGED <<part, tabVars>>
    \/ part = "tabs" /\ Tabs!Next /\ UNCHANGED <<part, vars>>

voiceVars == <<part, vars, tabVars>>

VoiceSpec == VoiceInit /\ [][VoiceNext]_voiceVars

-----------------------------------------------------------------------------
\* A seat ends by a removal of that very peer, asked for by its own connection,
\* by the hub or by its PeerConnection, or with the room: neither a late
\* callback of an earlier peer nor another tab of the user takes it away. And
\* over all tabs a user stays within VOICE_MAX_ROOMS_PER_USER, and a room within
\* VOICE_MAX_ROOM_PEERS (reserveUserRoom, addPeer).
TabsKeepTheirSeats ==
    /\ [](part = "tabs" => Tabs!TypeOK /\ Tabs!WithinLimits)
    /\ [][/\ part = "tabs" => Tabs!SeatsEndForACauseStep
          /\ part = "rooms" => SeatsEndForACauseStep]_voiceVars
=============================================================================
