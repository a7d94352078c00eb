------------------------------ MODULE MCSettle ------------------------------
(***************************************************************************)
(* What has to come to an end after others came and went: the requests for *)
(* pins and reactions (the module extended), and small instances of the    *)
(* others: the joins and the empty rooms of the voice channels, and the    *)
(* hub of the WebSocket connections. A behaviour is of one part, chosen at *)
(* the start; the variables of the others keep one value.                  *)
(***************************************************************************)
EXTENDS Marks

CONSTANTS u1, u2, a1, b1, ch, c1, c2, a, b

VARIABLE part     \* the part this behaviour is of

VARIABLES rooms, userRooms, home, voiceClosed, seat, timer, fired, owner, voiceRoom,
    joins, nPeers, nRooms, pc, chan, target, voiceHub, removals, dying, channel,
    voiceLife, seen
voiceVars == <<rooms, userRooms, home, voiceClosed, seat, timer, fired, owner,
    voiceRoom, joins, nPeers, nRooms, pc, chan, target, voiceHub, removals, dying,
    channel, voiceLife, seen>>
Places == INSTANCE VoiceRooms WITH
    Users <- {u1, u2}, Clients <- {a1, b1}, Channels <- {ch},
    UserOf <- [c \in {a1, b1} |-> IF c = b1 THEN u2 ELSE u1], MaxRoomPeers <- 1,
    MaxRoomsPerUser <- 1, MaxJoins <- 2, MaxRooms <- 2, Deletable <- {},
    MayStop <- FALSE, closed <- voiceClosed, room <- voiceRoom, hub <- voiceHub,
    life <- voiceLife

VARIABLES userOf, clients, entry, conn, pump, loaded, held, recent, status, session,
    hubEvents, hub, hubReq, life, heard
hubVars == <<userOf, clients, entry, conn, pump, loaded, held, recent, status,
    session, hubEvents, hub, hubReq, life, heard>>
Presence == INSTANCE Hub WITH
    Users <- {u1, u2}, Clients <- {c1, c2},
    Owners <- {[w \in {c1, c2} |-> u1], [w \in {c1, c2} |-> IF w = c1 THEN u1 ELSE u2]},
    Requests <- {}, Statuses <- {"busy"}, MaxEvents <- 2, MayStop <- FALSE,
    events <- hubEvents, req <- hubReq

ASSUME Places!Assumptions /\ Presence!Assumptions

notMarks == <<voiceVars, hubVars>>
notPlaces == <<vars, hubVars>>
notHub == <<vars, voiceVars>>
allVars == <<vars, voiceVars, hubVars>>

(* The variables of the parts a behaviour is not of: nobody is in a room, no timer *)
(* runs and nobody is connected; the rest has no value.                            *)
PlacesFrozen ==
    /\ pc = [c \in {a1, b1} |-> "off"] /\ timer = {} /\ voiceClosed = 1 .. 2
    /\ rooms = None /\ userRooms = None /\ home = None /\ seat = None /\ fired = None
    /\ owner = None /\ voiceRoom = None /\ joins = None /\ nPeers = None
    /\ nRooms = None /\ chan = None /\ target = None /\ voiceHub = None
    /\ removals = None /\ dying = None /\ channel = None /\ voiceLife = None
    /\ seen = None

PresenceFrozen ==
    /\ clients = {} /\ recent = {} /\ session = {u1, u2}
    /\ entry = [u \in {u1, u2} |-> None] /\ userOf = [w \in {c1, c2} |-> u1]
    /\ conn = None /\ pump = None /\ loaded = None /\ held = None /\ status = None
    /\ hubEvents = None /\ hub = None /\ hubReq = None /\ life = None /\ heard = None

SettleInit ==
    /\ part \in {"marks", "places", "hub"}
    /\ Init
    /\ IF part = "places" THEN Places!Init ELSE PlacesFrozen
    /\ IF part = "hub" THEN Presence!Init ELSE PresenceFrozen

SettleNext ==
    \/ part = "marks" /\ Next /\ UNCHANGED <<part, notMarks>>
    \/ part = "places" /\ Places!Next /\ UNCHANGED <<part, notPlaces>>
    \/ part = "hub" /\ Presence!Next /\ UNCHANGED <<part, notHub>>

\* Goroutines run on, tickers and timers fire, mutexes are handed over; and what
\* waits for a mutex that is free again and again gets it in its turn.  Each
\* conjunct is one of the fairness of its part's module.
SettleSpec ==
    /\ SettleInit /\ [][SettleNext]_<<part, allVars>>
    /\ \A c \in {a1, b1} : WF_voiceVars(part = "places" /\ Places!Join(c))
    /\ WF_voiceVars(part = "places" /\ \E m \in removals : Places!RemovalStep(m))
    /\ WF_voiceVars(part = "places" /\ Places!HubStep)
    /\ \A n \in 1 .. 2 : WF_voiceVars(part = "places" /\ Places!TimerStep(n))
    /\ WF_voiceVars(part = "places" /\ \E d \in dying : Places!CloseRoom(d))
    /\ WF_hubVars(part = "hub" /\ Presence!Run)
    /\ \A w \in {c1, c2} : WF_hubVars(part = "hub" /\ Presence!ReadPump(w))
    /\ \A w \in {c1, c2} : SF_hubVars(part = "hub" /\ Presence!Accept(w))
    /\ SF_hubVars(part = "hub" /\ Presence!AutoAwayTick /\ UNCHANGED <<userOf, hubEvents>>)
    /\ SF_hubVars(/\ part = "hub" /\ Presence!ListUsersWithActiveConnections
                  /\ UNCHANGED <<userOf, hubEvents>>)
    /\ \A r \in {a, b} : WF_vars(part = "marks" /\ RequestStep(r))

-----------------------------------------------------------------------------
\* Every voice_join is answered, because the retry loop of Join ends; and a
\* room that stays empty is closed after its grace period. Two users race for
\* the one place of the room, and it stays one.
VoiceSettles ==
    /\ [](part = "places" => Places!TypeOK /\ Places!WithinLimits)
    /\ part = "places" => Places!JoinsEnd /\ Places!EmptyRoomsClose

\* A user whose last session ended for good loses all its connections, also
\* those whose handshake was under way (disconnectRevokedUsers); and away for
\* inactivity ends with the inactivity, whichever of the tabs it shows in,
\* although the hub works with the activity it looked up before.
ConnectionsSettle ==
    part = "hub" => Presence!RevokedAreCut /\ Presence!ActiveUsersComeBack
=============================================================================
