--------------------------------- MODULE Hub ---------------------------------
(***************************************************************************)
(* The WebSocket hub: connected clients, presence, and what the clients    *)
(* are told of it.                                                         *)
(*                                                                         *)
(* One goroutine, Run, registers and unregisters clients, looks for idle   *)
(* users and cuts the connections of users without a session.  The         *)
(* ReadPump of each client reports activity and unregisters at its end;    *)
(* handlers of the HTTP API change a user's status.  All of them change    *)
(* the presence in one critical section, read the effective status in      *)
(* another and send it afterwards.                                         *)
(*                                                                         *)
(* Status messages, nicknames and typing phrases are carried by the same   *)
(* events and left out.  The send of an event to all clients is one step;  *)
(* who was sent what, not in which order, is what the properties are about.*)
(***************************************************************************)
EXTENDS Naturals, FiniteSets

CONSTANTS
    Users, Clients,
    Owners,         \* whose the connections may be: functions from clients to users
    Requests,       \* bound: requests that change a status or a profile
    Statuses,       \* away and busy, as chosen by hand
    MaxEvents,      \* bound: what comes from outside: lost connections, idleness and
                    \* activity, requests, sessions that end, logins
    MayStop,        \* bound: may the server be shut down?
    None

\* An entry of the presence.
Entry == [connections : Nat, persisted : Statuses \cup {None}, autoAway : BOOLEAN]

Assumptions ==
    /\ IsFiniteSet(Clients) /\ Owners \subseteq [Clients -> Users]
    /\ MaxEvents \in Nat /\ MayStop \in BOOLEAN
    /\ Statuses \cap {"online", "offline"} = {}
    /\ None \notin Users \cup Clients \cup Statuses \cup {"online", "offline", "away"} \cup Entry

ASSUME HubAssumption == Assumptions

VARIABLES
    userOf,     \* Client.userID
    clients,    \* Hub.clients
    entry,      \* PresenceStore.users: an entry or None
    conn,       \* per client: "new", "handshake", "open", "closed"
    pump,       \* per client: "off", "reads", "wakes", "tells", "leaves", "gone"
    loaded,     \* per client: users.status as its handshake read it
    held,       \* per client: the status its ReadPump read and is about to send
    recent,     \* clients active within autoAwayAfter
    status,     \* users.status in the database
    session,    \* users with an active session connection
    events,     \* how many came from outside
    hub,        \* where Run stands, on whom
    req,        \* per request: its step, user and status
    life,       \* "up", "flagged", "closing", "stopped"
    heard       \* history: statuses of each user that each client was sent since
                \* the user's effective status last changed

clientVars == <<conn, pump, loaded, held>>
dbVars     == <<status, session>>
systemVars == <<clients, entry, clientVars, recent, dbVars, hub, req, life, heard>>
vars == <<systemVars, userOf, events>>

Shown == Statuses \cup {"online", "offline", "away"}
Select == [at |-> "select", client |-> None, user |-> None, status |-> None,
           told |-> [u \in Users |-> "offline"], todo |-> {}, idle |-> {}]

TypeOK ==
    /\ userOf \in Owners
    /\ clients \subseteq Clients
    /\ entry \in [Users -> Entry \cup {None}]
    /\ conn \in [Clients -> {"new", "handshake", "open", "closed"}]
    /\ pump \in [Clients -> {"off", "reads", "wakes", "tells", "leaves", "gone"}]
    /\ loaded \in [Clients -> Statuses \cup {None}]
    /\ held \in [Clients -> Shown \cup {None}]
    /\ recent \subseteq Clients
    /\ status \in [Users -> Statuses \cup {None}]
    /\ session \subseteq Users /\ events \in 0 .. MaxEvents
    /\ hub \in [at : {"select", "previous", "add", "wake", "current", "announce", "members",
                      "sync", "remove", "offline", "away", "change", "read", "tell", "cut",
                      "stopped"},
                client : Clients \cup {None}, user : Users \cup {None},
                status : Shown \cup {None}, told : [Users -> Shown],
                todo : SUBSET Users, idle : SUBSET Users]
    /\ req \in [Requests -> [at : {"new", "set", "wake", "read", "tell", "done"},
                             user : Users \cup {None}, status : Shown \cup {None}]]
    /\ life \in {"up", "flagged", "closing", "stopped"}
    /\ heard \in [Clients -> [Users -> SUBSET Shown]]

Init ==
    /\ userOf \in Owners
    /\ clients = {}
    /\ entry = [u \in Users |-> None]
    /\ conn = [c \in Clients |-> "new"]
    /\ pump = [c \in Clients |-> "off"]
    /\ loaded = [c \in Clients |-> None]
    /\ held = [c \in Clients |-> None]
    /\ recent = {}
    /\ status = [u \in Users |-> None]
    /\ session = Users /\ events = 0
    /\ hub = Select
    /\ req = [r \in Requests |-> [at |-> "new", user |-> None, status |-> None]]
    /\ life = "up"
    /\ heard = [c \in Clients |-> [u \in Users |-> {}]]

(***************************************************************************)
(* Presence.                                                               *)
(***************************************************************************)
EffectiveStatus(e) ==
    IF e = None THEN "offline"
    ELSE IF e.persisted # None THEN e.persisted
    ELSE IF e.autoAway THEN "away" ELSE "online"

\* An entry changes; what was heard of the user is worth nothing if its
\* effective status changed.
SetEntry(u, e) ==
    /\ entry' = [entry EXCEPT ![u] = e]
    /\ heard' = IF EffectiveStatus(e) = EffectiveStatus(entry[u]) THEN heard
                ELSE [c \in Clients |-> [heard[c] EXCEPT ![u] = {}]]

AddConnection(u, persisted) ==
    SetEntry(u, IF entry[u] = None
                THEN [connections |-> 1, persisted |-> persisted, autoAway |-> FALSE]
                ELSE [entry[u] EXCEPT !.connections = @ + 1])

RemoveConnection(u) ==
    SetEntry(u, IF entry[u] = None \/ entry[u].connections <= 1 THEN None
                ELSE [entry[u] EXCEPT !.connections = @ - 1])

SetAutoAway(u, away) ==
    SetEntry(u, IF entry[u] = None THEN None ELSE [entry[u] EXCEPT !.autoAway = away])

SetPersistedStatus(u, s) ==
    SetEntry(u, IF entry[u] = None THEN None ELSE [entry[u] EXCEPT !.persisted = s])

HasPersistedStatus(u) == entry[u] # None /\ entry[u].persisted # None
IsAutoAway(u) == entry[u] # None /\ entry[u].autoAway

(***************************************************************************)
(* Sending.  A client whose send channel is full (sendBufferSize), as its  *)
(* network is slow, misses the event and loses its connection.             *)
(***************************************************************************)
\* Sends to each client of C the statuses told[u] for the users in DOMAIN told.
SendTo(C, told) ==
    \E full \in SUBSET C :
        /\ conn' = [c \in Clients |-> IF c \in full THEN "closed" ELSE conn[c]]
        /\ heard' = [c \in Clients |-> [u \in Users |->
              IF c \in C \ full /\ u \in DOMAIN told THEN heard[c][u] \cup {told[u]}
              ELSE heard[c][u]]]

BroadcastPresence(C, u, s) == SendTo(C, [x \in {u} |-> s])

(***************************************************************************)
(* A connection: the handler checks the session and loads the profile,     *)
(* then waits for the hub; the ReadPump runs until the connection closes.  *)
(***************************************************************************)
WebSocketHandler(c) ==
    /\ conn[c] = "new" /\ life = "up" /\ userOf[c] \in session
    /\ conn' = [conn EXCEPT ![c] = "handshake"]
    /\ loaded' = [loaded EXCEPT ![c] = status[userOf[c]]]
    /\ recent' = recent \cup {c}
    /\ UNCHANGED <<clients, entry, pump, held, dbVars, hub, req, life, heard>>

\* The network or the peer ends the connection.
ConnectionLost(c) ==
    /\ conn[c] = "open"
    /\ conn' = [conn EXCEPT ![c] = "closed"]
    /\ UNCHANGED <<clients, entry, pump, loaded, held, recent, dbVars, hub, req,
                   life, heard>>

GoesIdle(c) ==
    /\ c \in recent /\ conn[c] = "open" /\ pump[c] = "reads"
    /\ recent' = recent \ {c}
    /\ UNCHANGED <<clients, entry, clientVars, dbVars, hub, req, life, heard>>

MarkActivity(c) ==
    /\ pump[c] = "reads" /\ conn[c] = "open" /\ c \notin recent
    /\ recent' = recent \cup {c}
    /\ pump' = [pump EXCEPT ![c] =
          IF HasPersistedStatus(userOf[c]) \/ ~IsAutoAway(userOf[c]) THEN "reads" ELSE "wakes"]
    /\ UNCHANGED <<clients, entry, conn, loaded, held, dbVars, hub, req, life, heard>>

WakeUp(c) ==
    /\ pump[c] = "wakes"
    /\ SetAutoAway(userOf[c], FALSE)
    /\ pump' = [pump EXCEPT ![c] = IF entry[userOf[c]] = None THEN "reads" ELSE "tells"]
    /\ UNCHANGED <<clients, conn, loaded, held, recent, dbVars, hub, req, life>>

ReadAwake(c) ==
    /\ pump[c] = "tells" /\ held[c] = None
    /\ held' = [held EXCEPT ![c] = EffectiveStatus(entry[userOf[c]])]
    /\ UNCHANGED <<clients, entry, conn, pump, loaded, recent, dbVars, hub, req,
                   life, heard>>

TellAwake(c) ==
    /\ pump[c] = "tells" /\ held[c] # None
    /\ BroadcastPresence(clients, userOf[c], held[c])
    /\ held' = [held EXCEPT ![c] = None]
    /\ pump' = [pump EXCEPT ![c] = "reads"]
    /\ UNCHANGED <<clients, entry, loaded, recent, dbVars, hub, req, life>>

\* The ReadPump finds its connection closed and waits for the hub.
ReadPumpEnds(c) ==
    /\ pump[c] = "reads" /\ conn[c] = "closed"
    /\ pump' = [pump EXCEPT ![c] = "leaves"]
    /\ UNCHANGED <<clients, entry, conn, loaded, held, recent, dbVars, hub, req,
                   life, heard>>

(***************************************************************************)
(* Run.                                                                    *)
(***************************************************************************)
Goes(at) == hub' = [hub EXCEPT !.at = at]

Register(c) ==
    /\ hub.at = "select" /\ conn[c] = "handshake"
    /\ pump' = [pump EXCEPT ![c] = "reads"]
    /\ IF life = "up"
       THEN /\ clients' = clients \cup {c}
            /\ conn' = [conn EXCEPT ![c] = "open"]
            /\ hub' = [hub EXCEPT !.at = "previous", !.client = c, !.user = userOf[c]]
       ELSE /\ conn' = [conn EXCEPT ![c] = "closed"]
            /\ UNCHANGED <<clients, hub>>
    /\ UNCHANGED <<entry, loaded, held, recent, dbVars, req, life, heard>>

\* presenceOnline: the status before, the new connection, the activity it is.
PreviousStatus ==
    /\ hub.at = "previous"
    /\ hub' = [hub EXCEPT !.at = "add", !.status = EffectiveStatus(entry[hub.user])]
    /\ UNCHANGED <<clients, entry, clientVars, recent, dbVars, req, life, heard>>

Add ==
    /\ hub.at = "add"
    /\ AddConnection(hub.user, loaded[hub.client])
    /\ hub' = [hub EXCEPT !.at = "wake",
                          !.status = IF entry[hub.user] = None THEN None ELSE @]
    /\ loaded' = [loaded EXCEPT ![hub.client] = None]
    /\ UNCHANGED <<clients, conn, pump, held, recent, dbVars, req, life>>

FreshConnection ==
    /\ hub.at = "wake"
    /\ SetAutoAway(hub.user, FALSE)
    /\ Goes("current")
    /\ UNCHANGED <<clients, clientVars, recent, dbVars, req, life>>

\* The others are told when the user came online or its status changed.
CurrentStatus ==
    /\ hub.at = "current"
    /\ LET now == EffectiveStatus(entry[hub.user])
       IN  hub' = [hub EXCEPT !.at = IF hub.status # now THEN "announce" ELSE "members",
                              !.status = IF @ # now THEN now ELSE None]
    /\ UNCHANGED <<clients, entry, clientVars, recent, dbVars, req, life, heard>>

Announce ==
    /\ hub.at = "announce"
    /\ BroadcastPresence(clients \ {hub.client}, hub.user, hub.status)
    /\ hub' = [hub EXCEPT !.at = "members", !.status = None]
    /\ UNCHANGED <<clients, entry, pump, loaded, held, recent, dbVars, req, life>>

OnlineMembers ==
    /\ hub.at = "members"
    /\ hub' = [hub EXCEPT !.at = "sync", !.told = [u \in Users |-> EffectiveStatus(entry[u])]]
    /\ UNCHANGED <<clients, entry, clientVars, recent, dbVars, req, life, heard>>

PresenceSync ==
    /\ hub.at = "sync"
    /\ SendTo({hub.client}, hub.told)
    /\ hub' = Select
    /\ UNCHANGED <<clients, entry, pump, loaded, held, recent, dbVars, req, life>>

\* Variant: a client that was never registered is taken off the presence too.
UnregisterAny(c) ==
    /\ hub.at = "select" /\ pump[c] = "leaves"
    /\ pump' = [pump EXCEPT ![c] = "gone"]
    /\ clients' = clients \ {c}
    /\ hub' = [hub EXCEPT !.at = "remove", !.user = userOf[c]]
    /\ recent' = recent \ {c}
    /\ heard' = [heard EXCEPT ![c] = [u \in Users |-> {}]]
    /\ UNCHANGED <<entry, conn, loaded, held, dbVars, req, life>>

\* A ReadPump whose client was never registered is heard and ignored.
Unregister(c) ==
    /\ hub.at = "select" /\ pump[c] = "leaves"
    /\ pump' = [pump EXCEPT ![c] = "gone"]
    /\ clients' = clients \ {c}
    /\ hub' = IF c \in clients THEN [hub EXCEPT !.at = "remove", !.user = userOf[c]] ELSE hub
    /\ recent' = recent \ {c}
    /\ heard' = [heard EXCEPT ![c] = [u \in Users |-> {}]]
    /\ UNCHANGED <<entry, conn, loaded, held, dbVars, req, life>>

PresenceOffline ==
    /\ hub.at = "remove"
    /\ RemoveConnection(hub.user)
    /\ hub' = IF entry'[hub.user] = None THEN [hub EXCEPT !.at = "offline"] ELSE Select
    /\ UNCHANGED <<clients, clientVars, recent, dbVars, req, life>>

TellOffline ==
    /\ hub.at = "offline"
    /\ BroadcastPresence(clients, hub.user, "offline")
    /\ hub' = Select
    /\ UNCHANGED <<clients, entry, pump, loaded, held, recent, dbVars, req, life>>

\* updateAutoAwayUsers: users whose connections are all idle become away,
\* those who are active again come back.
AutoAwayTick ==
    /\ hub.at = "select" /\ clients # {}
    /\ LET seen == {userOf[c] : c \in clients}
       IN  hub' = [Select EXCEPT !.at = "away", !.todo = seen,
                                 !.idle = seen \ {userOf[c] : c \in clients \cap recent}]
    /\ UNCHANGED <<clients, entry, clientVars, recent, dbVars, req, life, heard>>

\* Variant: the tick only makes users away.
CheckAwayOneWay(u) ==
    /\ hub.at = "away" /\ u \in hub.todo
    /\ hub' = IF HasPersistedStatus(u) \/ u \notin hub.idle \/ IsAutoAway(u)
              THEN [hub EXCEPT !.todo = @ \ {u}]
              ELSE [hub EXCEPT !.at = "change", !.user = u, !.todo = @ \ {u}]
    /\ UNCHANGED <<clients, entry, clientVars, recent, dbVars, req, life, heard>>

CheckAway(u) ==
    /\ hub.at = "away" /\ u \in hub.todo
    /\ hub' = IF HasPersistedStatus(u) \/ IsAutoAway(u) = (u \in hub.idle)
              THEN [hub EXCEPT !.todo = @ \ {u}]
              ELSE [hub EXCEPT !.at = "change", !.user = u, !.todo = @ \ {u}]
    /\ UNCHANGED <<clients, entry, clientVars, recent, dbVars, req, life, heard>>

ChangeAway ==
    /\ hub.at = "change"
    /\ SetAutoAway(hub.user, hub.user \in hub.idle)
    /\ Goes("read")
    /\ UNCHANGED <<clients, clientVars, recent, dbVars, req, life>>

ReadAway ==
    /\ hub.at = "read"
    /\ hub' = [hub EXCEPT !.at = "tell", !.status = EffectiveStatus(entry[hub.user])]
    /\ UNCHANGED <<clients, entry, clientVars, recent, dbVars, req, life, heard>>

TellAway ==
    /\ hub.at = "tell"
    /\ BroadcastPresence(clients, hub.user, hub.status)
    /\ hub' = [hub EXCEPT !.at = "away", !.user = None, !.status = None]
    /\ UNCHANGED <<clients, entry, pump, loaded, held, recent, dbVars, req, life>>

AwayDone ==
    /\ hub.at = "away" /\ hub.todo = {}
    /\ hub' = Select
    /\ UNCHANGED <<clients, entry, clientVars, recent, dbVars, req, life, heard>>

\* disconnectRevokedUsers: the query, then the connections it condemns.
ListUsersWithActiveConnections ==
    /\ hub.at = "select" /\ clients # {}
    /\ hub' = [Select EXCEPT !.at = "cut", !.todo = {userOf[c] : c \in clients} \ session]
    /\ UNCHANGED <<clients, entry, clientVars, recent, dbVars, req, life, heard>>

Close(C) == conn' = [c \in Clients |-> IF c \in C THEN "closed" ELSE conn[c]]

DisconnectRevokedUsers ==
    /\ hub.at = "cut"
    /\ Close({c \in clients : userOf[c] \in hub.todo})
    /\ hub' = Select
    /\ UNCHANGED <<clients, entry, pump, loaded, held, recent, dbVars, req, life, heard>>

RunReturns ==
    /\ hub.at = "select" /\ life = "stopped"
    /\ Goes("stopped")
    /\ UNCHANGED <<clients, entry, clientVars, recent, dbVars, req, life, heard>>

(***************************************************************************)
(* Handlers of the API, sessions, shutdown.                                *)
(***************************************************************************)
\* Variant: "online" is stored as it came instead of as no status.
UpdateStatusVerbatim(r, u, s) ==
    /\ req[r].at = "new"
    /\ status' = [status EXCEPT ![u] = IF s = None THEN "online" ELSE s]
    /\ req' = [req EXCEPT ![r] = [at |-> "set", user |-> u, status |-> s]]
    /\ UNCHANGED <<clients, entry, clientVars, recent, session, hub, life, heard>>

UpdateStatus(r, u, s) ==
    /\ req[r].at = "new"
    /\ status' = [status EXCEPT ![u] = s]
    /\ req' = [req EXCEPT ![r] = [at |-> "set", user |-> u, status |-> s]]
    /\ UNCHANGED <<clients, entry, clientVars, recent, session, hub, life, heard>>

UpdatePersistedStatus(r) ==
    LET u == req[r].user IN
    /\ req[r].at = "set"
    /\ SetPersistedStatus(u, req[r].status)
    /\ req' = [req EXCEPT ![r].at = IF entry[u] = None THEN "done" ELSE "wake"]
    /\ UNCHANGED <<clients, clientVars, recent, dbVars, hub, life>>

StatusIsActivity(r) ==
    /\ req[r].at = "wake"
    /\ SetAutoAway(req[r].user, FALSE)
    /\ req' = [req EXCEPT ![r].at = "read"]
    /\ UNCHANGED <<clients, clientVars, recent, dbVars, hub, life>>

\* The profile of a user who is online changed: the event repeats the status.
UpdateStatusMessage(r, u) ==
    /\ req[r].at = "new" /\ entry[u] # None
    /\ req' = [req EXCEPT ![r] = [at |-> "read", user |-> u, status |-> None]]
    /\ UNCHANGED <<clients, entry, clientVars, recent, dbVars, hub, life, heard>>

ReadStatus(r) ==
    /\ req[r].at = "read"
    /\ req' = [req EXCEPT ![r].at = "tell", ![r].status = EffectiveStatus(entry[req[r].user])]
    /\ UNCHANGED <<clients, entry, clientVars, recent, dbVars, hub, life, heard>>

TellStatus(r) ==
    /\ req[r].at = "tell"
    /\ BroadcastPresence(clients, req[r].user, req[r].status)
    /\ req' = [req EXCEPT ![r] = [at |-> "done", user |-> None, status |-> None]]
    /\ UNCHANGED <<clients, entry, pump, loaded, held, recent, dbVars, hub, life>>

\* Logout, a dropped connection, reuse of a token: the database only.
SessionEnds(u) ==
    /\ u \in session
    /\ session' = session \ {u}
    /\ UNCHANGED <<clients, entry, clientVars, recent, status, hub, req, life, heard>>

Login(u) ==
    /\ u \notin session
    /\ session' = session \cup {u}
    /\ UNCHANGED <<clients, entry, clientVars, recent, status, hub, req, life, heard>>

\* A ban or a new password also closes what is connected at the time.
DisconnectUser(u) ==
    /\ u \notin session
    /\ Close({c \in clients : userOf[c] = u})
    /\ UNCHANGED <<clients, entry, pump, loaded, held, recent, dbVars, hub, req, life,
                   heard>>

\* Shutdown: no more registrations, then all connections, then the hub, when
\* it is empty or after five seconds.
Flag ==
    /\ MayStop /\ life = "up"
    /\ life' = "flagged"
    /\ UNCHANGED <<clients, entry, clientVars, recent, dbVars, hub, req, heard>>

CloseAll ==
    /\ life = "flagged"
    /\ life' = "closing"
    /\ Close(clients)
    /\ UNCHANGED <<clients, entry, pump, loaded, held, recent, dbVars, hub, req, heard>>

Stop ==
    /\ life = "closing"
    /\ life' = "stopped"
    /\ UNCHANGED <<clients, entry, clientVars, recent, dbVars, hub, req, heard>>

Run ==
    /\ \/ PreviousStatus \/ Add \/ FreshConnection \/ CurrentStatus \/ Announce
       \/ OnlineMembers \/ PresenceSync
       \/ PresenceOffline \/ TellOffline
       \/ ChangeAway \/ ReadAway \/ TellAway \/ AwayDone
       \/ DisconnectRevokedUsers \/ RunReturns
       \/ \E u \in Users : CheckAway(u)
    /\ UNCHANGED <<userOf, events>>

Accept(c) == (Register(c) \/ Unregister(c)) /\ UNCHANGED <<userOf, events>>

Tick == (AutoAwayTick \/ ListUsersWithActiveConnections) /\ UNCHANGED <<userOf, events>>

ReadPump(c) ==
    /\ WakeUp(c) \/ ReadAwake(c) \/ TellAwake(c) \/ ReadPumpEnds(c)
    /\ UNCHANGED <<userOf, events>>

Handler(r) ==
    /\ UpdatePersistedStatus(r) \/ StatusIsActivity(r) \/ ReadStatus(r) \/ TellStatus(r)
    /\ UNCHANGED <<userOf, events>>

Shutdown == (Flag \/ CloseAll \/ Stop) /\ UNCHANGED <<userOf, events>>

Connection(c) == WebSocketHandler(c) /\ UNCHANGED <<userOf, events>>

Outside ==
    /\ events < MaxEvents
    /\ events' = events + 1 /\ userOf' = userOf
    /\ \/ \E c \in Clients : ConnectionLost(c) \/ GoesIdle(c) \/ MarkActivity(c)
       \/ \E u \in Users : SessionEnds(u) \/ Login(u) \/ DisconnectUser(u)
       \/ \E r \in Requests, u \in Users :
             \/ UpdateStatusMessage(r, u)
             \/ \E s \in Statuses \cup {None} : UpdateStatus(r, u, s)

Next ==
    \/ Run \/ Tick \/ Shutdown \/ Outside
    \/ \E c \in Clients : Accept(c) \/ ReadPump(c) \/ Connection(c)
    \/ \E r \in Requests : Handler(r)

Spec == Init /\ [][Next]_vars

\* Goroutines run; a select that is reached again and again takes each of
\* its cases (SF), as Go chooses among the ready ones at random.
FairSpec ==
    /\ Spec
    /\ WF_vars(Run)
    /\ SF_vars(AutoAwayTick /\ UNCHANGED <<userOf, events>>)
    /\ SF_vars(ListUsersWithActiveConnections /\ UNCHANGED <<userOf, events>>)
    /\ \A c \in Clients : WF_vars(ReadPump(c)) /\ SF_vars(Accept(c))
    /\ \A r \in Requests : WF_vars(Handler(r))

(***************************************************************************)
(* Properties.                                                             *)
(***************************************************************************)
Of(u) == {c \in clients : userOf[c] = u}

\* Nobody is between a change of the presence and the event that tells of it.
Quiet ==
    /\ hub.at \in {"select", "cut"}
    /\ \A c \in Clients : pump[c] \notin {"wakes", "tells"}
    /\ \A r \in Requests : req[r].at \in {"new", "set", "done"}

\* The presence and the hub's clients are kept under two mutexes and agree: a
\* user has as many connections as registered clients, up to the one that the
\* hub is registering or has just unregistered (AddConnection, RemoveConnection).
PresenceCountsClients ==
    \A u \in Users :
        LET n == IF entry[u] = None THEN 0 ELSE entry[u].connections
            pending == IF hub.user = u /\ hub.at \in {"previous", "add"} THEN 1 ELSE 0
            leaving == IF hub.user = u /\ hub.at = "remove" THEN 1 ELSE 0
        IN  /\ n + pending = Cardinality(Of(u)) + leaving
            /\ n = 0 <=> entry[u] = None

\* Whoever changes a presence last also sends it: when nothing is under way,
\* every client that is connected was sent the present status of every user
\* after it last changed, by presence_sync or presence_update.
EveryChangeIsTold ==
    Quiet => \A c \in clients : conn[c] = "open" =>
                 \A u \in Users : EffectiveStatus(entry[u]) \in heard[c][u]

\* A handshake that overlaps the shutdown is either in the snapshot that
\* Shutdown closes or refused: afterwards no client is open.
ShutdownLeavesNoneOpen ==
    life \in {"closing", "stopped"} => \A c \in clients : conn[c] = "closed"

\* The presence agrees with the clients, and the clients know of it.
PresenceIsTold == PresenceCountsClients /\ EveryChangeIsTold /\ ShutdownLeavesNoneOpen

\* A user whose last session ended for good loses all its connections, also
\* those whose handshake was under way (disconnectRevokedUsers).
RevokedAreCut ==
    \A u \in Users : <>[](u \notin session) => <>[](Of(u) = {} \/ hub.at = "stopped")

\* Away for inactivity ends with the inactivity, whichever of the tabs it
\* shows in, although the hub works with the activity it looked up before.
ActiveUsersComeBack ==
    \A c \in Clients :
        <>[](c \in clients /\ c \in recent) =>
            <>[](IsAutoAway(userOf[c]) => HasPersistedStatus(userOf[c]))

=============================================================================
