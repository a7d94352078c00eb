------------------------------ MODULE Hub_proofs ------------------------------
(***************************************************************************)
(* Proofs about Hub, for any number of users, connections and requests:    *)
(* the presence counts the registered clients, whoever changes a presence  *)
(* owes its announcement until it is made, and a shutdown leaves no        *)
(* connection open.                                                        *)
(***************************************************************************)
EXTENDS Hub, FiniteSetTheorems, TLAPS

USE HubAssumption

-----------------------------------------------------------------------------
(***************************************************************************)
(* The inductive invariant.                                                *)
(***************************************************************************)
Registers == {"previous", "add", "wake", "current", "announce", "members", "sync"}

\* Whom Run is registering is registered; a change of presence is of a user.
RunKnowsWhom ==
    /\ hub.at \in Registers => hub.client \in clients
    /\ hub.at \in (Registers \ {"members", "sync"})
                  \cup {"remove", "offline", "change", "read", "tell"} => hub.user \in Users
    /\ hub.at \in {"announce", "tell"} => hub.status # None

RequestsKnowWhom ==
    \A r \in Requests :
        /\ req[r].at \in {"set", "wake", "read", "tell"} => req[r].user \in Users
        /\ req[r].at = "set" => req[r].status \in Statuses \cup {None}
        /\ req[r].at = "tell" => req[r].status # None

\* A connection is registered before it is open, and closed before it leaves.
ClientsAreConnected ==
    /\ \A c \in Clients : conn[c] = "open" => c \in clients
    /\ \A c \in clients : conn[c] \in {"open", "closed"}
    /\ \A c \in Clients : pump[c] # "off" => conn[c] \in {"open", "closed"}
    /\ \A c \in Clients : pump[c] = "leaves" => conn[c] = "closed"

\* A ReadPump holds a status only between the read and the send.
HeldIsToBeTold == \A c \in Clients : held[c] # None => pump[c] = "tells"

\* Nobody but Run brings a user back.
OfflineIsGone == hub.at = "offline" => entry[hub.user] = None

\* A user who is away for inactivity was not shown "online" when presenceOnline
\* looked, so that the end of the inactivity is a change it announces.
AwayIsNoticed == hub.at \in {"add", "wake"} /\ IsAutoAway(hub.user) => hub.status # "online"

\* Somebody is about to send c the present status of u.
Effective(u) == EffectiveStatus(entry[u])
HubOwes(c, u) ==
    \/ hub.client = c /\ hub.at \in Registers \ {"sync"}
    \/ hub.client = c /\ hub.at = "sync" /\ hub.told[u] = Effective(u)
    \/ /\ hub.user = u
       /\ \/ hub.at \in {"read", "offline"}
          \/ hub.at = "wake" /\ hub.status = None
          \/ hub.at = "current" /\ hub.status # Effective(u)
          \/ hub.at \in {"announce", "tell"} /\ hub.status = Effective(u)
PumpOwes(u) ==
    \E d \in Clients : userOf[d] = u /\ pump[d] = "tells" /\ held[d] \in {None, Effective(u)}
RequestOwes(u) ==
    \E r \in Requests :
        /\ req[r].user = u
        /\ \/ req[r].at \in {"wake", "read"}
           \/ req[r].at = "tell" /\ req[r].status = Effective(u)

ChangesAreOwed ==
    \A c \in clients : conn[c] = "open" =>
        \A u \in Users :
            Effective(u) \in heard[c][u] \/ HubOwes(c, u) \/ PumpOwes(u) \/ RequestOwes(u)

IInv ==
    /\ TypeOK
    /\ RunKnowsWhom
    /\ RequestsKnowWhom
    /\ ClientsAreConnected
    /\ HeldIsToBeTold
    /\ OfflineIsGone
    /\ AwayIsNoticed
    /\ PresenceCountsClients
    /\ ChangesAreOwed
    /\ ShutdownLeavesNoneOpen

-----------------------------------------------------------------------------
(***************************************************************************)
(* What the operators do.                                                  *)
(***************************************************************************)
LEMMA Constants ==
    /\ IsFiniteSet(Clients) /\ MaxEvents \in Nat
    /\ \A s \in Statuses : s # "online" /\ s # "offline"
    /\ None \notin Users /\ None \notin Clients /\ None \notin Statuses /\ None \notin Shown
    /\ None \notin Entry
    /\ \A f \in Owners : f \in [Clients -> Users]
BY DEF Assumptions, Shown

LEMMA EffectiveStatusType ==
    ASSUME NEW e \in Entry \cup {None}
    PROVE  EffectiveStatus(e) \in Shown
BY DEF EffectiveStatus, Entry, Shown

LEMMA EntryIsNotNone ==
    ASSUME NEW e, e = None
    PROVE  EffectiveStatus(e) = "offline"
BY DEF EffectiveStatus

\* One entry changes; what was heard of the user stays unless its status changed.
LEMMA SetEntryIs ==
    ASSUME TypeOK, NEW u \in Users, NEW e \in Entry \cup {None}, SetEntry(u, e)
    PROVE  /\ entry' \in [Users -> Entry \cup {None}]
           /\ heard' \in [Clients -> [Users -> SUBSET Shown]]
           /\ entry'[u] = e
           /\ \A x \in Users \ {u} : entry'[x] = entry[x]
           /\ \A c \in Clients, x \in Users :
                  x # u \/ EffectiveStatus(e) = EffectiveStatus(entry[u]) =>
                      heard'[c][x] = heard[c][x]
<1>1. /\ entry' \in [Users -> Entry \cup {None}]
      /\ entry'[u] = e /\ \A x \in Users \ {u} : entry'[x] = entry[x]
  BY DEF TypeOK, SetEntry
<1>2. CASE EffectiveStatus(e) = EffectiveStatus(entry[u])
  BY <1>1, <1>2 DEF TypeOK, SetEntry
<1>3. CASE EffectiveStatus(e) # EffectiveStatus(entry[u])
  <2>1. heard' = [c \in Clients |-> [heard[c] EXCEPT ![u] = {}]]
    BY <1>3 DEF SetEntry
  <2>2. \A c \in Clients : heard[c] \in [Users -> SUBSET Shown]
    BY DEF TypeOK
  <2>3. \A c \in Clients : [heard[c] EXCEPT ![u] = {}] \in [Users -> SUBSET Shown]
    BY <2>2
  <2>4. heard' \in [Clients -> [Users -> SUBSET Shown]]
    BY <2>1, <2>3
  <2>5. \A c \in Clients, x \in Users : x # u => heard'[c][x] = heard[c][x]
    BY <2>1, <2>2
  <2>6. QED
    BY <1>1, <1>3, <2>4, <2>5
<1>4. QED
  BY <1>2, <1>3

\* A send reaches each of C, or closes its connection; nobody forgets.
LEMMA SendToIs ==
    ASSUME TypeOK, NEW C \in SUBSET Clients, NEW told, DOMAIN told \subseteq Users,
           \A x \in DOMAIN told : told[x] \in Shown, SendTo(C, told)
    PROVE  /\ conn' \in [Clients -> {"new", "handshake", "open", "closed"}]
           /\ heard' \in [Clients -> [Users -> SUBSET Shown]]
           /\ \A c \in Clients : conn'[c] = conn[c] \/ (c \in C /\ conn'[c] = "closed")
           /\ \A c \in Clients, x \in Users : heard[c][x] \subseteq heard'[c][x]
           /\ \A c \in C : conn'[c] = "open" => \A x \in DOMAIN told : told[x] \in heard'[c][x]
<1>1. PICK full \in SUBSET C :
        /\ conn' = [c \in Clients |-> IF c \in full THEN "closed" ELSE conn[c]]
        /\ heard' = [c \in Clients |-> [u \in Users |->
              IF c \in C \ full /\ u \in DOMAIN told THEN heard[c][u] \cup {told[u]}
              ELSE heard[c][u]]]
  BY DEF SendTo
<1>2. conn' \in [Clients -> {"new", "handshake", "open", "closed"}]
  BY <1>1 DEF TypeOK
<1>3. \A c \in Clients : conn'[c] = conn[c] \/ (c \in C /\ conn'[c] = "closed")
  BY <1>1
<1>4. \A c \in Clients, x \in Users :
        heard'[c][x] = IF c \in C \ full /\ x \in DOMAIN told THEN heard[c][x] \cup {told[x]}
                       ELSE heard[c][x]
  BY <1>1
<1>5. \A c \in Clients, x \in Users : heard[c][x] \in SUBSET Shown
  BY DEF TypeOK
<1>6. ASSUME NEW c \in Clients, NEW x \in Users PROVE heard'[c][x] \in SUBSET Shown
  <2>1. CASE c \in C \ full /\ x \in DOMAIN told
    <3>1. heard'[c][x] = heard[c][x] \cup {told[x]} /\ told[x] \in Shown
      BY <1>4, <2>1
    <3>2. QED
      BY <1>5, <3>1
  <2>2. CASE ~(c \in C \ full /\ x \in DOMAIN told)
    BY <1>4, <1>5, <2>2
  <2>3. QED
    BY <2>1, <2>2
<1>7. heard' \in [Clients -> [Users -> SUBSET Shown]]
  BY <1>1, <1>4, <1>6
<1>8. \A c \in C : conn'[c] = "open" => \A x \in DOMAIN told : told[x] \in heard'[c][x]
  BY <1>1, <1>4
<1>9. \A c \in Clients, x \in Users : heard[c][x] \subseteq heard'[c][x]
  BY <1>4
<1>10. QED
  BY <1>2, <1>3, <1>7, <1>8, <1>9

LEMMA BroadcastIs ==
    ASSUME TypeOK, NEW C \in SUBSET Clients, NEW u \in Users, NEW s \in Shown,
           BroadcastPresence(C, u, s)
    PROVE  /\ conn' \in [Clients -> {"new", "handshake", "open", "closed"}]
           /\ heard' \in [Clients -> [Users -> SUBSET Shown]]
           /\ \A c \in Clients : conn'[c] = conn[c] \/ (c \in C /\ conn'[c] = "closed")
           /\ \A c \in Clients, x \in Users : heard[c][x] \subseteq heard'[c][x]
           /\ \A c \in C : conn'[c] = "open" => s \in heard'[c][u]
<1> DEFINE told == [x \in {u} |-> s]
<1>1. DOMAIN told = {u} /\ told[u] = s
  OBVIOUS
<1>2. SendTo(C, told)
  BY DEF BroadcastPresence
<1>3. \A x \in DOMAIN told : x \in Users /\ told[x] \in Shown
  BY <1>1
<1> HIDE DEF told
<1>4. QED
  BY <1>1, <1>2, <1>3, SendToIs

LEMMA CloseIs ==
    ASSUME TypeOK, NEW C, Close(C)
    PROVE  /\ conn' \in [Clients -> {"new", "handshake", "open", "closed"}]
           /\ \A c \in Clients : conn'[c] = IF c \in C THEN "closed" ELSE conn[c]
BY DEF TypeOK, Close

\* One entry changes, and what was heard is forgotten only of a user whose
\* effective status changed.
ChangesOnly(u) ==
    /\ entry' \in [Users -> Entry \cup {None}]
    /\ heard' \in [Clients -> [Users -> SUBSET Shown]]
    /\ \A x \in Users \ {u} : entry'[x] = entry[x]
    /\ \A x \in Users : Effective(x)' = Effective(x) =>
           \A c \in Clients : heard'[c][x] = heard[c][x]

LEMMA SetEntryChangesOnly ==
    ASSUME TypeOK, NEW u \in Users, NEW e \in Entry \cup {None}, SetEntry(u, e)
    PROVE  ChangesOnly(u) /\ entry'[u] = e
<1>1. /\ entry' \in [Users -> Entry \cup {None}]
      /\ heard' \in [Clients -> [Users -> SUBSET Shown]]
      /\ entry'[u] = e
      /\ \A x \in Users \ {u} : entry'[x] = entry[x]
      /\ \A c \in Clients, x \in Users :
             x # u \/ EffectiveStatus(e) = EffectiveStatus(entry[u]) =>
                 heard'[c][x] = heard[c][x]
  BY SetEntryIs
<1>2. ASSUME NEW x \in Users, Effective(x)' = Effective(x), NEW c \in Clients
      PROVE  heard'[c][x] = heard[c][x]
  <2>1. x = u => EffectiveStatus(e) = EffectiveStatus(entry[u])
    BY <1>1, <1>2 DEF Effective
  <2>2. QED
    BY <1>1, <2>1
<1>3. QED
  BY <1>1, <1>2 DEF ChangesOnly

LEMMA EntryFields ==
    ASSUME NEW e \in Entry
    PROVE  /\ e # None /\ e.connections \in Nat /\ e.persisted \in Statuses \cup {None}
           /\ e.autoAway \in BOOLEAN
           /\ \A n \in Nat : [e EXCEPT !.connections = n] \in Entry
           /\ \A s \in Statuses \cup {None} : [e EXCEPT !.persisted = s] \in Entry
           /\ \A a \in BOOLEAN : [e EXCEPT !.autoAway = a] \in Entry
BY Constants DEF Entry

Connections(u) == IF entry[u] = None THEN 0 ELSE entry[u].connections

LEMMA AddConnectionIs ==
    ASSUME TypeOK, NEW u \in Users, NEW p \in Statuses \cup {None}, AddConnection(u, p)
    PROVE  /\ ChangesOnly(u) /\ entry'[u] # None
           /\ Connections(u)' = Connections(u) + 1
           /\ entry[u] # None => Effective(u)' = Effective(u)
           /\ IsAutoAway(u)' => IsAutoAway(u)
<1>1. CASE entry[u] = None
  <2> DEFINE e == [connections |-> 1, persisted |-> p, autoAway |-> FALSE]
  <2>1. e \in Entry /\ e.connections = 1 /\ ~e.autoAway
    BY DEF Entry
  <2>2. SetEntry(u, e)
    BY <1>1 DEF AddConnection
  <2> HIDE DEF e
  <2>3. ChangesOnly(u) /\ entry'[u] = e
    BY <2>1, <2>2, SetEntryChangesOnly
  <2>4. QED
    BY <1>1, <2>1, <2>3, Constants DEF Connections, IsAutoAway
<1>2. CASE entry[u] # None
  <2> DEFINE e == [entry[u] EXCEPT !.connections = @ + 1]
  <2>1. entry[u] \in Entry
    BY <1>2 DEF TypeOK
  <2>2. /\ e \in Entry /\ e.connections = entry[u].connections + 1
        /\ e.persisted = entry[u].persisted /\ e.autoAway = entry[u].autoAway
    BY <2>1 DEF Entry
  <2>3. SetEntry(u, e)
    BY <1>2 DEF AddConnection
  <2> HIDE DEF e
  <2>4. ChangesOnly(u) /\ entry'[u] = e
    BY <2>2, <2>3, SetEntryChangesOnly
  <2>5. QED
    BY <1>2, <2>2, <2>4, Constants DEF Connections, IsAutoAway, Effective, EffectiveStatus
<1>3. QED
  BY <1>1, <1>2

LEMMA RemoveConnectionIs ==
    ASSUME TypeOK, NEW u \in Users, RemoveConnection(u)
    PROVE  /\ ChangesOnly(u)
           /\ entry'[u] # None =>
                  /\ Connections(u)' = Connections(u) - 1 /\ Connections(u)' > 0
                  /\ Effective(u)' = Effective(u)
           /\ entry'[u] = None => Connections(u) <= 1
<1>1. CASE entry[u] = None \/ entry[u].connections <= 1
  <2>1. SetEntry(u, None)
    BY <1>1 DEF RemoveConnection
  <2>2. ChangesOnly(u) /\ entry'[u] = None
    BY <2>1, SetEntryChangesOnly
  <2>3. QED
    BY <1>1, <2>2 DEF Connections
<1>2. CASE ~(entry[u] = None \/ entry[u].connections <= 1)
  <2> DEFINE e == [entry[u] EXCEPT !.connections = @ - 1]
  <2>1. entry[u] \in Entry
    BY <1>2 DEF TypeOK
  <2>2. entry[u].connections \in Nat /\ entry[u].connections > 1
    BY <1>2, <2>1 DEF Entry
  <2>3. /\ e \in Entry /\ e.connections = entry[u].connections - 1
        /\ e.persisted = entry[u].persisted /\ e.autoAway = entry[u].autoAway
    BY <2>1, <2>2 DEF Entry
  <2>4. SetEntry(u, e)
    BY <1>2 DEF RemoveConnection
  <2> HIDE DEF e
  <2>5. ChangesOnly(u) /\ entry'[u] = e
    BY <2>3, <2>4, SetEntryChangesOnly
  <2>6. QED
    BY <1>2, <2>2, <2>3, <2>5, Constants DEF Connections, Effective, EffectiveStatus
<1>3. QED
  BY <1>1, <1>2

LEMMA SetAutoAwayIs ==
    ASSUME TypeOK, NEW u \in Users, NEW away \in BOOLEAN, SetAutoAway(u, away)
    PROVE  /\ ChangesOnly(u)
           /\ (entry'[u] = None) <=> (entry[u] = None)
           /\ Connections(u)' = Connections(u)
           /\ IsAutoAway(u)' => away
           /\ Effective(u)' # Effective(u) /\ ~away => IsAutoAway(u) /\ Effective(u)' = "online"
<1>1. CASE entry[u] = None
  <2>1. SetEntry(u, None)
    BY <1>1 DEF SetAutoAway
  <2>2. ChangesOnly(u) /\ entry'[u] = None
    BY <2>1, SetEntryChangesOnly
  <2>3. QED
    BY <1>1, <2>2 DEF Connections, IsAutoAway, Effective
<1>2. CASE entry[u] # None
  <2> DEFINE e == [entry[u] EXCEPT !.autoAway = away]
  <2>1. entry[u] \in Entry
    BY <1>2 DEF TypeOK
  <2>2. /\ e \in Entry /\ e.connections = entry[u].connections
        /\ e.persisted = entry[u].persisted /\ e.autoAway = away
    BY <2>1 DEF Entry
  <2>3. SetEntry(u, e)
    BY <1>2 DEF SetAutoAway
  <2> HIDE DEF e
  <2>4. ChangesOnly(u) /\ entry'[u] = e
    BY <2>2, <2>3, SetEntryChangesOnly
  <2>5. entry'[u] # None /\ Connections(u)' = Connections(u) /\ (IsAutoAway(u)' <=> away)
    BY <1>2, <2>2, <2>4, Constants DEF Connections, IsAutoAway
  <2>6. Effective(u)' # Effective(u) /\ ~away => IsAutoAway(u) /\ Effective(u)' = "online"
    BY <1>2, <2>2, <2>4, <2>5 DEF IsAutoAway, Effective, EffectiveStatus
  <2>7. QED
    BY <1>2, <2>4, <2>5, <2>6
<1>3. QED
  BY <1>1, <1>2

LEMMA SetPersistedStatusIs ==
    ASSUME TypeOK, NEW u \in Users, NEW s \in Statuses \cup {None}, SetPersistedStatus(u, s)
    PROVE  /\ ChangesOnly(u)
           /\ (entry'[u] = None) <=> (entry[u] = None)
           /\ Connections(u)' = Connections(u)
           /\ IsAutoAway(u)' => IsAutoAway(u)
<1>1. CASE entry[u] = None
  <2>1. SetEntry(u, None)
    BY <1>1 DEF SetPersistedStatus
  <2>2. ChangesOnly(u) /\ entry'[u] = None
    BY <2>1, SetEntryChangesOnly
  <2>3. QED
    BY <1>1, <2>2 DEF Connections, IsAutoAway
<1>2. CASE entry[u] # None
  <2> DEFINE e == [entry[u] EXCEPT !.persisted = s]
  <2>1. entry[u] \in Entry
    BY <1>2 DEF TypeOK
  <2>2. e \in Entry /\ e.connections = entry[u].connections /\ e.autoAway = entry[u].autoAway
    BY <2>1 DEF Entry
  <2>3. SetEntry(u, e)
    BY <1>2 DEF SetPersistedStatus
  <2> HIDE DEF e
  <2>4. ChangesOnly(u) /\ entry'[u] = e
    BY <2>2, <2>3, SetEntryChangesOnly
  <2>5. QED
    BY <1>2, <2>2, <2>4, Constants DEF Connections, IsAutoAway
<1>3. QED
  BY <1>1, <1>2

-----------------------------------------------------------------------------
(***************************************************************************)
(* Typing.                                                                 *)
(***************************************************************************)
Ats == {"select", "previous", "add", "wake", "current", "announce", "members", "sync", "remove",
        "offline", "away", "change", "read", "tell", "cut", "stopped"}
HubType == [at : Ats, client : Clients \cup {None}, user : Users \cup {None},
            status : Shown \cup {None}, told : [Users -> Shown],
            todo : SUBSET Users, idle : SUBSET Users]
ReqType == [at : {"new", "set", "wake", "read", "tell", "done"},
            user : Users \cup {None}, status : Shown \cup {None}]

USE DEF clientVars, dbVars

LEMMA HubFields ==
    ASSUME NEW h \in HubType, NEW at \in Ats
    PROVE  /\ [h EXCEPT !.at = at] \in HubType
           /\ \A s \in Shown \cup {None} : [h EXCEPT !.at = at, !.status = s] \in HubType
           /\ \A c \in Clients, u \in Users : [h EXCEPT !.at = at, !.client = c, !.user = u] \in HubType
           /\ \A u \in Users \cup {None} : [h EXCEPT !.at = at, !.user = u] \in HubType
           /\ \A t \in [Users -> Shown] : [h EXCEPT !.at = at, !.told = t] \in HubType
           /\ \A td \in SUBSET Users : [h EXCEPT !.todo = td] \in HubType
           /\ \A td, id \in SUBSET Users : [h EXCEPT !.at = at, !.todo = td, !.idle = id] \in HubType
           /\ \A td \in SUBSET Users, u \in Users :
                  [h EXCEPT !.at = at, !.user = u, !.todo = td] \in HubType
           /\ \A td \in SUBSET Users : [h EXCEPT !.at = at, !.todo = td] \in HubType
           /\ [h EXCEPT !.at = at, !.user = None, !.status = None] \in HubType
<1>1. at \in Ats
  OBVIOUS
<1> HIDE DEF Ats
<1>2. QED
  BY <1>1 DEF HubType

LEMMA HubTyped ==
    ASSUME TypeOK
    PROVE  /\ hub \in HubType /\ Select \in HubType
           /\ \A at \in Ats : [hub EXCEPT !.at = at] \in HubType
           /\ req \in [Requests -> ReqType]
           /\ entry \in [Users -> Entry \cup {None}]
           /\ \A u \in Users : Effective(u) \in Shown
           /\ userOf \in [Clients -> Users]
<1>1. hub \in HubType /\ req \in [Requests -> ReqType] /\ entry \in [Users -> Entry \cup {None}]
  BY DEF TypeOK, HubType, Ats, ReqType
<1>2. Select \in HubType
  BY DEF Select, HubType, Ats, Shown
<1>3. \A at \in Ats : [hub EXCEPT !.at = at] \in HubType
  BY <1>1 DEF HubType
<1>4. \A u \in Users : Effective(u) \in Shown
  BY <1>1, EffectiveStatusType DEF Effective
<1>5. userOf \in [Clients -> Users]
  BY Constants DEF TypeOK
<1>6. QED
  BY <1>1, <1>2, <1>3, <1>4, <1>5

\* It is enough to look at what a step touches.
Rest ==
    /\ recent \subseteq Clients
    /\ status \in [Users -> Statuses \cup {None}]
    /\ session \subseteq Users /\ events \in 0 .. MaxEvents
    /\ userOf \in Owners
    /\ life \in {"up", "flagged", "closing", "stopped"}
Links ==
    /\ clients \subseteq Clients
    /\ conn \in [Clients -> {"new", "handshake", "open", "closed"}]
    /\ pump \in [Clients -> {"off", "reads", "wakes", "tells", "leaves", "gone"}]
    /\ loaded \in [Clients -> Statuses \cup {None}]
    /\ held \in [Clients -> Shown \cup {None}]
Known ==
    /\ entry \in [Users -> Entry \cup {None}]
    /\ heard \in [Clients -> [Users -> SUBSET Shown]]
Working == hub \in HubType /\ req \in [Requests -> ReqType]

LEMMA TypeParts == TypeOK <=> Rest /\ Links /\ Known /\ Working
BY DEF TypeOK, Rest, Links, Known, Working, HubType, ReqType, Ats

LEMMA TypePartsNext == Rest' /\ Links' /\ Known' /\ Working' => TypeOK'
BY DEF TypeOK, Rest, Links, Known, Working, HubType, ReqType, Ats

LEMMA RunTypes ==
    ASSUME TypeOK, RunKnowsWhom, Run
    PROVE  TypeOK'
<1>1. Rest /\ Links /\ Known /\ Working
  BY TypeParts
<1>2. Rest'
  BY <1>1 DEF Rest, Run, PreviousStatus, Add, FreshConnection, CurrentStatus, Announce, OnlineMembers,
              PresenceSync, PresenceOffline, TellOffline, ChangeAway, ReadAway, TellAway, AwayDone,
              DisconnectRevokedUsers, RunReturns, CheckAway
<1>3. req' \in [Requests -> ReqType]
  BY <1>1 DEF Working, Run, PreviousStatus, Add, FreshConnection, CurrentStatus, Announce, OnlineMembers,
              PresenceSync, PresenceOffline, TellOffline, ChangeAway, ReadAway, TellAway, AwayDone,
              DisconnectRevokedUsers, RunReturns, CheckAway
<1>a. /\ hub \in HubType /\ Select \in HubType /\ hub.status \in Shown \cup {None}
      /\ hub.todo \in SUBSET Users /\ hub.told \in [Users -> Shown]
  BY HubTyped DEF HubType
<1>b. \A at \in Ats : [hub EXCEPT !.at = at] \in HubType
  BY HubTyped
<1>4. CASE PreviousStatus
  <2>1. hub.user \in Users
    BY <1>4 DEF PreviousStatus, RunKnowsWhom, Registers
  <2>2. EffectiveStatus(entry[hub.user]) \in Shown /\ "add" \in Ats
    BY <2>1, HubTyped DEF Effective, Ats
  <2>3. hub' \in HubType
    BY <1>a, <1>4, <2>2, HubFields DEF PreviousStatus
  <2>4. QED
    BY <1>1, <1>2, <1>3, <1>4, <2>3, TypePartsNext DEF PreviousStatus, Links, Known, Working
<1>5. CASE Add
  <2>1. hub.user \in Users /\ hub.client \in Clients /\ loaded[hub.client] \in Statuses \cup {None}
    BY <1>1, <1>5 DEF Add, RunKnowsWhom, Registers, Links
  <2>2. Known'
    BY <1>5, <2>1, AddConnectionIs DEF Add, ChangesOnly, Known
  <2>3. hub' \in HubType
    <3>1. "wake" \in Ats /\ (IF entry[hub.user] = None THEN None ELSE hub.status) \in Shown \cup {None}
      BY <1>a DEF Ats
    <3>2. QED
      BY <1>a, <1>5, <3>1, HubFields DEF Add
  <2>4. loaded' \in [Clients -> Statuses \cup {None}]
    BY <1>1, <1>5 DEF Add, Links
  <2>5. QED
    BY <1>1, <1>2, <1>3, <1>5, <2>2, <2>3, <2>4, TypePartsNext DEF Add, Links, Working
<1>6. CASE FreshConnection
  <2>1. hub.user \in Users
    BY <1>6 DEF FreshConnection, RunKnowsWhom, Registers
  <2>2. Known'
    BY <1>6, <2>1, SetAutoAwayIs DEF FreshConnection, ChangesOnly, Known
  <2>3. hub' \in HubType
    BY <1>6, <1>b DEF FreshConnection, Goes, Ats
  <2>4. QED
    BY <1>1, <1>2, <1>3, <1>6, <2>2, <2>3, TypePartsNext DEF FreshConnection, Links, Working
<1>7. CASE CurrentStatus
  <2>1. hub.user \in Users
    BY <1>7 DEF CurrentStatus, RunKnowsWhom, Registers
  <2> DEFINE now == EffectiveStatus(entry[hub.user])
             at == IF hub.status # now THEN "announce" ELSE "members"
             s == IF hub.status # now THEN now ELSE None
  <2>2. now \in Shown
    BY <2>1, HubTyped DEF Effective
  <2>3. at \in Ats /\ s \in Shown \cup {None}
    BY <2>2 DEF Ats
  <2>4. hub' = [hub EXCEPT !.at = at, !.status = s]
    BY <1>7 DEF CurrentStatus
  <2> HIDE DEF at, s
  <2>5. hub' \in HubType
    BY <1>a, <2>3, <2>4, HubFields
  <2>6. QED
    BY <1>1, <1>2, <1>3, <1>7, <2>5, TypePartsNext DEF CurrentStatus, Links, Known, Working
<1>8. CASE Announce
  <2>1. hub.user \in Users /\ hub.status \in Shown
    BY <1>a, <1>8 DEF Announce, RunKnowsWhom, Registers
  <2>2. clients \ {hub.client} \in SUBSET Clients
    BY <1>1 DEF Links
  <2>3. Known' /\ conn' \in [Clients -> {"new", "handshake", "open", "closed"}]
    BY <1>1, <1>8, <2>1, <2>2, BroadcastIs DEF Announce, Known
  <2>4. hub' \in HubType
    <3>1. "members" \in Ats /\ None \in Shown \cup {None}
      BY DEF Ats
    <3>2. QED
      BY <1>a, <1>8, <3>1, HubFields DEF Announce
  <2>5. QED
    BY <1>1, <1>2, <1>3, <1>8, <2>3, <2>4, TypePartsNext DEF Announce, Links, Working
<1>9. CASE OnlineMembers
  <2>1. [u \in Users |-> EffectiveStatus(entry[u])] \in [Users -> Shown] /\ "sync" \in Ats
    BY HubTyped DEF Effective, Ats
  <2>2. hub' \in HubType
    BY <1>a, <1>9, <2>1, HubFields DEF OnlineMembers
  <2>3. QED
    BY <1>1, <1>2, <1>3, <1>9, <2>2, TypePartsNext DEF OnlineMembers, Links, Known, Working
<1>10. CASE PresenceSync
  <2>1. {hub.client} \in SUBSET Clients
    BY <1>1, <1>10 DEF PresenceSync, RunKnowsWhom, Registers, Links
  <2>2. DOMAIN hub.told = Users /\ \A x \in Users : hub.told[x] \in Shown
    BY <1>a
  <2>3. Known' /\ conn' \in [Clients -> {"new", "handshake", "open", "closed"}]
    BY <1>1, <1>10, <2>1, <2>2, SendToIs DEF PresenceSync, Known
  <2>4. QED
    BY <1>1, <1>2, <1>3, <1>a, <1>10, <2>3, TypePartsNext DEF PresenceSync, Links, Working
<1>11. CASE PresenceOffline
  <2>1. hub.user \in Users
    BY <1>11 DEF PresenceOffline, RunKnowsWhom
  <2>2. Known'
    BY <1>11, <2>1, RemoveConnectionIs DEF PresenceOffline, ChangesOnly, Known
  <2>3. hub' \in HubType
    BY <1>a, <1>b, <1>11 DEF PresenceOffline, Ats
  <2>4. QED
    BY <1>1, <1>2, <1>3, <1>11, <2>2, <2>3, TypePartsNext DEF PresenceOffline, Links, Working
<1>12. CASE TellOffline
  <2>1. hub.user \in Users /\ "offline" \in Shown /\ clients \in SUBSET Clients
    BY <1>1, <1>12 DEF TellOffline, RunKnowsWhom, Shown, Links
  <2>2. Known' /\ conn' \in [Clients -> {"new", "handshake", "open", "closed"}]
    BY <1>1, <1>12, <2>1, BroadcastIs DEF TellOffline, Known
  <2>3. QED
    BY <1>1, <1>2, <1>3, <1>a, <1>12, <2>2, TypePartsNext DEF TellOffline, Links, Working
<1>13. CASE ChangeAway
  <2>1. hub.user \in Users /\ (hub.user \in hub.idle) \in BOOLEAN
    BY <1>13 DEF ChangeAway, RunKnowsWhom
  <2>2. Known'
    BY <1>13, <2>1, SetAutoAwayIs DEF ChangeAway, ChangesOnly, Known
  <2>3. hub' \in HubType
    BY <1>13, <1>b DEF ChangeAway, Goes, Ats
  <2>4. QED
    BY <1>1, <1>2, <1>3, <1>13, <2>2, <2>3, TypePartsNext DEF ChangeAway, Links, Working
<1>14. CASE ReadAway
  <2>1. hub.user \in Users
    BY <1>14 DEF ReadAway, RunKnowsWhom
  <2>2. EffectiveStatus(entry[hub.user]) \in Shown /\ "tell" \in Ats
    BY <2>1, HubTyped DEF Effective, Ats
  <2>3. hub' \in HubType
    BY <1>a, <1>14, <2>2, HubFields DEF ReadAway
  <2>4. QED
    BY <1>1, <1>2, <1>3, <1>14, <2>3, TypePartsNext DEF ReadAway, Links, Known, Working
<1>15. CASE TellAway
  <2>1. hub.user \in Users /\ hub.status \in Shown /\ clients \in SUBSET Clients
    BY <1>a, <1>1, <1>15 DEF TellAway, RunKnowsWhom, Links
  <2>2. Known' /\ conn' \in [Clients -> {"new", "handshake", "open", "closed"}]
    BY <1>1, <1>15, <2>1, BroadcastIs DEF TellAway, Known
  <2>3. hub' \in HubType
    <3>1. "away" \in Ats
      BY DEF Ats
    <3>2. QED
      BY <1>a, <1>15, <3>1, HubFields DEF TellAway
  <2>4. QED
    BY <1>1, <1>2, <1>3, <1>15, <2>2, <2>3, TypePartsNext DEF TellAway, Links, Working
<1>16. CASE AwayDone
  BY <1>1, <1>2, <1>3, <1>a, <1>16, TypePartsNext DEF AwayDone, Links, Known, Working
<1>17. CASE DisconnectRevokedUsers
  <2>1. conn' \in [Clients -> {"new", "handshake", "open", "closed"}]
    BY <1>17, CloseIs DEF DisconnectRevokedUsers
  <2>2. QED
    BY <1>1, <1>2, <1>3, <1>a, <1>17, <2>1, TypePartsNext
       DEF DisconnectRevokedUsers, Links, Known, Working
<1>18. CASE RunReturns
  <2>1. hub' \in HubType
    BY <1>18, <1>b DEF RunReturns, Goes, Ats
  <2>2. QED
    BY <1>1, <1>2, <1>3, <1>18, <2>1, TypePartsNext DEF RunReturns, Links, Known, Working
<1>19. ASSUME NEW u \in Users, CheckAway(u) PROVE TypeOK'
  <2>1. hub.todo \ {u} \in SUBSET Users /\ "change" \in Ats
    BY <1>a DEF Ats
  <2>2. hub' \in HubType
    <3> DEFINE rest == hub.todo \ {u}
    <3>1. \/ hub' = [hub EXCEPT !.todo = rest]
          \/ hub' = [hub EXCEPT !.at = "change", !.user = u, !.todo = rest]
      BY <1>19 DEF CheckAway
    <3>2. rest \in SUBSET Users
      BY <2>1
    <3> HIDE DEF rest
    <3>3. [hub EXCEPT !.todo = rest] \in HubType
      BY <1>a, <2>1, <3>2, HubFields
    <3>4. [hub EXCEPT !.at = "change", !.user = u, !.todo = rest] \in HubType
      BY <1>a, <2>1, <3>2, HubFields
    <3>5. QED
      BY <3>1, <3>3, <3>4
  <2>3. QED
    BY <1>1, <1>2, <1>3, <1>19, <2>2, TypePartsNext DEF CheckAway, Links, Known, Working
<1>20. QED
  BY <1>4, <1>5, <1>6, <1>7, <1>8, <1>9, <1>10, <1>11, <1>12, <1>13, <1>14, <1>15, <1>16, <1>17,
     <1>18, <1>19 DEF Run

LEMMA SelectTypes ==
    ASSUME TypeOK, Tick \/ \E c \in Clients : Accept(c)
    PROVE  TypeOK'
<1>1. Rest /\ Links /\ Known /\ Working /\ hub \in HubType /\ Select \in HubType
  BY TypeParts, HubTyped
<1>2. userOf \in [Clients -> Users]
  BY HubTyped
<1>3. CASE AutoAwayTick /\ UNCHANGED <<userOf, events>>
  <2> DEFINE seen == {userOf[c] : c \in clients}
             idle == seen \ {userOf[c] : c \in clients \cap recent}
  <2>1. seen \in SUBSET Users /\ idle \in SUBSET Users /\ "away" \in Ats
    BY <1>1, <1>2 DEF Links, Ats
  <2>2. hub' = [Select EXCEPT !.at = "away", !.todo = seen, !.idle = idle]
    BY <1>3 DEF AutoAwayTick
  <2> HIDE DEF seen, idle
  <2>3. hub' \in HubType
    BY <1>1, <2>1, <2>2, HubFields
  <2>4. QED
    BY <1>1, <1>3, <2>3, TypePartsNext DEF AutoAwayTick, Rest, Links, Known, Working
<1>4. CASE ListUsersWithActiveConnections /\ UNCHANGED <<userOf, events>>
  <2> DEFINE out == {userOf[c] : c \in clients} \ session
  <2>1. out \in SUBSET Users /\ "cut" \in Ats
    BY <1>1, <1>2 DEF Links, Ats
  <2>2. hub' = [Select EXCEPT !.at = "cut", !.todo = out]
    BY <1>4 DEF ListUsersWithActiveConnections
  <2> HIDE DEF out
  <2>3. hub' \in HubType
    BY <1>1, <2>1, <2>2, HubFields
  <2>4. QED
    BY <1>1, <1>4, <2>3, TypePartsNext DEF ListUsersWithActiveConnections, Rest, Links, Known, Working
<1>5. ASSUME NEW c \in Clients, Register(c), UNCHANGED <<userOf, events>> PROVE TypeOK'
  <2>1. Links'
    BY <1>1, <1>5 DEF Register, Links
  <2>2. hub' \in HubType
    <3>1. userOf[c] \in Users /\ "previous" \in Ats
      BY <1>2 DEF Ats
    <3>2. [hub EXCEPT !.at = "previous", !.client = c, !.user = userOf[c]] \in HubType
      BY <1>1, <3>1, HubFields
    <3>3. QED
      BY <1>1, <1>5, <3>2 DEF Register
  <2>3. QED
    BY <1>1, <1>5, <2>1, <2>2, TypePartsNext DEF Register, Rest, Known, Working
<1>6. ASSUME NEW c \in Clients, Unregister(c), UNCHANGED <<userOf, events>> PROVE TypeOK'
  <2>1. Links'
    BY <1>1, <1>6 DEF Unregister, Links
  <2>2. hub' \in HubType
    <3>1. userOf[c] \in Users \cup {None} /\ "remove" \in Ats
      BY <1>2 DEF Ats
    <3>2. [hub EXCEPT !.at = "remove", !.user = userOf[c]] \in HubType
      BY <1>1, <3>1, HubFields
    <3>3. QED
      BY <1>1, <1>6, <3>2 DEF Unregister
  <2>3. Known'
    <3>1. [u \in Users |-> {}] \in [Users -> SUBSET Shown]
      OBVIOUS
    <3>2. heard' = [heard EXCEPT ![c] = [u \in Users |-> {}]] /\ entry' = entry
      BY <1>6 DEF Unregister
    <3>3. QED
      BY <1>1, <3>1, <3>2 DEF Known
  <2>4. Rest'
    BY <1>1, <1>6 DEF Unregister, Rest
  <2>5. QED
    BY <1>1, <1>6, <2>1, <2>2, <2>3, <2>4, TypePartsNext DEF Unregister, Working
<1>7. QED
  BY <1>3, <1>4, <1>5, <1>6 DEF Tick, Accept

LEMMA ReadPumpTypes ==
    ASSUME TypeOK, NEW c \in Clients, ReadPump(c) \/ Connection(c)
    PROVE  TypeOK'
<1>1. Rest /\ Links /\ Known /\ Working /\ userOf[c] \in Users
  BY TypeParts, HubTyped
<1>2. Rest' /\ Working'
  BY <1>1 DEF Rest, Working, ReadPump, Connection, WebSocketHandler, WakeUp, ReadAwake, TellAwake,
              ReadPumpEnds
<1>3. CASE WebSocketHandler(c)
  <2>1. status[userOf[c]] \in Statuses \cup {None}
    BY <1>1 DEF Rest
  <2>2. QED
    BY <1>1, <1>2, <1>3, <2>1, TypePartsNext DEF WebSocketHandler, Links, Known
<1>4. CASE WakeUp(c)
  <2>1. Known'
    BY <1>1, <1>4, SetAutoAwayIs DEF WakeUp, ChangesOnly, Known
  <2>2. QED
    BY <1>1, <1>2, <1>4, <2>1, TypePartsNext DEF WakeUp, Links
<1>5. CASE ReadAwake(c)
  <2>1. EffectiveStatus(entry[userOf[c]]) \in Shown
    BY <1>1, HubTyped DEF Effective
  <2>2. QED
    BY <1>1, <1>2, <1>5, <2>1, TypePartsNext DEF ReadAwake, Links, Known
<1>6. CASE TellAwake(c)
  <2>1. held[c] \in Shown /\ clients \in SUBSET Clients
    BY <1>1, <1>6 DEF TellAwake, Links
  <2>2. Known' /\ conn' \in [Clients -> {"new", "handshake", "open", "closed"}]
    BY <1>1, <1>6, <2>1, BroadcastIs DEF TellAwake, Known
  <2>3. QED
    BY <1>1, <1>2, <1>6, <2>2, TypePartsNext DEF TellAwake, Links
<1>7. CASE ReadPumpEnds(c)
  BY <1>1, <1>2, <1>7, TypePartsNext DEF ReadPumpEnds, Links, Known
<1>8. QED
  BY <1>3, <1>4, <1>5, <1>6, <1>7 DEF ReadPump, Connection

LEMMA HandlerTypes ==
    ASSUME TypeOK, RequestsKnowWhom, NEW r \in Requests, Handler(r)
    PROVE  TypeOK'
<1>1. Rest /\ Links /\ Known /\ Working /\ req[r] \in ReqType
  BY TypeParts DEF Working
<1>2. Rest' /\ hub' \in HubType
  BY <1>1 DEF Rest, Working, Handler, UpdatePersistedStatus, StatusIsActivity, ReadStatus, TellStatus
<1>3. CASE UpdatePersistedStatus(r)
  <2>1. req[r].user \in Users /\ req[r].status \in Statuses \cup {None}
    BY <1>3 DEF UpdatePersistedStatus, RequestsKnowWhom
  <2>2. Known'
    BY <1>3, <2>1, SetPersistedStatusIs DEF UpdatePersistedStatus, ChangesOnly, Known
  <2>3. req' \in [Requests -> ReqType]
    BY <1>1, <1>3 DEF UpdatePersistedStatus, Working, ReqType
  <2>4. QED
    BY <1>1, <1>2, <1>3, <2>2, <2>3, TypePartsNext DEF UpdatePersistedStatus, Links, Working
<1>4. CASE StatusIsActivity(r)
  <2>1. req[r].user \in Users
    BY <1>4 DEF StatusIsActivity, RequestsKnowWhom
  <2>2. Known'
    BY <1>4, <2>1, SetAutoAwayIs DEF StatusIsActivity, ChangesOnly, Known
  <2>3. req' \in [Requests -> ReqType]
    BY <1>1, <1>4 DEF StatusIsActivity, Working, ReqType
  <2>4. QED
    BY <1>1, <1>2, <1>4, <2>2, <2>3, TypePartsNext DEF StatusIsActivity, Links, Working
<1>5. CASE ReadStatus(r)
  <2>1. req[r].user \in Users
    BY <1>5 DEF ReadStatus, RequestsKnowWhom
  <2>2. EffectiveStatus(entry[req[r].user]) \in Shown
    BY <2>1, HubTyped DEF Effective
  <2>3. req' \in [Requests -> ReqType]
    BY <1>1, <1>5, <2>2 DEF ReadStatus, Working, ReqType
  <2>4. QED
    BY <1>1, <1>2, <1>5, <2>3, TypePartsNext DEF ReadStatus, Links, Known, Working
<1>6. CASE TellStatus(r)
  <2>1. req[r].user \in Users /\ req[r].status \in Shown /\ clients \in SUBSET Clients
    BY <1>1, <1>6 DEF TellStatus, RequestsKnowWhom, ReqType, Links
  <2>2. Known' /\ conn' \in [Clients -> {"new", "handshake", "open", "closed"}]
    BY <1>1, <1>6, <2>1, BroadcastIs DEF TellStatus, Known
  <2>3. req' \in [Requests -> ReqType]
    BY <1>1, <1>6 DEF TellStatus, Working, ReqType
  <2>4. QED
    BY <1>1, <1>2, <1>6, <2>2, <2>3, TypePartsNext DEF TellStatus, Links, Working
<1>7. QED
  BY <1>3, <1>4, <1>5, <1>6 DEF Handler

LEMMA OutsideTypes ==
    ASSUME TypeOK, Shutdown \/ Outside
    PROVE  TypeOK'
<1>1. Rest /\ Links /\ Known /\ Working
  BY TypeParts
<1>2. CASE Shutdown
  <2>1. CASE Flag
    BY <1>1, <1>2, <2>1, TypePartsNext DEF Shutdown, Flag, Rest, Links, Known, Working
  <2>2. CASE CloseAll
    <3>1. conn' \in [Clients -> {"new", "handshake", "open", "closed"}]
      BY <2>2, CloseIs DEF CloseAll
    <3>2. QED
      BY <1>1, <1>2, <2>2, <3>1, TypePartsNext DEF Shutdown, CloseAll, Rest, Links, Known, Working
  <2>3. CASE Stop
    BY <1>1, <1>2, <2>3, TypePartsNext DEF Shutdown, Stop, Rest, Links, Known, Working
  <2>4. QED
    BY <1>2, <2>1, <2>2, <2>3 DEF Shutdown
<1>3. CASE Outside
  <2>0. userOf' = userOf /\ events' \in 0 .. MaxEvents
    BY <1>1, <1>3, Constants DEF Outside, Rest
  <2>1. ASSUME NEW c \in Clients, ConnectionLost(c) \/ GoesIdle(c) \/ MarkActivity(c) PROVE TypeOK'
    BY <1>1, <2>0, <2>1, TypePartsNext
       DEF ConnectionLost, GoesIdle, MarkActivity, Rest, Links, Known, Working
  <2>2. ASSUME NEW u \in Users, SessionEnds(u) \/ Login(u) PROVE TypeOK'
    BY <1>1, <2>0, <2>2, TypePartsNext DEF SessionEnds, Login, Rest, Links, Known, Working
  <2>3. ASSUME NEW u \in Users, DisconnectUser(u) PROVE TypeOK'
    <3>1. conn' \in [Clients -> {"new", "handshake", "open", "closed"}]
      BY <2>3, CloseIs DEF DisconnectUser
    <3>2. QED
      BY <1>1, <2>0, <2>3, <3>1, TypePartsNext DEF DisconnectUser, Rest, Links, Known, Working
  <2>4. ASSUME NEW r \in Requests, NEW u \in Users, UpdateStatusMessage(r, u) PROVE TypeOK'
    <3>1. req' \in [Requests -> ReqType]
      BY <1>1, <2>4 DEF UpdateStatusMessage, Working, ReqType
    <3>2. QED
      BY <1>1, <2>0, <2>4, <3>1, TypePartsNext DEF UpdateStatusMessage, Rest, Links, Known, Working
  <2>5. ASSUME NEW r \in Requests, NEW u \in Users, NEW s \in Statuses \cup {None}, UpdateStatus(r, u, s)
        PROVE  TypeOK'
    <3>1. req' \in [Requests -> ReqType]
      BY <1>1, <2>5 DEF UpdateStatus, Working, ReqType, Shown
    <3>2. QED
      BY <1>1, <2>0, <2>5, <3>1, TypePartsNext DEF UpdateStatus, Rest, Links, Known, Working
  <2>6. QED
    BY <1>3, <2>1, <2>2, <2>3, <2>4, <2>5 DEF Outside
<1>4. QED
  BY <1>2, <1>3

LEMMA TypeStep ==
    ASSUME TypeOK, RunKnowsWhom, RequestsKnowWhom, [Next]_vars
    PROVE  TypeOK'
<1>1. CASE UNCHANGED vars
  BY <1>1 DEF TypeOK, vars, systemVars
<1>2. QED
  BY <1>1, RunTypes, SelectTypes, ReadPumpTypes, HandlerTypes, OutsideTypes DEF Next

-----------------------------------------------------------------------------
(***************************************************************************)
(* Connections.                                                            *)
(***************************************************************************)
\* What happens to connections while nobody is registered or unregistered: one is
\* opened by its handler, registered ones are closed, closed ones are left.
ConnectionMoves ==
    /\ clients' = clients
    /\ \A c \in Clients :
          \/ conn'[c] = conn[c]
          \/ conn[c] = "new" /\ conn'[c] = "handshake"
          \/ (c \in clients \/ conn[c] = "open") /\ conn'[c] = "closed"
    /\ \A c \in Clients :
          /\ pump'[c] # "off" => pump[c] # "off"
          /\ pump'[c] = "leaves" => pump[c] = "leaves" \/ conn'[c] = "closed"

LEMMA RunMoves ==
    ASSUME TypeOK, RunKnowsWhom, Run
    PROVE  ConnectionMoves /\ life' = life
<1>1. life' = life /\ clients' = clients /\ pump' = pump
  BY DEF Run, PreviousStatus, Add, FreshConnection, CurrentStatus, Announce, OnlineMembers,
              PresenceSync, PresenceOffline, TellOffline, ChangeAway, ReadAway, TellAway, AwayDone,
              DisconnectRevokedUsers, RunReturns, CheckAway
<1>2. clients \in SUBSET Clients /\ clients \ {hub.client} \in SUBSET Clients
  BY DEF TypeOK
<1>3. hub \in HubType /\ hub.status \in Shown \cup {None}
  BY HubTyped DEF HubType
<1>4. CASE Announce
  <2>1. hub.user \in Users /\ hub.status \in Shown
    BY <1>3, <1>4 DEF Announce, RunKnowsWhom, Registers
  <2>2. \A c \in Clients : conn'[c] = conn[c] \/ (c \in clients /\ conn'[c] = "closed")
    BY <1>2, <1>4, <2>1, BroadcastIs DEF Announce
  <2>3. QED
    BY <1>1, <2>2 DEF ConnectionMoves
<1>5. CASE PresenceSync
  <2>1. hub.client \in clients /\ {hub.client} \in SUBSET Clients
    BY <1>2, <1>5 DEF PresenceSync, RunKnowsWhom, Registers
  <2>2. DOMAIN hub.told = Users /\ \A x \in Users : hub.told[x] \in Shown
    BY <1>3 DEF HubType
  <2>3. \A c \in Clients : conn'[c] = conn[c] \/ (c \in {hub.client} /\ conn'[c] = "closed")
    BY <1>5, <2>1, <2>2, SendToIs DEF PresenceSync
  <2>4. QED
    BY <1>1, <2>1, <2>3 DEF ConnectionMoves
<1>6. CASE TellOffline
  <2>1. hub.user \in Users /\ "offline" \in Shown
    BY <1>6 DEF TellOffline, RunKnowsWhom, Shown
  <2>2. \A c \in Clients : conn'[c] = conn[c] \/ (c \in clients /\ conn'[c] = "closed")
    BY <1>2, <1>6, <2>1, BroadcastIs DEF TellOffline
  <2>3. QED
    BY <1>1, <2>2 DEF ConnectionMoves
<1>7. CASE TellAway
  <2>1. hub.user \in Users /\ hub.status \in Shown
    BY <1>3, <1>7 DEF TellAway, RunKnowsWhom
  <2>2. \A c \in Clients : conn'[c] = conn[c] \/ (c \in clients /\ conn'[c] = "closed")
    BY <1>2, <1>7, <2>1, BroadcastIs DEF TellAway
  <2>3. QED
    BY <1>1, <2>2 DEF ConnectionMoves
<1>8. CASE DisconnectRevokedUsers
  <2>1. \A c \in Clients : conn'[c] = IF c \in {d \in clients : userOf[d] \in hub.todo} THEN "closed"
                                      ELSE conn[c]
    BY <1>8, CloseIs DEF DisconnectRevokedUsers
  <2>2. QED
    BY <1>1, <2>1 DEF ConnectionMoves
<1>9. CASE UNCHANGED conn
  BY <1>1, <1>9 DEF ConnectionMoves
<1>10. QED
  BY <1>4, <1>5, <1>6, <1>7, <1>8, <1>9
     DEF Run, PreviousStatus, Add, FreshConnection, CurrentStatus, OnlineMembers,
         PresenceOffline, ChangeAway, ReadAway, AwayDone, RunReturns, CheckAway

LEMMA PumpMoves ==
    ASSUME TypeOK, NEW c \in Clients, ReadPump(c) \/ Connection(c)
    PROVE  ConnectionMoves /\ life' = life
<1>1. life' = life /\ clients' = clients
  BY DEF ReadPump, Connection, WebSocketHandler, WakeUp, ReadAwake, TellAwake, ReadPumpEnds
<1>2. pump \in [Clients -> {"off", "reads", "wakes", "tells", "leaves", "gone"}] /\ userOf[c] \in Users
  BY HubTyped DEF TypeOK
<1>3. \A d \in Clients :
        /\ pump'[d] # "off" => pump[d] # "off"
        /\ pump'[d] = "leaves" => pump[d] = "leaves" \/ conn'[d] = "closed"
  BY <1>2 DEF ReadPump, Connection, WebSocketHandler, WakeUp, ReadAwake, TellAwake, ReadPumpEnds
<1>4. CASE TellAwake(c)
  <2>1. held[c] \in Shown /\ clients \in SUBSET Clients
    BY <1>4 DEF TellAwake, TypeOK
  <2>2. \A d \in Clients : conn'[d] = conn[d] \/ (d \in clients /\ conn'[d] = "closed")
    BY <1>2, <1>4, <2>1, BroadcastIs DEF TellAwake
  <2>3. QED
    BY <1>1, <1>3, <2>2 DEF ConnectionMoves
<1>5. CASE WebSocketHandler(c)
  <2>1. \A d \in Clients : conn'[d] = conn[d] \/ (conn[d] = "new" /\ conn'[d] = "handshake")
    BY <1>5 DEF WebSocketHandler, TypeOK
  <2>2. QED
    BY <1>1, <1>3, <2>1 DEF ConnectionMoves
<1>6. CASE UNCHANGED conn
  BY <1>1, <1>3, <1>6 DEF ConnectionMoves
<1>7. QED
  BY <1>4, <1>5, <1>6 DEF ReadPump, Connection, WakeUp, ReadAwake, ReadPumpEnds

LEMMA OtherMoves ==
    ASSUME TypeOK, RequestsKnowWhom, Tick \/ Outside \/ \E r \in Requests : Handler(r)
    PROVE  ConnectionMoves /\ life' = life
<1>1. CASE Tick
  BY <1>1 DEF Tick, AutoAwayTick, ListUsersWithActiveConnections, ConnectionMoves
<1>2. ASSUME NEW r \in Requests, Handler(r) PROVE ConnectionMoves /\ life' = life
  <2>1. life' = life /\ clients' = clients /\ pump' = pump
    BY <1>2 DEF Handler, UpdatePersistedStatus, StatusIsActivity, ReadStatus, TellStatus
  <2>2. CASE TellStatus(r)
    <3>1. req[r] \in ReqType /\ clients \in SUBSET Clients
      BY HubTyped DEF TypeOK
    <3>2. req[r].user \in Users /\ req[r].status \in Shown
      BY <2>2, <3>1 DEF TellStatus, RequestsKnowWhom, ReqType
    <3>3. \A d \in Clients : conn'[d] = conn[d] \/ (d \in clients /\ conn'[d] = "closed")
      BY <2>2, <3>1, <3>2, BroadcastIs DEF TellStatus
    <3>4. QED
      BY <2>1, <3>3 DEF ConnectionMoves
  <2>3. CASE UNCHANGED conn
    BY <2>1, <2>3 DEF ConnectionMoves
  <2>4. QED
    BY <1>2, <2>2, <2>3 DEF Handler, UpdatePersistedStatus, StatusIsActivity, ReadStatus
<1>3. CASE Outside
  <2>1. life' = life /\ clients' = clients
    BY <1>3 DEF Outside, ConnectionLost, GoesIdle, MarkActivity, SessionEnds, Login, DisconnectUser,
                UpdateStatusMessage, UpdateStatus
  <2>2. \A c \in Clients :
          /\ pump'[c] # "off" => pump[c] # "off"
          /\ pump'[c] = "leaves" => pump[c] = "leaves"
    BY <1>3 DEF Outside, ConnectionLost, GoesIdle, MarkActivity, SessionEnds, Login, DisconnectUser,
                UpdateStatusMessage, UpdateStatus, TypeOK
  <2>3. ASSUME NEW c \in Clients, ConnectionLost(c) PROVE ConnectionMoves
    BY <2>1, <2>2, <2>3 DEF ConnectionLost, ConnectionMoves, TypeOK
  <2>4. ASSUME NEW u \in Users, DisconnectUser(u) PROVE ConnectionMoves
    <3>1. \A c \in Clients : conn'[c] = IF c \in {d \in clients : userOf[d] = u} THEN "closed"
                                        ELSE conn[c]
      BY <2>4, CloseIs DEF DisconnectUser
    <3>2. QED
      BY <2>1, <2>2, <3>1 DEF ConnectionMoves
  <2>5. CASE UNCHANGED conn
    BY <2>1, <2>2, <2>5 DEF ConnectionMoves
  <2>6. QED
    BY <1>3, <2>1, <2>3, <2>4, <2>5
       DEF Outside, GoesIdle, MarkActivity, SessionEnds, Login, UpdateStatusMessage, UpdateStatus
<1>4. QED
  BY <1>1, <1>2, <1>3

\* The connections that a shutdown closed stay closed, and no other is registered.
LEMMA ConnectionsStep ==
    ASSUME TypeOK, RunKnowsWhom, RequestsKnowWhom, ClientsAreConnected, ShutdownLeavesNoneOpen,
           [Next]_vars
    PROVE  ClientsAreConnected' /\ ShutdownLeavesNoneOpen'
<1>0. clients \subseteq Clients
  BY DEF TypeOK
<1>1. ConnectionMoves => ClientsAreConnected'
  BY <1>0 DEF ConnectionMoves, ClientsAreConnected
<1>2. CASE ConnectionMoves /\ life' = life
  <2>1. ShutdownLeavesNoneOpen'
    BY <1>0, <1>2 DEF ConnectionMoves, ClientsAreConnected, ShutdownLeavesNoneOpen
  <2>2. QED
    BY <1>1, <1>2, <2>1
<1>3. CASE Shutdown
  <2>1. CASE Flag \/ Stop
    BY <2>1 DEF Flag, Stop, ClientsAreConnected, ShutdownLeavesNoneOpen
  <2>2. CASE CloseAll
    <3>1. /\ clients' = clients /\ pump' = pump
          /\ \A c \in Clients : conn'[c] = IF c \in clients THEN "closed" ELSE conn[c]
      BY <2>2, CloseIs DEF CloseAll
    <3>2. QED
      BY <1>0, <3>1 DEF ClientsAreConnected, ShutdownLeavesNoneOpen
  <2>3. QED
    BY <1>3, <2>1, <2>2 DEF Shutdown
<1>4. ASSUME NEW c \in Clients, Register(c) PROVE ClientsAreConnected' /\ ShutdownLeavesNoneOpen'
  <2>1. /\ conn[c] = "handshake" /\ c \notin clients /\ pump' = [pump EXCEPT ![c] = "reads"]
        /\ conn' = [conn EXCEPT ![c] = IF life = "up" THEN "open" ELSE "closed"]
        /\ clients' = IF life = "up" THEN clients \cup {c} ELSE clients
        /\ life' = life
    BY <1>4 DEF Register, ClientsAreConnected
  <2>2. /\ conn'[c] = (IF life = "up" THEN "open" ELSE "closed") /\ pump'[c] = "reads"
        /\ \A d \in Clients \ {c} : conn'[d] = conn[d] /\ pump'[d] = pump[d]
    BY <2>1 DEF TypeOK
  <2>3. CASE life = "up"
    BY <1>0, <2>1, <2>2, <2>3 DEF ClientsAreConnected, ShutdownLeavesNoneOpen
  <2>4. CASE life # "up"
    BY <1>0, <2>1, <2>2, <2>4 DEF ClientsAreConnected, ShutdownLeavesNoneOpen
  <2>5. QED
    BY <2>3, <2>4
<1>5. ASSUME NEW c \in Clients, Unregister(c) PROVE ClientsAreConnected' /\ ShutdownLeavesNoneOpen'
  BY <1>0, <1>5 DEF Unregister, ClientsAreConnected, ShutdownLeavesNoneOpen, TypeOK
<1>6. CASE UNCHANGED vars
  BY <1>6 DEF vars, systemVars, ClientsAreConnected, ShutdownLeavesNoneOpen
<1>7. QED
  BY <1>2, <1>3, <1>4, <1>5, <1>6, RunMoves, PumpMoves, OtherMoves DEF Next, Accept

-----------------------------------------------------------------------------
(***************************************************************************)
(* Who works on whom.                                                      *)
(***************************************************************************)
\* Run keeps to the user and the client it began with.
LEMMA RunKnowsStep ==
    ASSUME TypeOK, RunKnowsWhom, [Next]_vars
    PROVE  RunKnowsWhom'
<1>1. hub \in HubType /\ userOf \in [Clients -> Users]
  BY HubTyped
<1>2. \A u \in Users : Effective(u) # None
  BY HubTyped, Constants
<1> USE DEF RunKnowsWhom, Registers
<1>3. CASE Run
  <2>1. clients' = clients
    BY <1>3 DEF Run, PreviousStatus, Add, FreshConnection, CurrentStatus, Announce, OnlineMembers,
                PresenceSync, PresenceOffline, TellOffline, ChangeAway, ReadAway, TellAway, AwayDone,
                DisconnectRevokedUsers, RunReturns, CheckAway
  <2>2. CASE PreviousStatus \/ Add \/ FreshConnection
    BY <1>1, <2>1, <2>2 DEF PreviousStatus, Add, FreshConnection, Goes, HubType
  <2>3. CASE CurrentStatus
    <3>1. hub.user \in Users /\ EffectiveStatus(entry[hub.user]) # None
      BY <1>2, <2>3 DEF CurrentStatus, Effective
    <3>2. QED
      BY <1>1, <2>1, <2>3, <3>1 DEF CurrentStatus, HubType
  <2>4. CASE Announce \/ OnlineMembers
    BY <1>1, <2>1, <2>4 DEF Announce, OnlineMembers, HubType
  <2>5. CASE PresenceOffline
    BY <1>1, <2>1, <2>5 DEF PresenceOffline, HubType, Select
  <2>6. CASE ChangeAway \/ TellAway \/ RunReturns
    BY <1>1, <2>1, <2>6 DEF ChangeAway, TellAway, RunReturns, Goes, HubType
  <2>7. CASE ReadAway
    <3>1. hub.user \in Users /\ EffectiveStatus(entry[hub.user]) # None
      BY <1>2, <2>7 DEF ReadAway, Effective
    <3>2. QED
      BY <1>1, <2>1, <2>7, <3>1 DEF ReadAway, HubType
  <2>8. CASE hub' = Select
    BY <2>8 DEF Select
  <2>9. ASSUME NEW u \in Users, CheckAway(u) PROVE RunKnowsWhom'
    BY <1>1, <2>1, <2>9 DEF CheckAway, HubType
  <2>10. QED
    BY <1>3, <2>2, <2>3, <2>4, <2>5, <2>6, <2>7, <2>8, <2>9
       DEF Run, PresenceSync, TellOffline, AwayDone, DisconnectRevokedUsers
<1>4. CASE Tick
  BY <1>4 DEF Tick, AutoAwayTick, ListUsersWithActiveConnections, Select
<1>5. ASSUME NEW c \in Clients, Register(c) PROVE RunKnowsWhom'
  BY <1>1, <1>5 DEF Register, HubType
<1>6. ASSUME NEW c \in Clients, Unregister(c) PROVE RunKnowsWhom'
  BY <1>1, <1>6 DEF Unregister, HubType
<1>7. CASE UNCHANGED <<hub, clients>>
  BY <1>7
<1>8. QED
  BY <1>3, <1>4, <1>5, <1>6, <1>7
     DEF Next, Shutdown, Flag, CloseAll, Stop, Accept, ReadPump, WakeUp, ReadAwake, TellAwake,
         ReadPumpEnds, Connection, WebSocketHandler, Handler, UpdatePersistedStatus,
         StatusIsActivity, ReadStatus, TellStatus, Outside, ConnectionLost, GoesIdle, MarkActivity,
         SessionEnds, Login, DisconnectUser, UpdateStatusMessage, UpdateStatus, vars, systemVars

LEMMA RequestsKnowStep ==
    ASSUME TypeOK, RequestsKnowWhom, [Next]_vars
    PROVE  RequestsKnowWhom'
<1>1. req \in [Requests -> ReqType]
  BY HubTyped
<1> USE DEF RequestsKnowWhom
<1>2. ASSUME NEW r \in Requests, Handler(r) PROVE RequestsKnowWhom'
  <2>1. CASE UpdatePersistedStatus(r)
    BY <1>1, <2>1 DEF UpdatePersistedStatus, ReqType
  <2>2. CASE StatusIsActivity(r)
    BY <1>1, <2>2 DEF StatusIsActivity, ReqType
  <2>3. CASE ReadStatus(r)
    <3>1. req[r].user \in Users
      BY <2>3 DEF ReadStatus
    <3>2. EffectiveStatus(entry[req[r].user]) # None
      BY <3>1, HubTyped, Constants DEF Effective
    <3>3. QED
      BY <1>1, <2>3, <3>2 DEF ReadStatus, ReqType
  <2>4. CASE TellStatus(r)
    BY <1>1, <2>4 DEF TellStatus, ReqType
  <2>5. QED
    BY <1>2, <2>1, <2>2, <2>3, <2>4 DEF Handler
<1>3. ASSUME NEW r \in Requests, NEW u \in Users, UpdateStatusMessage(r, u) PROVE RequestsKnowWhom'
  BY <1>1, <1>3 DEF UpdateStatusMessage, ReqType
<1>4. ASSUME NEW r \in Requests, NEW u \in Users, NEW s \in Statuses \cup {None}, UpdateStatus(r, u, s)
      PROVE  RequestsKnowWhom'
  BY <1>1, <1>4 DEF UpdateStatus, ReqType
<1>5. CASE UNCHANGED req
  BY <1>5
<1>6. QED
  BY <1>2, <1>3, <1>4, <1>5
     DEF Next, Run, PreviousStatus, Add, FreshConnection, CurrentStatus, Announce, OnlineMembers,
         PresenceSync, PresenceOffline, TellOffline, ChangeAway, ReadAway, TellAway, AwayDone,
         DisconnectRevokedUsers, RunReturns, CheckAway,
         Tick, AutoAwayTick, ListUsersWithActiveConnections, Shutdown, Flag, CloseAll, Stop,
         Accept, Register, Unregister, ReadPump, WakeUp, ReadAwake, TellAwake,
         ReadPumpEnds, Connection, WebSocketHandler, Outside, ConnectionLost, GoesIdle, MarkActivity,
         SessionEnds, Login, DisconnectUser, vars, systemVars

\* Steps that leave the ReadPumps and the connections they serve alone.
LEMMA HeldStep ==
    ASSUME TypeOK, HeldIsToBeTold, ClientsAreConnected, [Next]_vars
    PROVE  HeldIsToBeTold'
<1>1. /\ pump \in [Clients -> {"off", "reads", "wakes", "tells", "leaves", "gone"}]
      /\ held \in [Clients -> Shown \cup {None}]
  BY DEF TypeOK
<1> USE DEF HeldIsToBeTold
<1>2. ASSUME NEW c \in Clients, ReadPump(c) PROVE HeldIsToBeTold'
  BY <1>1, <1>2 DEF ReadPump, WakeUp, ReadAwake, TellAwake, ReadPumpEnds
<1>3. ASSUME NEW c \in Clients, MarkActivity(c) PROVE HeldIsToBeTold'
  BY <1>1, <1>3 DEF MarkActivity
<1>4. ASSUME NEW c \in Clients, Register(c) PROVE HeldIsToBeTold'
  <2>1. conn[c] = "handshake" /\ UNCHANGED held /\ pump' = [pump EXCEPT ![c] = "reads"]
    BY <1>4 DEF Register
  <2>2. held[c] = None
    BY <2>1 DEF ClientsAreConnected
  <2>3. QED
    BY <1>1, <2>1, <2>2
<1>5. ASSUME NEW c \in Clients, Unregister(c) PROVE HeldIsToBeTold'
  BY <1>1, <1>5 DEF Unregister
<1>6. CASE UNCHANGED <<pump, held>>
  BY <1>6
<1>7. QED
  BY <1>2, <1>3, <1>4, <1>5, <1>6
     DEF Next, Run, PreviousStatus, Add, FreshConnection, CurrentStatus, Announce, OnlineMembers,
         PresenceSync, PresenceOffline, TellOffline, ChangeAway, ReadAway, TellAway, AwayDone,
         DisconnectRevokedUsers, RunReturns, CheckAway,
         Tick, AutoAwayTick, ListUsersWithActiveConnections, Shutdown, Flag, CloseAll, Stop,
         Accept, Connection, WebSocketHandler, Handler, UpdatePersistedStatus, StatusIsActivity,
         ReadStatus, TellStatus, Outside, ConnectionLost, GoesIdle, SessionEnds, Login,
         DisconnectUser, UpdateStatusMessage, UpdateStatus, vars, systemVars

-----------------------------------------------------------------------------
(***************************************************************************)
(* Presence and clients.                                                   *)
(***************************************************************************)
\* Entries that may change their status, but neither come nor go nor count, and
\* of which none becomes away for inactivity.
EntriesStay ==
    \A x \in Users :
        /\ entry'[x] = None <=> entry[x] = None
        /\ Connections(x)' = Connections(x)
        /\ IsAutoAway(x)' => IsAutoAway(x)

LEMMA SameEntriesStay ==
    ASSUME UNCHANGED entry
    PROVE  EntriesStay
BY DEF EntriesStay, Connections, IsAutoAway

LEMMA OneEntryStays ==
    ASSUME NEW u \in Users, ChangesOnly(u),
           entry'[u] = None <=> entry[u] = None,
           Connections(u)' = Connections(u), IsAutoAway(u)' => IsAutoAway(u)
    PROVE  EntriesStay
BY DEF ChangesOnly, EntriesStay, Connections, IsAutoAway

LEMMA FreshStays ==
    ASSUME TypeOK, NEW u \in Users, SetAutoAway(u, FALSE)
    PROVE  EntriesStay
BY SetAutoAwayIs, OneEntryStays

\* Whoever else works on the presence leaves the hub and its clients alone.
LEMMA OthersStay ==
    ASSUME TypeOK, RequestsKnowWhom,
           \/ Shutdown \/ Outside \/ UNCHANGED vars
           \/ \E c \in Clients : ReadPump(c) \/ Connection(c)
           \/ \E r \in Requests : Handler(r)
    PROVE  EntriesStay /\ UNCHANGED <<hub, clients, userOf>>
<1>1. UNCHANGED <<hub, clients, userOf>>
  BY DEF Shutdown, Flag, CloseAll, Stop, ReadPump, WakeUp, ReadAwake, TellAwake, ReadPumpEnds,
         Connection, WebSocketHandler, Handler, UpdatePersistedStatus, StatusIsActivity, ReadStatus,
         TellStatus, Outside, ConnectionLost, GoesIdle, MarkActivity, SessionEnds, Login,
         DisconnectUser, UpdateStatusMessage, UpdateStatus, vars, systemVars
<1>2. ASSUME NEW c \in Clients, WakeUp(c) PROVE EntriesStay
  <2>1. userOf[c] \in Users
    BY HubTyped
  <2>2. QED
    BY <1>2, <2>1, FreshStays DEF WakeUp
<1>3. ASSUME NEW r \in Requests, UpdatePersistedStatus(r) PROVE EntriesStay
  <2>1. req[r].user \in Users /\ req[r].status \in Statuses \cup {None}
    BY <1>3 DEF UpdatePersistedStatus, RequestsKnowWhom
  <2>2. QED
    BY <1>3, <2>1, SetPersistedStatusIs, OneEntryStays DEF UpdatePersistedStatus
<1>4. ASSUME NEW r \in Requests, StatusIsActivity(r) PROVE EntriesStay
  <2>1. req[r].user \in Users
    BY <1>4 DEF StatusIsActivity, RequestsKnowWhom
  <2>2. QED
    BY <1>4, <2>1, FreshStays DEF StatusIsActivity
<1>5. CASE UNCHANGED entry
  BY <1>1, <1>5, SameEntriesStay
<1>6. QED
  BY <1>1, <1>2, <1>3, <1>4, <1>5
     DEF Shutdown, Flag, CloseAll, Stop, ReadPump, ReadAwake, TellAwake, ReadPumpEnds,
         Connection, WebSocketHandler, Handler, ReadStatus, TellStatus, Outside, ConnectionLost,
         GoesIdle, MarkActivity, SessionEnds, Login, DisconnectUser, UpdateStatusMessage,
         UpdateStatus, vars, systemVars

\* Run and the cases of its select, one by one.
LEMMA PresenceLooksStep ==
    ASSUME TypeOK, RunKnowsWhom, RequestsKnowWhom, OfflineIsGone, AwayIsNoticed, [Next]_vars
    PROVE  OfflineIsGone' /\ AwayIsNoticed'
<1>1. hub \in HubType
  BY HubTyped
<1>2. CASE \/ Shutdown \/ Outside \/ UNCHANGED vars
           \/ \E c \in Clients : ReadPump(c) \/ Connection(c)
           \/ \E r \in Requests : Handler(r)
  <2>1. EntriesStay /\ UNCHANGED hub
    BY <1>2, OthersStay
  <2>2. OfflineIsGone' /\ (hub.at \in {"add", "wake"} => hub.user \in Users)
    BY <2>1 DEF OfflineIsGone, EntriesStay, RunKnowsWhom, Registers
  <2>3. QED
    BY <2>1, <2>2 DEF AwayIsNoticed, EntriesStay
<1>3. CASE PreviousStatus
  <2>1. hub.user \in Users
    BY <1>3 DEF PreviousStatus, RunKnowsWhom, Registers
  <2>2. IsAutoAway(hub.user) => EffectiveStatus(entry[hub.user]) # "online"
    <3>1. entry[hub.user] # None => entry[hub.user].persisted \in Statuses \cup {None}
      BY <2>1, HubTyped, EntryFields
    <3>2. QED
      BY <3>1, Constants DEF IsAutoAway, EffectiveStatus
  <2>3. hub'.at = "add" /\ hub'.user = hub.user /\ hub'.status = EffectiveStatus(entry[hub.user])
        /\ entry' = entry
    BY <1>1, <1>3 DEF PreviousStatus, HubType
  <2>4. QED
    BY <2>2, <2>3 DEF OfflineIsGone, AwayIsNoticed, IsAutoAway
<1>4. CASE Add
  <2>1. hub.user \in Users /\ loaded[hub.client] \in Statuses \cup {None}
    BY <1>4 DEF Add, RunKnowsWhom, Registers, TypeOK
  <2>2. IsAutoAway(hub.user)' => IsAutoAway(hub.user)
    <3>1. /\ ChangesOnly(hub.user)
          /\ IsAutoAway(hub.user) \/ ~entry'[hub.user].autoAway \/ entry'[hub.user] = None
      BY <1>4, <2>1, AddConnectionIs DEF Add, IsAutoAway
    <3>2. hub'.user = hub.user
      BY <1>1, <1>4 DEF Add, HubType
    <3>3. QED
      BY <3>1, <3>2 DEF IsAutoAway
  <2>3. /\ hub'.at = "wake" /\ hub'.user = hub.user
        /\ hub'.status = IF entry[hub.user] = None THEN None ELSE hub.status
    BY <1>1, <1>4 DEF Add, HubType
  <2>4. None # "online"
    BY DEF Assumptions
  <2>5. QED
    BY <1>4, <2>2, <2>3, <2>4 DEF Add, OfflineIsGone, AwayIsNoticed, IsAutoAway
<1>5. CASE PresenceOffline
  BY <1>1, <1>5 DEF PresenceOffline, OfflineIsGone, AwayIsNoticed, HubType, Select
<1>6. CASE hub'.at \notin {"offline", "add", "wake"}
  BY <1>6 DEF OfflineIsGone, AwayIsNoticed
<1>7. CASE Run
  <2>1. CASE FreshConnection \/ ChangeAway \/ RunReturns
    BY <1>1, <1>6, <2>1 DEF FreshConnection, ChangeAway, RunReturns, Goes, HubType
  <2>2. CASE CurrentStatus \/ Announce \/ OnlineMembers
    BY <1>1, <1>6, <2>2 DEF CurrentStatus, Announce, OnlineMembers, HubType
  <2>3. CASE ReadAway \/ TellAway
    BY <1>1, <1>6, <2>3 DEF ReadAway, TellAway, HubType
  <2>4. CASE PresenceSync \/ TellOffline \/ AwayDone \/ DisconnectRevokedUsers
    BY <1>6, <2>4 DEF PresenceSync, TellOffline, AwayDone, DisconnectRevokedUsers, Select
  <2>5. ASSUME NEW u \in Users, CheckAway(u) PROVE hub'.at \notin {"offline", "add", "wake"}
    BY <1>1, <2>5 DEF CheckAway, HubType
  <2>6. QED
    BY <1>3, <1>4, <1>5, <1>6, <1>7, <2>1, <2>2, <2>3, <2>4, <2>5 DEF Run
<1>8. CASE Tick
  BY <1>6, <1>8 DEF Tick, AutoAwayTick, ListUsersWithActiveConnections, Select
<1>9. ASSUME NEW c \in Clients, Accept(c) PROVE OfflineIsGone' /\ AwayIsNoticed'
  BY <1>1, <1>6, <1>9 DEF Accept, Register, Unregister, HubType
<1>10. QED
  BY <1>2, <1>7, <1>8, <1>9 DEF Next

Pending(u) == IF hub.user = u /\ hub.at \in {"previous", "add"} THEN 1 ELSE 0
Leaving(u) == IF hub.user = u /\ hub.at = "remove" THEN 1 ELSE 0
Counted(u) ==
    /\ Connections(u) + Pending(u) = Cardinality(Of(u)) + Leaving(u)
    /\ Connections(u) = 0 <=> entry[u] = None

LEMMA CountsAre == PresenceCountsClients <=> \A u \in Users : Counted(u)
BY DEF PresenceCountsClients, Counted, Connections, Pending, Leaving

LEMMA CountsAreNext == (\A u \in Users : Counted(u)') => PresenceCountsClients'
BY DEF PresenceCountsClients, Counted, Connections, Pending, Leaving, Of

LEMMA ClientsAreFinite ==
    ASSUME TypeOK, NEW u \in Users
    PROVE  /\ IsFiniteSet(Of(u)) /\ Cardinality(Of(u)) \in Nat
           /\ Connections(u) \in Nat
<1>1. Of(u) \subseteq Clients
  BY DEF TypeOK, Of
<1>2. IsFiniteSet(Of(u)) /\ Cardinality(Of(u)) \in Nat
  BY <1>1, Constants, FS_Subset, FS_CardinalityType
<1>3. Connections(u) \in Nat
  BY HubTyped, EntryFields DEF Connections
<1>4. QED
  BY <1>2, <1>3

\* Nothing is counted anew unless Run adds or removes a connection.
LEMMA CountsStay ==
    ASSUME PresenceCountsClients, EntriesStay, UNCHANGED <<clients, userOf>>,
           \A u \in Users : Pending(u)' = Pending(u) /\ Leaving(u)' = Leaving(u)
    PROVE  PresenceCountsClients'
<1>1. ASSUME NEW u \in Users PROVE Counted(u)'
  <2>1. Counted(u)
    BY CountsAre
  <2>2. /\ Connections(u)' = Connections(u) /\ (entry'[u] = None <=> entry[u] = None)
        /\ Of(u)' = Of(u) /\ Pending(u)' = Pending(u) /\ Leaving(u)' = Leaving(u)
    BY DEF EntriesStay, Of
  <2>3. QED
    BY <2>1, <2>2 DEF Counted
<1>2. QED
  BY <1>1, CountsAreNext

LEMMA CountsStep ==
    ASSUME TypeOK, RunKnowsWhom, RequestsKnowWhom, ClientsAreConnected, PresenceCountsClients,
           [Next]_vars
    PROVE  PresenceCountsClients'
<1>1. hub \in HubType /\ userOf \in [Clients -> Users] /\ \A u \in Users : Counted(u)
  BY HubTyped, CountsAre
<1>2. CASE \/ Shutdown \/ Outside \/ UNCHANGED vars
           \/ \E c \in Clients : ReadPump(c) \/ Connection(c)
           \/ \E r \in Requests : Handler(r)
  BY <1>2, OthersStay, CountsStay DEF Pending, Leaving
<1>3. CASE Tick
  <2>1. /\ hub.at = "select" /\ hub'.at \in {"away", "cut"} /\ UNCHANGED <<entry, clients, userOf>>
    BY <1>3 DEF Tick, AutoAwayTick, ListUsersWithActiveConnections, Select
  <2>2. QED
    BY <2>1, SameEntriesStay, CountsStay DEF Pending, Leaving
<1>4. ASSUME NEW c \in Clients, Register(c), UNCHANGED userOf PROVE PresenceCountsClients'
  <2>1. CASE life # "up"
    <3>1. UNCHANGED <<entry, clients, hub>>
      BY <1>4, <2>1 DEF Register
    <3>2. QED
      BY <1>4, <3>1, SameEntriesStay, CountsStay DEF Pending, Leaving
  <2>2. CASE life = "up"
    <3>1. /\ hub.at = "select" /\ c \notin clients /\ clients' = clients \cup {c} /\ entry' = entry
          /\ hub'.at = "previous" /\ hub'.user = userOf[c] /\ userOf' = userOf
      BY <1>1, <1>4, <2>2 DEF Register, ClientsAreConnected, HubType
    <3>2. ASSUME NEW u \in Users PROVE Counted(u)'
      <4>1. /\ Connections(u)' = Connections(u) /\ entry'[u] = entry[u]
            /\ Pending(u) = 0 /\ Leaving(u) = 0 /\ Leaving(u)' = 0
            /\ Pending(u)' = IF u = userOf[c] THEN 1 ELSE 0
        BY <3>1 DEF Connections, Pending, Leaving
      <4>2. Of(u)' = IF u = userOf[c] THEN Of(u) \cup {c} ELSE Of(u)
        BY <3>1 DEF Of
      <4>3. c \notin Of(u)
        BY <3>1 DEF Of
      <4>4. u = userOf[c] => Cardinality(Of(u)') = Cardinality(Of(u)) + 1
        BY <4>2, <4>3, ClientsAreFinite, FS_AddElement
      <4>5. Counted(u) /\ Cardinality(Of(u)) \in Nat /\ Connections(u) \in Nat
        BY <1>1, ClientsAreFinite
      <4>6. QED
        BY <4>1, <4>2, <4>4, <4>5 DEF Counted
    <3>3. QED
      BY <3>2, CountsAreNext
  <2>3. QED
    BY <2>1, <2>2
<1>5. ASSUME NEW c \in Clients, Unregister(c), UNCHANGED userOf PROVE PresenceCountsClients'
  <2>1. CASE c \notin clients
    <3>1. UNCHANGED <<entry, clients, hub>>
      BY <1>5, <2>1 DEF Unregister
    <3>2. QED
      BY <1>5, <3>1, SameEntriesStay, CountsStay DEF Pending, Leaving
  <2>2. CASE c \in clients
    <3>1. /\ hub.at = "select" /\ clients' = clients \ {c} /\ entry' = entry
          /\ hub'.at = "remove" /\ hub'.user = userOf[c] /\ userOf' = userOf
      BY <1>1, <1>5, <2>2 DEF Unregister, HubType
    <3>2. ASSUME NEW u \in Users PROVE Counted(u)'
      <4>1. /\ Connections(u)' = Connections(u) /\ entry'[u] = entry[u]
            /\ Pending(u) = 0 /\ Leaving(u) = 0 /\ Pending(u)' = 0
            /\ Leaving(u)' = IF u = userOf[c] THEN 1 ELSE 0
        BY <3>1 DEF Connections, Pending, Leaving
      <4>2. Of(u)' = IF u = userOf[c] THEN Of(u) \ {c} ELSE Of(u)
        BY <3>1 DEF Of
      <4>3. u = userOf[c] => c \in Of(u)
        BY <2>2 DEF Of
      <4>4. u = userOf[c] => Cardinality(Of(u)') = Cardinality(Of(u)) - 1
        BY <4>2, <4>3, ClientsAreFinite, FS_RemoveElement
      <4>5. Counted(u) /\ Cardinality(Of(u)) \in Nat /\ Connections(u) \in Nat
        BY <1>1, ClientsAreFinite
      <4>6. QED
        BY <4>1, <4>2, <4>4, <4>5 DEF Counted
    <3>3. QED
      BY <3>2, CountsAreNext
  <2>3. QED
    BY <2>1, <2>2
<1>6. CASE Add /\ UNCHANGED userOf
  <2>1. hub.user \in Users /\ loaded[hub.client] \in Statuses \cup {None}
    BY <1>6 DEF Add, RunKnowsWhom, Registers, TypeOK
  <2>2. hub.at = "add" /\ hub'.at = "wake" /\ clients' = clients
    BY <1>1, <1>6 DEF Add, HubType
  <2>3. /\ entry'[hub.user] # None
        /\ (IF entry'[hub.user] = None THEN 0 ELSE entry'[hub.user].connections)
               = Connections(hub.user) + 1
        /\ \A x \in Users \ {hub.user} : entry'[x] = entry[x]
    BY <1>6, <2>1, AddConnectionIs DEF Add, ChangesOnly, Connections
  <2>4. ASSUME NEW u \in Users PROVE Counted(u)'
    <3>1. Counted(u) /\ Cardinality(Of(u)) \in Nat /\ Connections(u) \in Nat /\ Of(u)' = Of(u)
      BY <1>1, <1>6, <2>2, ClientsAreFinite DEF Of
    <3>2. /\ Pending(u) = (IF u = hub.user THEN 1 ELSE 0) /\ Leaving(u) = 0
          /\ Pending(u)' = 0 /\ Leaving(u)' = 0
      BY <2>2 DEF Pending, Leaving
    <3>3. CASE u = hub.user
      <4>1. Connections(u)' = Connections(u) + 1 /\ entry'[u] # None
        BY <2>3, <3>3 DEF Connections
      <4>2. QED
        BY <3>1, <3>2, <3>3, <4>1 DEF Counted
    <3>4. CASE u # hub.user
      <4>1. Connections(u)' = Connections(u) /\ entry'[u] = entry[u]
        BY <2>3, <3>4 DEF Connections
      <4>2. QED
        BY <3>1, <3>2, <3>4, <4>1 DEF Counted
    <3>5. QED
      BY <3>3, <3>4
  <2>5. QED
    BY <2>4, CountsAreNext
<1>7. CASE PresenceOffline /\ UNCHANGED userOf
  <2>1. hub.user \in Users
    BY <1>7 DEF PresenceOffline, RunKnowsWhom
  <2>2. hub.at = "remove" /\ hub'.at \in {"offline", "select"} /\ clients' = clients
    BY <1>1, <1>7 DEF PresenceOffline, HubType, Select
  <2>3. /\ \A x \in Users \ {hub.user} : entry'[x] = entry[x]
        /\ entry'[hub.user] # None =>
               /\ entry'[hub.user].connections = Connections(hub.user) - 1
               /\ entry'[hub.user].connections > 0
        /\ entry'[hub.user] = None => Connections(hub.user) <= 1
    BY <1>7, <2>1, RemoveConnectionIs DEF PresenceOffline, ChangesOnly, Connections
  <2>4. ASSUME NEW u \in Users PROVE Counted(u)'
    <3>1. Counted(u) /\ Cardinality(Of(u)) \in Nat /\ Connections(u) \in Nat /\ Of(u)' = Of(u)
      BY <1>1, <1>7, <2>2, ClientsAreFinite DEF Of
    <3>2. /\ Leaving(u) = (IF u = hub.user THEN 1 ELSE 0) /\ Pending(u) = 0
          /\ Pending(u)' = 0 /\ Leaving(u)' = 0
      BY <2>2 DEF Pending, Leaving
    <3>3. CASE u = hub.user
      <4>1. /\ Connections(u) = Cardinality(Of(u)) + 1
        BY <3>1, <3>2, <3>3 DEF Counted
      <4>2. Connections(u)' = Connections(u) - 1 /\ (Connections(u)' = 0 <=> entry'[u] = None)
        BY <2>3, <3>1, <3>3, <4>1 DEF Connections
      <4>3. QED
        BY <3>1, <3>2, <4>1, <4>2 DEF Counted
    <3>4. CASE u # hub.user
      <4>1. Connections(u)' = Connections(u) /\ entry'[u] = entry[u]
        BY <2>3, <3>4 DEF Connections
      <4>2. QED
        BY <3>1, <3>2, <3>4, <4>1 DEF Counted
    <3>5. QED
      BY <3>3, <3>4
  <2>5. QED
    BY <2>4, CountsAreNext
<1>8. CASE Run
  <2>0. UNCHANGED userOf
    BY <1>8 DEF Run
  <2>1. CASE PreviousStatus
    <3>1. /\ hub'.user = hub.user /\ hub.at = "previous" /\ hub'.at = "add"
          /\ UNCHANGED <<entry, clients>>
      BY <1>1, <2>1 DEF PreviousStatus, HubType
    <3>2. QED
      BY <2>0, <3>1, SameEntriesStay, CountsStay DEF Pending, Leaving
  <2>2. CASE FreshConnection
    <3>1. hub.user \in Users /\ hub.at = "wake" /\ hub'.at = "current" /\ clients' = clients
      BY <1>1, <2>2 DEF FreshConnection, Goes, HubType, RunKnowsWhom, Registers
    <3>2. QED
      BY <2>0, <2>2, <3>1, FreshStays, CountsStay DEF FreshConnection, Pending, Leaving
  <2>3. CASE ChangeAway
    <3>1. hub.user \in Users /\ hub.at = "change" /\ hub'.at = "read" /\ clients' = clients
      BY <1>1, <2>3 DEF ChangeAway, Goes, HubType, RunKnowsWhom
    <3>2. /\ \A x \in Users \ {hub.user} : entry'[x] = entry[x]
          /\ entry'[hub.user] = None <=> entry[hub.user] = None
          /\ (IF entry'[hub.user] = None THEN 0 ELSE entry'[hub.user].connections) = Connections(hub.user)
      <4>1. (hub.user \in hub.idle) \in BOOLEAN
        OBVIOUS
      <4>2. QED
        BY <2>3, <3>1, <4>1, SetAutoAwayIs DEF ChangeAway, ChangesOnly, Connections
    <3>3. ASSUME NEW u \in Users PROVE Counted(u)'
      <4>1. /\ Connections(u)' = Connections(u) /\ (entry'[u] = None <=> entry[u] = None)
            /\ Of(u)' = Of(u)
        BY <2>0, <3>1, <3>2 DEF Connections, Of
      <4>2. Pending(u) = 0 /\ Leaving(u) = 0 /\ Pending(u)' = 0 /\ Leaving(u)' = 0
        BY <3>1 DEF Pending, Leaving
      <4>3. QED
        BY <1>1, <4>1, <4>2 DEF Counted
    <3>4. QED
      BY <3>3, CountsAreNext
  <2>4. CASE \/ CurrentStatus \/ Announce \/ OnlineMembers \/ PresenceSync \/ TellOffline \/ ReadAway
             \/ TellAway \/ AwayDone \/ DisconnectRevokedUsers \/ RunReturns
             \/ \E u \in Users : CheckAway(u)
    <3>1. /\ hub.at \notin {"previous", "add", "remove"} /\ hub'.at \notin {"previous", "add", "remove"}
          /\ UNCHANGED <<entry, clients>>
      <4>1. CASE CurrentStatus \/ Announce \/ OnlineMembers
        BY <1>1, <4>1 DEF CurrentStatus, Announce, OnlineMembers, HubType
      <4>2. CASE PresenceSync \/ TellOffline \/ AwayDone \/ DisconnectRevokedUsers
        BY <4>2 DEF PresenceSync, TellOffline, AwayDone, DisconnectRevokedUsers, Select
      <4>3. CASE ReadAway \/ TellAway \/ RunReturns
        BY <1>1, <4>3 DEF ReadAway, TellAway, RunReturns, Goes, HubType
      <4>4. CASE \E u \in Users : CheckAway(u)
        BY <1>1, <4>4 DEF CheckAway, HubType
      <4>5. QED
        BY <2>4, <4>1, <4>2, <4>3, <4>4
    <3>2. QED
      BY <2>0, <3>1, SameEntriesStay, CountsStay DEF Pending, Leaving
  <2>5. QED
    BY <1>6, <1>7, <1>8, <2>0, <2>1, <2>2, <2>3, <2>4 DEF Run
<1>9. QED
  BY <1>2, <1>3, <1>4, <1>5, <1>8 DEF Next, Accept

-----------------------------------------------------------------------------
(***************************************************************************)
(* Who owes whom.                                                          *)
(***************************************************************************)
Served(c, u) ==
    Effective(u) \in heard[c][u] \/ HubOwes(c, u) \/ PumpOwes(u) \/ RequestOwes(u)

LEMMA PumpKept ==
    ASSUME NEW u \in Users, UNCHANGED userOf, Effective(u)' = Effective(u),
           \A d \in Clients : pump[d] = "tells" => pump'[d] = "tells" /\ held'[d] = held[d]
    PROVE  PumpOwes(u) => PumpOwes(u)'
BY DEF PumpOwes

LEMMA RequestKept ==
    ASSUME NEW u \in Users, Effective(u)' = Effective(u), UNCHANGED req
    PROVE  RequestOwes(u) => RequestOwes(u)'
BY DEF RequestOwes

LEMMA HubKept ==
    ASSUME NEW c, NEW u \in Users, Effective(u)' = Effective(u), UNCHANGED hub
    PROVE  HubOwes(c, u) => HubOwes(c, u)'
BY DEF HubOwes

\* While nobody else moves, only the debts of the hub have to be looked at.
LEMMA RunServes ==
    ASSUME NEW c, NEW u \in Users, Served(c, u), UNCHANGED <<pump, held, req, userOf>>,
           Effective(u)' = Effective(u), heard[c][u] \subseteq heard'[c][u],
           HubOwes(c, u) => Served(c, u)'
    PROVE  Served(c, u)'
<1>1. (PumpOwes(u) => PumpOwes(u)') /\ (RequestOwes(u) => RequestOwes(u)')
  BY PumpKept, RequestKept
<1>2. QED
  BY <1>1 DEF Served

LEMMA ServedAre ==
    ChangesAreOwed <=> \A c \in clients : conn[c] = "open" => \A u \in Users : Served(c, u)
BY DEF ChangesAreOwed, Served

LEMMA ServedAreNext ==
    (\A c \in clients' : conn'[c] = "open" => \A u \in Users : Served(c, u)') => ChangesAreOwed'
BY DEF ChangesAreOwed, Served, Effective, HubOwes, PumpOwes, RequestOwes

\* Whoever is open after a move was open and served before it.
LEMMA OpenWas ==
    ASSUME TypeOK, ConnectionMoves, ChangesAreOwed, NEW c \in clients', conn'[c] = "open"
    PROVE  c \in clients /\ c \in Clients /\ conn[c] = "open" /\ \A u \in Users : Served(c, u)
<1>1. c \in clients /\ c \in Clients
  BY DEF ConnectionMoves, TypeOK
<1>2. conn[c] = "open"
  BY <1>1 DEF ConnectionMoves
<1>3. QED
  BY <1>1, <1>2, ServedAre

LEMMA SameEffective ==
    ASSUME NEW u \in Users, UNCHANGED entry
    PROVE  Effective(u)' = Effective(u)
BY DEF Effective

LEMMA RunOwes ==
    ASSUME TypeOK, RunKnowsWhom, OfflineIsGone, AwayIsNoticed, ChangesAreOwed, Run
    PROVE  ChangesAreOwed'
<1>1. hub \in HubType /\ hub.status \in Shown \cup {None} /\ clients \in SUBSET Clients
  BY HubTyped DEF HubType, TypeOK
<1>2. ConnectionMoves
  BY RunMoves
<1>3. UNCHANGED <<pump, held, req, userOf>>
  BY DEF Run, PreviousStatus, Add, FreshConnection, CurrentStatus, Announce, OnlineMembers,
         PresenceSync, PresenceOffline, TellOffline, ChangeAway, ReadAway, TellAway, AwayDone,
         DisconnectRevokedUsers, RunReturns, CheckAway
<1> SUFFICES ASSUME NEW c \in clients', conn'[c] = "open", NEW u \in Users
             PROVE  Served(c, u)'
  BY ServedAreNext
<1>4. c \in clients /\ c \in Clients /\ Served(c, u)
  BY <1>2, OpenWas
<1>5. Effective(u) \in Shown /\ Effective(u) # None
  BY HubTyped, Constants
<1>6. CASE PreviousStatus
  <2>1. /\ UNCHANGED <<entry, heard>> /\ hub.at = "previous" /\ hub'.at = "add"
        /\ hub'.client = hub.client
    BY <1>1, <1>6 DEF PreviousStatus, HubType
  <2>2. HubOwes(c, u) => HubOwes(c, u)'
    BY <2>1 DEF HubOwes, Registers
  <2>3. QED
    BY <1>3, <1>4, <2>1, <2>2, RunServes, SameEffective DEF Served
<1>7. CASE Add
  <2>1. /\ hub.at = "add" /\ hub'.at = "wake" /\ hub'.client = hub.client /\ hub'.user = hub.user
        /\ hub'.status = IF entry[hub.user] = None THEN None ELSE hub.status
    BY <1>1, <1>7 DEF Add, HubType
  <2>2. hub.user \in Users /\ loaded[hub.client] \in Statuses \cup {None}
    BY <1>7 DEF Add, RunKnowsWhom, Registers, TypeOK
  <2>3. /\ ChangesOnly(hub.user)
        /\ entry[hub.user] # None /\ u = hub.user => Effective(u)' = Effective(u)
    BY <1>7, <2>2, AddConnectionIs DEF Add, Effective
  <2>4. CASE Effective(u)' = Effective(u)
    <3>1. heard'[c][u] = heard[c][u]
      BY <1>4, <2>3, <2>4 DEF ChangesOnly
    <3>2. HubOwes(c, u) => HubOwes(c, u)'
      BY <2>1 DEF HubOwes, Registers
    <3>3. QED
      BY <1>3, <1>4, <2>4, <3>1, <3>2, RunServes DEF Served
  <2>5. CASE Effective(u)' # Effective(u)
    <3>1. u = hub.user
      BY <2>3, <2>5 DEF ChangesOnly, Effective
    <3>2. HubOwes(c, u)'
      BY <2>1, <2>3, <2>5, <3>1 DEF HubOwes
    <3>3. QED
      BY <3>2 DEF Served
  <2>6. QED
    BY <2>4, <2>5
<1>8. CASE FreshConnection
  <2>1. /\ hub.at = "wake" /\ hub'.at = "current" /\ hub'.client = hub.client /\ hub'.user = hub.user
        /\ hub'.status = hub.status /\ hub.user \in Users
    BY <1>1, <1>8 DEF FreshConnection, Goes, HubType, RunKnowsWhom, Registers
  <2>2. /\ ChangesOnly(hub.user)
        /\ u = hub.user /\ Effective(u)' # Effective(u) =>
               IsAutoAway(u) /\ Effective(u)' = "online"
    BY <1>8, <2>1, SetAutoAwayIs DEF FreshConnection, Effective
  <2>3. CASE Effective(u)' = Effective(u)
    <3>1. heard'[c][u] = heard[c][u]
      BY <1>4, <2>2, <2>3 DEF ChangesOnly
    <3>2. HubOwes(c, u) => HubOwes(c, u)'
      BY <1>5, <2>1, <2>3 DEF HubOwes, Registers
    <3>3. QED
      BY <1>3, <1>4, <2>3, <3>1, <3>2, RunServes DEF Served
  <2>4. CASE Effective(u)' # Effective(u)
    <3>1. u = hub.user
      BY <2>2, <2>4 DEF ChangesOnly, Effective
    <3>2. hub.status # "online" /\ Effective(u)' = "online"
      BY <2>1, <2>2, <2>4, <3>1 DEF AwayIsNoticed
    <3>3. HubOwes(c, u)'
      BY <2>1, <3>1, <3>2 DEF HubOwes
    <3>4. QED
      BY <3>3 DEF Served
  <2>5. QED
    BY <2>3, <2>4
<1>9. CASE CurrentStatus
  <2>1. /\ UNCHANGED <<entry, heard>> /\ hub.at = "current"
        /\ hub'.client = hub.client /\ hub'.user = hub.user
    BY <1>1, <1>9 DEF CurrentStatus, HubType
  <2>2. CASE hub.status # Effective(hub.user)
    <3>1. hub'.at = "announce" /\ hub'.status = Effective(hub.user)
      BY <1>1, <1>9, <2>2 DEF CurrentStatus, HubType, Effective
    <3>2. HubOwes(c, u) => HubOwes(c, u)'
      BY <2>1, <3>1, SameEffective DEF HubOwes, Registers
    <3>3. QED
      BY <1>3, <1>4, <2>1, <3>2, RunServes, SameEffective DEF Served
  <2>3. CASE hub.status = Effective(hub.user)
    <3>1. hub'.at = "members"
      BY <1>1, <1>9, <2>3 DEF CurrentStatus, HubType, Effective
    <3>2. HubOwes(c, u) => HubOwes(c, u)'
      BY <2>1, <2>3, <3>1 DEF HubOwes, Registers
    <3>3. QED
      BY <1>3, <1>4, <2>1, <3>2, RunServes, SameEffective DEF Served
  <2>4. QED
    BY <2>2, <2>3
<1>10. CASE Announce
  <2>1. entry' = entry /\ hub.at = "announce" /\ hub'.at = "members" /\ hub'.client = hub.client
    BY <1>1, <1>10 DEF Announce, HubType
  <2>2. hub.user \in Users /\ hub.status \in Shown /\ clients \ {hub.client} \in SUBSET Clients
    BY <1>1, <1>10 DEF Announce, RunKnowsWhom, Registers
  <2>3. /\ heard[c][u] \subseteq heard'[c][u]
        /\ c # hub.client => hub.status \in heard'[c][hub.user]
    BY <1>4, <1>10, <2>2, BroadcastIs DEF Announce
  <2>4. HubOwes(c, u) => Served(c, u)'
    <3>1. CASE hub.client = c
      BY <2>1, <3>1 DEF HubOwes, Registers, Served
    <3>2. CASE hub.client # c
      BY <2>1, <2>3, <3>2, SameEffective DEF HubOwes, Registers, Served
    <3>3. QED
      BY <3>1, <3>2
  <2>5. QED
    BY <1>3, <1>4, <2>1, <2>3, <2>4, RunServes, SameEffective
<1>11. CASE OnlineMembers
  <2>1. /\ UNCHANGED <<entry, heard>> /\ hub.at = "members" /\ hub'.at = "sync"
        /\ hub'.client = hub.client /\ hub'.told[u] = Effective(u)
    BY <1>1, <1>11 DEF OnlineMembers, HubType, Effective
  <2>2. HubOwes(c, u) => HubOwes(c, u)'
    BY <2>1, SameEffective DEF HubOwes, Registers
  <2>3. QED
    BY <1>3, <1>4, <2>1, <2>2, RunServes, SameEffective DEF Served
<1>12. CASE PresenceSync
  <2>1. hub.client \in clients /\ {hub.client} \in SUBSET Clients /\ entry' = entry /\ hub.at = "sync"
    BY <1>1, <1>12 DEF PresenceSync, RunKnowsWhom, Registers
  <2>2. DOMAIN hub.told = Users /\ \A x \in Users : hub.told[x] \in Shown
    BY <1>1 DEF HubType
  <2>3. /\ heard[c][u] \subseteq heard'[c][u]
        /\ c = hub.client => hub.told[u] \in heard'[c][u]
    BY <1>4, <1>12, <2>1, <2>2, SendToIs DEF PresenceSync
  <2>4. HubOwes(c, u) => Served(c, u)'
    BY <2>1, <2>3, SameEffective DEF HubOwes, Registers, Served
  <2>5. QED
    BY <1>3, <1>4, <2>1, <2>3, <2>4, RunServes, SameEffective
<1>13. CASE PresenceOffline
  <2>1. hub.user \in Users /\ hub.at = "remove"
    BY <1>13 DEF PresenceOffline, RunKnowsWhom
  <2>2. /\ ChangesOnly(hub.user)
        /\ u = hub.user /\ entry'[hub.user] # None => Effective(u)' = Effective(u)
    BY <1>13, <2>1, RemoveConnectionIs DEF PresenceOffline, Effective
  <2>3. ~HubOwes(c, u)
    BY <2>1 DEF HubOwes, Registers
  <2>4. CASE Effective(u)' = Effective(u)
    <3>1. heard'[c][u] = heard[c][u]
      BY <1>4, <2>2, <2>4 DEF ChangesOnly
    <3>2. QED
      BY <1>3, <1>4, <2>3, <2>4, <3>1, RunServes
  <2>5. CASE Effective(u)' # Effective(u)
    <3>1. u = hub.user
      BY <2>2, <2>5 DEF ChangesOnly, Effective
    <3>2. hub' = [hub EXCEPT !.at = "offline"]
      BY <1>13, <2>2, <2>5, <3>1 DEF PresenceOffline
    <3>3. HubOwes(c, u)'
      BY <1>1, <3>1, <3>2 DEF HubOwes, HubType
    <3>4. QED
      BY <3>3 DEF Served
  <2>6. QED
    BY <2>4, <2>5
<1>14. CASE TellOffline
  <2>1. /\ hub.user \in Users /\ "offline" \in Shown /\ entry' = entry /\ hub.at = "offline"
        /\ Effective(hub.user) = "offline"
    BY <1>14 DEF TellOffline, RunKnowsWhom, OfflineIsGone, Shown, Effective, EffectiveStatus
  <2>2. heard[c][u] \subseteq heard'[c][u] /\ "offline" \in heard'[c][hub.user]
    BY <1>1, <1>4, <1>14, <2>1, BroadcastIs DEF TellOffline
  <2>3. HubOwes(c, u) => Served(c, u)'
    BY <2>1, <2>2, SameEffective DEF HubOwes, Registers, Served
  <2>4. QED
    BY <1>3, <1>4, <2>1, <2>2, <2>3, RunServes, SameEffective
<1>15. CASE ChangeAway
  <2>1. /\ hub.user \in Users /\ (hub.user \in hub.idle) \in BOOLEAN
        /\ hub.at = "change" /\ hub'.at = "read" /\ hub'.user = hub.user
    BY <1>1, <1>15 DEF ChangeAway, RunKnowsWhom, Goes, HubType
  <2>2. ChangesOnly(hub.user)
    BY <1>15, <2>1, SetAutoAwayIs DEF ChangeAway
  <2>3. ~HubOwes(c, u)
    BY <2>1 DEF HubOwes, Registers
  <2>4. CASE Effective(u)' = Effective(u)
    <3>1. heard'[c][u] = heard[c][u]
      BY <1>4, <2>2, <2>4 DEF ChangesOnly
    <3>2. QED
      BY <1>3, <1>4, <2>3, <2>4, <3>1, RunServes
  <2>5. CASE Effective(u)' # Effective(u)
    <3>1. u = hub.user
      BY <2>2, <2>5 DEF ChangesOnly, Effective
    <3>2. QED
      BY <2>1, <3>1 DEF HubOwes, Served
  <2>6. QED
    BY <2>4, <2>5
<1>16. CASE ReadAway
  <2>1. /\ UNCHANGED <<entry, heard>> /\ hub.at = "read" /\ hub'.at = "tell" /\ hub'.user = hub.user
        /\ hub'.status = Effective(hub.user)
    BY <1>1, <1>16 DEF ReadAway, HubType, Effective
  <2>2. HubOwes(c, u) => HubOwes(c, u)'
    BY <2>1, SameEffective DEF HubOwes, Registers
  <2>3. QED
    BY <1>3, <1>4, <2>1, <2>2, RunServes, SameEffective DEF Served
<1>17. CASE TellAway
  <2>1. hub.user \in Users /\ hub.status \in Shown /\ entry' = entry /\ hub.at = "tell"
    BY <1>1, <1>17 DEF TellAway, RunKnowsWhom
  <2>2. heard[c][u] \subseteq heard'[c][u] /\ hub.status \in heard'[c][hub.user]
    BY <1>1, <1>4, <1>17, <2>1, BroadcastIs DEF TellAway
  <2>3. HubOwes(c, u) => Served(c, u)'
    BY <2>1, <2>2, SameEffective DEF HubOwes, Registers, Served
  <2>4. QED
    BY <1>3, <1>4, <2>1, <2>2, <2>3, RunServes, SameEffective
<1>18. CASE AwayDone \/ DisconnectRevokedUsers \/ RunReturns \/ \E x \in Users : CheckAway(x)
  <2>1. UNCHANGED <<entry, heard>> /\ hub.at \in {"away", "cut", "select"}
    BY <1>18 DEF AwayDone, DisconnectRevokedUsers, RunReturns, CheckAway
  <2>2. ~HubOwes(c, u)
    BY <2>1 DEF HubOwes, Registers
  <2>3. QED
    BY <1>3, <1>4, <2>1, <2>2, RunServes, SameEffective
<1>19. QED
  BY <1>6, <1>7, <1>8, <1>9, <1>10, <1>11, <1>12, <1>13, <1>14, <1>15, <1>16, <1>17, <1>18 DEF Run

LEMMA PumpsOwe ==
    ASSUME TypeOK, HeldIsToBeTold, ChangesAreOwed, NEW d \in Clients, ReadPump(d)
    PROVE  ChangesAreOwed'
<1>1. ConnectionMoves /\ userOf[d] \in Users /\ clients \in SUBSET Clients
  BY PumpMoves, HubTyped DEF TypeOK
<1>2. UNCHANGED <<hub, req, userOf>>
  BY DEF ReadPump, WakeUp, ReadAwake, TellAwake, ReadPumpEnds
<1>3. \A e \in Clients \ {d} : pump'[e] = pump[e] /\ held'[e] = held[e]
  BY DEF ReadPump, WakeUp, ReadAwake, TellAwake, ReadPumpEnds, TypeOK
<1> SUFFICES ASSUME NEW c \in clients', conn'[c] = "open", NEW u \in Users
             PROVE  Served(c, u)'
  BY ServedAreNext
<1>4. c \in clients /\ c \in Clients /\ Served(c, u)
  BY <1>1, OpenWas
<1>5. Effective(u)' = Effective(u) =>
        (HubOwes(c, u) => HubOwes(c, u)') /\ (RequestOwes(u) => RequestOwes(u)')
  BY <1>2, HubKept, RequestKept
<1>6. CASE WakeUp(d)
  <2>1. ChangesOnly(userOf[d]) /\ pump[d] = "wakes" /\ held' = held /\ held[d] = None
    BY <1>1, <1>6, SetAutoAwayIs DEF WakeUp, HeldIsToBeTold
  <2>2. CASE Effective(u)' = Effective(u)
    <3>1. heard'[c][u] = heard[c][u]
      BY <1>4, <2>1, <2>2 DEF ChangesOnly
    <3>2. PumpOwes(u) => PumpOwes(u)'
      BY <1>2, <1>3, <2>1, <2>2, PumpKept
    <3>3. QED
      BY <1>4, <1>5, <2>2, <3>1, <3>2 DEF Served
  <2>3. CASE Effective(u)' # Effective(u)
    <3>1. u = userOf[d]
      BY <2>1, <2>3 DEF ChangesOnly, Effective
    <3>2. entry[u] # None
      <4>1. entry[u] = None => entry'[u] = None
        BY <1>1, <1>6, <3>1, SetAutoAwayIs DEF WakeUp
      <4>2. QED
        BY <2>3, <4>1 DEF Effective
    <3>3. pump'[d] = "tells" /\ held'[d] = None
      BY <1>6, <2>1, <3>1, <3>2 DEF WakeUp, TypeOK
    <3>4. PumpOwes(u)'
      BY <1>2, <3>1, <3>3 DEF PumpOwes
    <3>5. QED
      BY <3>4 DEF Served
  <2>4. QED
    BY <2>2, <2>3
<1>7. CASE ReadAwake(d)
  <2>1. /\ UNCHANGED <<entry, heard, pump>> /\ pump[d] = "tells"
        /\ held'[d] = Effective(userOf[d])
    BY <1>7 DEF ReadAwake, Effective, TypeOK
  <2>2. PumpOwes(u) => PumpOwes(u)'
    <3>1. SUFFICES ASSUME NEW e \in Clients, userOf[e] = u, pump[e] = "tells",
                          held[e] \in {None, Effective(u)}
                   PROVE  PumpOwes(u)'
      BY DEF PumpOwes
    <3>2. CASE e = d
      <4>1. held'[d] = Effective(u)' /\ pump'[d] = "tells" /\ userOf'[d] = u
        BY <1>2, <2>1, <3>1, <3>2, SameEffective
      <4>2. QED
        BY <4>1 DEF PumpOwes
    <3>3. CASE e # d
      <4>1. held'[e] \in {None, Effective(u)'} /\ pump'[e] = "tells" /\ userOf'[e] = u
        BY <1>2, <1>3, <2>1, <3>1, <3>3, SameEffective
      <4>2. QED
        BY <4>1 DEF PumpOwes
    <3>4. QED
      BY <3>2, <3>3
  <2>3. QED
    BY <1>4, <1>5, <2>1, <2>2, SameEffective DEF Served
<1>8. CASE TellAwake(d)
  <2>1. held[d] \in Shown /\ held[d] # None /\ entry' = entry /\ pump[d] = "tells"
    BY <1>8 DEF TellAwake, TypeOK
  <2>2. heard[c][u] \subseteq heard'[c][u] /\ held[d] \in heard'[c][userOf[d]]
    BY <1>1, <1>4, <1>8, <2>1, BroadcastIs DEF TellAwake
  <2>3. PumpOwes(u) => Served(c, u)'
    <3>1. SUFFICES ASSUME NEW e \in Clients, userOf[e] = u, pump[e] = "tells",
                          held[e] \in {None, Effective(u)}
                   PROVE  Served(c, u)'
      BY DEF PumpOwes
    <3>2. CASE e = d
      BY <2>1, <2>2, <3>1, <3>2, SameEffective DEF Served
    <3>3. CASE e # d
      <4>1. held'[e] \in {None, Effective(u)'} /\ pump'[e] = "tells" /\ userOf'[e] = u
        BY <1>2, <1>3, <2>1, <3>1, <3>3, SameEffective
      <4>2. QED
        BY <4>1 DEF PumpOwes, Served
    <3>4. QED
      BY <3>2, <3>3
  <2>4. QED
    BY <1>4, <1>5, <2>1, <2>2, <2>3, SameEffective DEF Served
<1>9. CASE ReadPumpEnds(d)
  <2>1. UNCHANGED <<entry, heard, held>> /\ pump[d] # "tells"
    BY <1>9 DEF ReadPumpEnds
  <2>2. PumpOwes(u) => PumpOwes(u)'
    BY <1>2, <1>3, <2>1, PumpKept, SameEffective
  <2>3. QED
    BY <1>4, <1>5, <2>1, <2>2, SameEffective DEF Served
<1>10. QED
  BY <1>6, <1>7, <1>8, <1>9 DEF ReadPump

LEMMA HandlersOwe ==
    ASSUME TypeOK, RequestsKnowWhom, ChangesAreOwed, NEW r \in Requests, Handler(r)
    PROVE  ChangesAreOwed'
<1>1. ConnectionMoves /\ req[r] \in ReqType /\ clients \in SUBSET Clients
  BY OtherMoves, HubTyped DEF TypeOK
<1>2. UNCHANGED <<hub, pump, held, userOf>>
  BY DEF Handler, UpdatePersistedStatus, StatusIsActivity, ReadStatus, TellStatus
<1>3. \A q \in Requests \ {r} : req'[q] = req[q]
  <2>1. req \in [Requests -> ReqType]
    BY HubTyped
  <2>2. QED
    BY <2>1 DEF Handler, UpdatePersistedStatus, StatusIsActivity, ReadStatus, TellStatus
<1> SUFFICES ASSUME NEW c \in clients', conn'[c] = "open", NEW u \in Users
             PROVE  Served(c, u)'
  BY ServedAreNext
<1>4. c \in clients /\ c \in Clients /\ Served(c, u)
  BY <1>1, OpenWas
<1> DEFINE Owed == /\ req[r].user = u
                   /\ \/ req[r].at \in {"wake", "read"}
                      \/ req[r].at = "tell" /\ req[r].status = Effective(u)
\* The other requests and goroutines keep their debts: it is enough to look at r's.
<1>5. ASSUME Effective(u)' = Effective(u), heard[c][u] \subseteq heard'[c][u],
             Owed => Served(c, u)'
      PROVE  Served(c, u)'
  <2>1. (HubOwes(c, u) => HubOwes(c, u)') /\ (PumpOwes(u) => PumpOwes(u)')
    BY <1>2, <1>5, HubKept, PumpKept
  <2>2. RequestOwes(u) => Served(c, u)'
    <3>1. SUFFICES ASSUME NEW q \in Requests, req[q].user = u,
                          \/ req[q].at \in {"wake", "read"}
                          \/ req[q].at = "tell" /\ req[q].status = Effective(u)
                   PROVE  Served(c, u)'
      BY DEF RequestOwes
    <3>2. CASE q = r
      BY <1>5, <3>1, <3>2
    <3>3. CASE q # r
      <4>1. req'[q] = req[q]
        BY <1>3, <3>3
      <4>2. RequestOwes(u)'
        BY <1>5, <3>1, <4>1 DEF RequestOwes
      <4>3. QED
        BY <4>2 DEF Served
    <3>4. QED
      BY <3>2, <3>3
  <2>3. QED
    BY <1>4, <1>5, <2>1, <2>2 DEF Served
<1>6. CASE UpdatePersistedStatus(r)
  <2>1. /\ req[r].at = "set" /\ req[r].user \in Users /\ req[r].status \in Statuses \cup {None}
    BY <1>6 DEF UpdatePersistedStatus, RequestsKnowWhom
  <2>2. /\ ChangesOnly(req[r].user)
        /\ entry'[req[r].user] = None <=> entry[req[r].user] = None
    BY <1>6, <2>1, SetPersistedStatusIs DEF UpdatePersistedStatus
  <2>3. CASE Effective(u)' = Effective(u)
    <3>1. heard'[c][u] = heard[c][u]
      BY <1>4, <2>2, <2>3 DEF ChangesOnly
    <3>2. QED
      BY <1>5, <2>1, <2>3, <3>1
  <2>4. CASE Effective(u)' # Effective(u)
    <3>1. u = req[r].user
      BY <2>2, <2>4 DEF ChangesOnly, Effective
    <3>2. entry[u] # None
      BY <2>2, <2>4, <3>1 DEF Effective
    <3>3. req'[r].at = "wake" /\ req'[r].user = u
      <4>1. req \in [Requests -> ReqType]
        BY HubTyped
      <4>2. req' = [req EXCEPT ![r].at = "wake"]
        BY <1>6, <3>1, <3>2 DEF UpdatePersistedStatus
      <4>3. QED
        BY <3>1, <4>1, <4>2 DEF ReqType
    <3>4. QED
      BY <3>3 DEF RequestOwes, Served
  <2>5. QED
    BY <2>3, <2>4
<1>7. CASE StatusIsActivity(r)
  <2>1. req[r].at = "wake" /\ req[r].user \in Users
    BY <1>7 DEF StatusIsActivity, RequestsKnowWhom
  <2>2. ChangesOnly(req[r].user)
    BY <1>7, <2>1, SetAutoAwayIs DEF StatusIsActivity
  <2>3. req'[r].at = "read" /\ req'[r].user = req[r].user
    BY <1>7, HubTyped DEF StatusIsActivity, ReqType
  <2>4. CASE u = req[r].user
    BY <2>3, <2>4 DEF RequestOwes, Served
  <2>5. CASE u # req[r].user
    <3>1. Effective(u)' = Effective(u)
      BY <2>2, <2>5 DEF ChangesOnly, Effective
    <3>2. heard'[c][u] = heard[c][u]
      BY <1>4, <2>2, <3>1 DEF ChangesOnly
    <3>3. QED
      BY <1>5, <2>5, <3>1, <3>2
  <2>6. QED
    BY <2>4, <2>5
<1>8. CASE ReadStatus(r)
  <2>1. UNCHANGED <<entry, heard>>
    BY <1>8 DEF ReadStatus
  <2>2. /\ req'[r].at = "tell" /\ req'[r].user = req[r].user
        /\ req'[r].status = Effective(req[r].user)
    BY <1>8, HubTyped DEF ReadStatus, ReqType, Effective
  <2>3. Owed => Served(c, u)'
    BY <2>1, <2>2, SameEffective DEF RequestOwes, Served
  <2>4. QED
    BY <1>5, <2>1, <2>3, SameEffective
<1>9. CASE TellStatus(r)
  <2>1. /\ entry' = entry /\ req[r].at = "tell" /\ req[r].user \in Users /\ req[r].status \in Shown
    BY <1>1, <1>9 DEF TellStatus, RequestsKnowWhom, ReqType
  <2>2. heard[c][u] \subseteq heard'[c][u] /\ req[r].status \in heard'[c][req[r].user]
    <3>1. BroadcastPresence(clients, req[r].user, req[r].status)
      BY <1>9 DEF TellStatus
    <3>2. /\ \A d \in Clients, x \in Users : heard[d][x] \subseteq heard'[d][x]
          /\ \A d \in clients : conn'[d] = "open" => req[r].status \in heard'[d][req[r].user]
      BY <1>1, <2>1, <3>1, BroadcastIs
    <3>3. QED
      BY <1>4, <3>2
  <2>3. Owed => Served(c, u)'
    BY <2>1, <2>2, SameEffective DEF Served
  <2>4. QED
    BY <1>5, <2>1, <2>2, <2>3, SameEffective
<1>10. QED
  BY <1>6, <1>7, <1>8, <1>9 DEF Handler

\* A client that Run registers is owed everything; one that it unregisters is not
\* served any more, and owed nothing to the others.
LEMMA AcceptOwes ==
    ASSUME TypeOK, ClientsAreConnected, ChangesAreOwed, NEW d \in Clients, Accept(d)
    PROVE  ChangesAreOwed'
<1>1. /\ hub \in HubType /\ hub.at = "select" /\ UNCHANGED <<entry, held, req, userOf>>
      /\ \A e \in Clients \ {d} : pump'[e] = pump[e] /\ conn'[e] = conn[e]
      /\ pump[d] # "tells"
  <2>1. /\ pump \in [Clients -> {"off", "reads", "wakes", "tells", "leaves", "gone"}]
        /\ clients \subseteq Clients
    BY DEF TypeOK
  <2>2. hub \in HubType
    BY HubTyped
  <2>3. CASE Register(d)
    <3>1. /\ hub.at = "select" /\ UNCHANGED <<entry, held, req, userOf>>
          /\ pump' = [pump EXCEPT ![d] = "reads"] /\ conn[d] = "handshake"
          /\ conn' = [conn EXCEPT ![d] = IF life = "up" THEN "open" ELSE "closed"]
      BY <2>3 DEF Register, Accept
    <3>2. QED
      BY <2>1, <2>2, <3>1 DEF ClientsAreConnected, TypeOK
  <2>4. CASE Unregister(d)
    BY <2>1, <2>2, <2>4 DEF Unregister, Accept
  <2>5. QED
    BY <2>3, <2>4 DEF Accept
<1> SUFFICES ASSUME NEW c \in clients', conn'[c] = "open", NEW u \in Users
             PROVE  Served(c, u)'
  BY ServedAreNext
<1>2. Effective(u)' = Effective(u)
  BY <1>1, SameEffective
<1>3. (PumpOwes(u) => PumpOwes(u)') /\ (RequestOwes(u) => RequestOwes(u)') /\ ~HubOwes(c, u)
  <2>1. \A e \in Clients : pump[e] = "tells" => pump'[e] = "tells" /\ held'[e] = held[e]
    BY <1>1
  <2>2. QED
    BY <1>1, <1>2, <2>1, PumpKept, RequestKept DEF HubOwes, Registers
<1>4. ASSUME c \in clients, conn[c] = "open", heard'[c] = heard[c] PROVE Served(c, u)'
  <2>1. Served(c, u)
    BY <1>4, ServedAre
  <2>2. QED
    BY <1>2, <1>3, <1>4, <2>1 DEF Served
<1>5. CASE Register(d)
  <2>1. heard' = heard /\ conn[d] = "handshake" /\ d \notin clients
    BY <1>5 DEF Register, ClientsAreConnected
  <2>2. CASE c = d
    <3>1. life = "up"
      BY <1>5, <2>1, <2>2 DEF Register
    <3>2. hub'.at = "previous" /\ hub'.client = d
      BY <1>1, <1>5, <3>1 DEF Register, HubType
    <3>3. HubOwes(c, u)'
      BY <2>2, <3>2 DEF HubOwes, Registers
    <3>4. QED
      BY <3>3 DEF Served
  <2>3. CASE c # d
    <3>1. c \in clients
      BY <1>5, <2>3 DEF Register
    <3>2. conn[c] = "open"
      BY <1>1, <2>3, <3>1 DEF TypeOK
    <3>3. QED
      BY <1>4, <2>1, <3>1, <3>2
  <2>4. QED
    BY <2>2, <2>3
<1>6. CASE Unregister(d)
  <2>1. c \in clients /\ c # d /\ c \in Clients /\ conn' = conn
    BY <1>6 DEF Unregister, TypeOK
  <2>2. heard'[c] = heard[c]
    BY <1>6, <2>1 DEF Unregister, TypeOK
  <2>3. QED
    BY <1>4, <2>1, <2>2
<1>7. QED
  BY <1>5, <1>6 DEF Accept

\* The rest does not touch the presence, and takes nothing on.
LEMMA OthersOwe ==
    ASSUME TypeOK, RequestsKnowWhom, ClientsAreConnected, ChangesAreOwed,
           \/ Tick \/ Shutdown \/ Outside \/ UNCHANGED vars \/ \E c \in Clients : Connection(c)
    PROVE  ChangesAreOwed'
<1>1. UNCHANGED <<clients, entry, heard, held, userOf>>
  BY DEF Tick, AutoAwayTick, ListUsersWithActiveConnections, Shutdown, Flag, CloseAll, Stop,
         Connection, WebSocketHandler, Outside, ConnectionLost, GoesIdle, MarkActivity,
         SessionEnds, Login, DisconnectUser, UpdateStatusMessage, UpdateStatus, vars, systemVars
<1>2. \A c \in clients : c \in Clients /\ (conn'[c] = "open" => conn[c] = "open")
  <2>1. clients \subseteq Clients
    BY DEF TypeOK
  <2>2. CASE Tick \/ Outside \/ \E c \in Clients : Connection(c)
    <3>1. ConnectionMoves
      BY <2>2, OtherMoves, PumpMoves
    <3>2. QED
      BY <2>1, <3>1 DEF ConnectionMoves
  <2>3. CASE Shutdown
    <3>1. CASE CloseAll
      <4>1. \A c \in Clients : conn'[c] = IF c \in clients THEN "closed" ELSE conn[c]
        BY <3>1, CloseIs DEF CloseAll
      <4>2. QED
        BY <2>1, <4>1
    <3>2. CASE Flag \/ Stop
      BY <2>1, <3>2 DEF Flag, Stop
    <3>3. QED
      BY <2>3, <3>1, <3>2 DEF Shutdown
  <2>4. CASE UNCHANGED vars
    BY <2>1, <2>4 DEF vars, systemVars
  <2>5. QED
    BY <2>2, <2>3, <2>4
<1>3. \A e \in Clients : pump[e] = "tells" => pump'[e] = "tells"
  BY DEF Tick, AutoAwayTick, ListUsersWithActiveConnections, Shutdown, Flag, CloseAll, Stop,
         Connection, WebSocketHandler, Outside, ConnectionLost, GoesIdle, MarkActivity,
         SessionEnds, Login, DisconnectUser, UpdateStatusMessage, UpdateStatus, vars, systemVars, TypeOK
<1>4. \A r \in Requests : req[r].at # "new" => req'[r] = req[r]
  <2>1. req \in [Requests -> ReqType]
    BY HubTyped
  <2>2. QED
    BY <2>1
       DEF Tick, AutoAwayTick, ListUsersWithActiveConnections, Shutdown, Flag, CloseAll, Stop,
           Connection, WebSocketHandler, Outside, ConnectionLost, GoesIdle, MarkActivity,
           SessionEnds, Login, DisconnectUser, UpdateStatusMessage, UpdateStatus, vars, systemVars
<1>5. hub' = hub \/ hub.at = "select"
  BY DEF Tick, AutoAwayTick, ListUsersWithActiveConnections, Shutdown, Flag, CloseAll, Stop,
         Connection, WebSocketHandler, Outside, ConnectionLost, GoesIdle, MarkActivity,
         SessionEnds, Login, DisconnectUser, UpdateStatusMessage, UpdateStatus, vars, systemVars
<1> SUFFICES ASSUME NEW c \in clients', conn'[c] = "open", NEW u \in Users
             PROVE  Served(c, u)'
  BY ServedAreNext
<1>6. Served(c, u) /\ Effective(u)' = Effective(u)
  BY <1>1, <1>2, ServedAre, SameEffective
<1>7. PumpOwes(u) => PumpOwes(u)'
  BY <1>1, <1>3, <1>6, PumpKept
<1>8. RequestOwes(u) => RequestOwes(u)'
  BY <1>4, <1>6 DEF RequestOwes
<1>9. HubOwes(c, u) => HubOwes(c, u)'
  <2>1. CASE hub' = hub
    BY <1>6, <2>1, HubKept
  <2>2. CASE hub.at = "select"
    BY <2>2 DEF HubOwes, Registers
  <2>3. QED
    BY <1>5, <2>1, <2>2
<1>10. QED
  BY <1>1, <1>6, <1>7, <1>8, <1>9 DEF Served

LEMMA OwedStep ==
    ASSUME TypeOK, RunKnowsWhom, RequestsKnowWhom, ClientsAreConnected, HeldIsToBeTold,
           OfflineIsGone, AwayIsNoticed, ChangesAreOwed, [Next]_vars
    PROVE  ChangesAreOwed'
BY RunOwes, PumpsOwe, HandlersOwe, AcceptOwes, OthersOwe DEF Next

-----------------------------------------------------------------------------
(***************************************************************************)
(* The theorems.                                                           *)
(***************************************************************************)
LEMMA InvInit == Init => IInv
<1> SUFFICES ASSUME Init PROVE IInv
  OBVIOUS
<1>1. TypeOK
  BY Constants DEF Init, TypeOK, Select, Shown
<1>2. RunKnowsWhom /\ OfflineIsGone /\ AwayIsNoticed
  BY DEF Init, Select, RunKnowsWhom, Registers, OfflineIsGone, AwayIsNoticed
<1>3. RequestsKnowWhom
  BY DEF Init, RequestsKnowWhom
<1>4. ClientsAreConnected /\ HeldIsToBeTold /\ ShutdownLeavesNoneOpen
  BY DEF Init, ClientsAreConnected, HeldIsToBeTold, ShutdownLeavesNoneOpen
<1>5. ChangesAreOwed
  BY DEF Init, ChangesAreOwed
<1>6. PresenceCountsClients
  <2>1. ASSUME NEW u \in Users PROVE Counted(u)
    <3>1. Of(u) = {} /\ entry[u] = None /\ hub.at = "select"
      BY DEF Init, Of, Select
    <3>2. QED
      BY <3>1, FS_EmptySet DEF Counted, Connections, Pending, Leaving
  <2>2. QED
    BY <2>1, CountsAre
<1>7. QED
  BY <1>1, <1>2, <1>3, <1>4, <1>5, <1>6 DEF IInv

LEMMA InvNext == IInv /\ [Next]_vars => IInv'
<1> SUFFICES ASSUME IInv, [Next]_vars PROVE IInv'
  OBVIOUS
<1>1. /\ TypeOK /\ RunKnowsWhom /\ RequestsKnowWhom /\ ClientsAreConnected /\ HeldIsToBeTold
      /\ OfflineIsGone /\ AwayIsNoticed /\ PresenceCountsClients /\ ChangesAreOwed
      /\ ShutdownLeavesNoneOpen
  BY DEF IInv
<1>2. TypeOK' /\ RunKnowsWhom' /\ RequestsKnowWhom'
  BY <1>1, TypeStep, RunKnowsStep, RequestsKnowStep
<1>3. ClientsAreConnected' /\ ShutdownLeavesNoneOpen' /\ HeldIsToBeTold'
  BY <1>1, ConnectionsStep, HeldStep
<1>4. OfflineIsGone' /\ AwayIsNoticed' /\ PresenceCountsClients' /\ ChangesAreOwed'
  BY <1>1, PresenceLooksStep, CountsStep, OwedStep
<1>5. QED
  BY <1>2, <1>3, <1>4 DEF IInv

LEMMA InvAlways == Spec => []IInv
BY InvInit, InvNext, PTL DEF Spec

\* When nothing is under way, nobody owes an event, so all were sent.
LEMMA QuietOwesNothing == ChangesAreOwed => EveryChangeIsTold
<1> SUFFICES ASSUME ChangesAreOwed, Quiet, NEW c \in clients, conn[c] = "open", NEW u \in Users
             PROVE  EffectiveStatus(entry[u]) \in heard[c][u]
  BY DEF EveryChangeIsTold
<1>1. Served(c, u)
  BY ServedAre
<1>2. ~HubOwes(c, u)
  BY DEF Quiet, HubOwes, Registers
<1>3. ~PumpOwes(u)
  BY DEF Quiet, PumpOwes
<1>4. ~RequestOwes(u)
  BY DEF Quiet, RequestOwes
<1>5. QED
  BY <1>1, <1>2, <1>3, <1>4 DEF Served, Effective

\* The hub, the presence, the ReadPumps and the requests always hold what their
\* types say (Run, ReadPump, the handlers of the API).
THEOREM TypeCorrect == Spec => []TypeOK
<1>1. IInv => TypeOK
  BY DEF IInv
<1>2. QED
  BY <1>1, InvAlways, PTL

\* For any number of users, connections and requests: PresenceStore counts the
\* clients of the hub although it has a mutex of its own; whoever changes a
\* presence last also sends it, so that at rest every open connection was sent
\* everybody's present status; and Shutdown leaves no connection open.
THEOREM PresenceAlwaysTold == Spec => []PresenceIsTold
<1>1. IInv => PresenceIsTold
  BY QuietOwesNothing DEF IInv, PresenceIsTold
<1>2. QED
  BY <1>1, InvAlways, PTL

=============================================================================
