------------------------------ MODULE Channels ------------------------------
(***************************************************************************)
(* Channels, their order and who may read them.  A channel has entries for *)
(* roles; without entries everyone reads it, and the owner of the server   *)
(* always does.  Every request reads and writes in several transactions.   *)
(* Of permissions only read_channel is modelled, names and topics are not. *)
(***************************************************************************)
EXTENDS Naturals, FiniteSets

CONSTANTS
    Users, Owner,
    Channels, Roles,
    Requests,
    MaxEvents,      \* bound: requests that begin
    None

\* Assumed by the modules that instantiate this one.
Assumptions == Owner \in Users /\ MaxEvents \in Nat /\ None \notin Requests

VARIABLES
    position,   \* of every channel, 0 where there is none
    entries,    \* the entry of every role: "none", "read" or "denied"
    roles,      \* the roles there are
    holders,    \* user_roles
    lock,       \* who holds the advisory lock of the positions
    req,        \* the requests that are under way
    events

vars == <<position, entries, roles, holders, lock, req, events>>

Entry == {"none", "read", "denied"}
NoRequest == [op |-> "idle"]
Request ==
    {NoRequest}
    \cup [op : {"create", "insert"}, channel : Channels]
    \cup [op : {"insertAt"}, channel : Channels, place : Nat]
    \cup [op : {"move", "place"}, channel : Channels, old : Nat, new : Nat]
    \cup [op : {"permit"}, channel : Channels, role : Roles, entry : Entry]

TypeOK ==
    /\ position \in [Channels -> Nat]
    /\ entries \in [Channels -> [Roles -> Entry]]
    /\ roles \subseteq Roles /\ holders \subseteq Users \X Roles
    /\ lock \in Requests \cup {None} /\ events \in 0 .. MaxEvents
    /\ req \in [Requests -> Request]

Init ==
    /\ position = [c \in Channels |-> 0]
    /\ entries = [c \in Channels |-> [x \in Roles |-> "none"]]
    /\ roles = {} /\ holders = {} /\ lock = None
    /\ req = [r \in Requests |-> NoRequest] /\ events = 0

Exists(c) == position[c] > 0
Existing == {c \in Channels : Exists(c)}
Last == CHOOSE n \in {0} \cup {position[c] : c \in Channels} : \A c \in Channels : position[c] <= n

Begin(r) == req[r] = NoRequest /\ events < MaxEvents /\ events' = events + 1
Answer(r) == req' = [req EXCEPT ![r] = NoRequest]

(***************************************************************************)
(* Who may read, as the three places that decide it compute it.            *)
(***************************************************************************)
IsOpen(c) == \A x \in Roles : entries[c][x] = "none"
GetRolesByUser(u) == {x \in roles : <<u, x>> \in holders}
GetUsersByRoles(S) == {u \in Users : \E x \in S : <<u, x>> \in holders}

\* One user: joins, lists of messages, sending.
UserHasChannelPermission(c, u) ==
    \/ u = Owner
    \/ IsOpen(c)
    \/ \E x \in GetRolesByUser(u) : entries[c][x] = "read"

CanReadChannel(c, u) == Exists(c) /\ UserHasChannelPermission(c, u)

\* Many users: broadcasts and notifications.
ChannelReaders(c) ==
    IF ~Exists(c) THEN {}
    ELSE IF IsOpen(c) THEN Users
    ELSE {Owner} \cup GetUsersByRoles({x \in Roles : entries[c][x] = "read"})

\* The WHERE of a search.
SearchMessages(u) ==
    {c \in Existing :
        \/ u = Owner
        \/ IsOpen(c)
        \/ \E x \in roles : <<u, x>> \in holders /\ entries[c][x] = "read"}

(***************************************************************************)
(* Positions.  They are assigned under an advisory lock, that is let go of *)
(* when the transaction ends.                                              *)
(***************************************************************************)
PositionsAreFree == lock = None

\* The limit on channels is counted in a statement of its own before (see the README).
CreateChannel(r, c) ==
    /\ Begin(r) /\ ~Exists(c) /\ \A q \in Requests : req[q] # NoRequest => req[q].channel # c
    /\ req' = [req EXCEPT ![r] = [op |-> "create", channel |-> c]]
    /\ UNCHANGED <<position, entries, roles, holders, lock>>

BeginInsert(r) ==
    /\ req[r].op = "create" /\ PositionsAreFree
    /\ lock' = r /\ req' = [req EXCEPT ![r].op = "insert"]
    /\ UNCHANGED <<position, entries, roles, holders, events>>

InsertChannel(r) ==
    /\ req[r].op = "insert"
    /\ req' = [req EXCEPT ![r] = [op |-> "insertAt", channel |-> req[r].channel, place |-> Last + 1]]
    /\ UNCHANGED <<position, entries, roles, holders, lock, events>>

CommitChannel(r) ==
    /\ req[r].op = "insertAt"
    /\ position' = [position EXCEPT ![req[r].channel] = req[r].place]
    /\ lock' = None /\ Answer(r)
    /\ UNCHANGED <<entries, roles, holders, events>>

ChangeChannelPosition(r, c, old, new) ==
    /\ Begin(r) /\ Exists(c)
    /\ req' = [req EXCEPT ![r] = [op |-> "move", channel |-> c, old |-> old, new |-> new]]
    /\ UNCHANGED <<position, entries, roles, holders, lock>>

\* FOR UPDATE: from here to the commit the row is not deleted.
ReadPosition(r) ==
    /\ req[r].op = "move" /\ PositionsAreFree
    /\ LET m == req[r] IN
         IF Exists(m.channel) /\ position[m.channel] = m.old /\ m.new <= Cardinality(Existing)
         THEN lock' = r /\ req' = [req EXCEPT ![r].op = "place"]
         ELSE lock' = lock /\ Answer(r)
    /\ UNCHANGED <<position, entries, roles, holders, events>>

\* Variant: the channel at the destination is not moved out of the way.
ShiftedShort(p, old, new) ==
    IF p > old /\ p < new THEN p - 1 ELSE IF p > new /\ p < old THEN p + 1 ELSE p

\* What the channels between the two places get.
Shifted(p, old, new) ==
    IF p > old /\ p <= new THEN p - 1 ELSE IF p >= new /\ p < old THEN p + 1 ELSE p

MoveChannel(r) ==
    /\ req[r].op = "place"
    /\ LET m == req[r] IN
         position' = [c \in Channels |->
             IF c = m.channel THEN m.new
             ELSE IF Exists(c) THEN Shifted(position[c], m.old, m.new) ELSE 0]
    /\ lock' = None /\ Answer(r)
    /\ UNCHANGED <<entries, roles, holders, events>>

\* No lock is taken and the others keep their positions.
DeleteChannel(r, c) ==
    /\ Begin(r) /\ Exists(c)
    /\ \A q \in Requests : req[q].op = "place" => req[q].channel # c
    /\ position' = [position EXCEPT ![c] = 0]
    /\ entries' = [entries EXCEPT ![c] = [x \in Roles |-> "none"]]
    /\ UNCHANGED <<roles, holders, lock, req>>

(***************************************************************************)
(* Roles and entries.                                                      *)
(***************************************************************************)
\* Ids are not used again.
CreateRole(r, x) ==
    /\ Begin(r) /\ x \notin roles
    /\ \A c \in Channels : entries[c][x] = "none"
    /\ \A q \in Requests : req[q].op = "permit" => req[q].role # x
    /\ roles' = roles \cup {x}
    /\ UNCHANGED <<position, entries, holders, lock, req>>

DeleteRole(r, x) ==
    /\ Begin(r) /\ x \in roles
    /\ roles' = roles \ {x}
    /\ entries' = [c \in Channels |-> [entries[c] EXCEPT ![x] = "none"]]
    /\ holders' = {h \in holders : h[2] # x}
    /\ UNCHANGED <<position, lock, req>>

\* A role is assigned once; the foreign key refuses a role that is gone.
AssignUserRole(r, u, x) ==
    /\ Begin(r) /\ x \in roles
    /\ holders' = holders \cup {<<u, x>>}
    /\ UNCHANGED <<position, entries, roles, lock, req>>

RemoveUserRole(r, u, x) ==
    /\ Begin(r) /\ <<u, x>> \in holders
    /\ holders' = holders \ {<<u, x>>}
    /\ UNCHANGED <<position, entries, roles, lock, req>>

\* The channel and the role are looked up first ...
UpdateChannelPermissions(r, c, x, e) ==
    /\ Begin(r) /\ Exists(c) /\ x \in roles
    /\ req' = [req EXCEPT ![r] = [op |-> "permit", channel |-> c, role |-> x, entry |-> e]]
    /\ UNCHANGED <<position, entries, roles, holders, lock>>

\* ... and the entry is written if the channel is still there.
WriteEntry(r) ==
    /\ req[r].op = "permit"
    /\ LET p == req[r] IN
         entries' = IF Exists(p.channel) THEN [entries EXCEPT ![p.channel][p.role] = p.entry]
                    ELSE entries
    /\ Answer(r)
    /\ UNCHANGED <<position, roles, holders, lock, events>>

\* The entry of a role that is gone cannot be removed.
DeleteChannelRolePermission(r, c, x) ==
    /\ Begin(r) /\ Exists(c) /\ x \in roles
    /\ entries' = [entries EXCEPT ![c][x] = "none"]
    /\ UNCHANGED <<position, roles, holders, lock, req>>

ChannelStep(r) ==
    \/ BeginInsert(r) \/ InsertChannel(r) \/ CommitChannel(r)
    \/ ReadPosition(r) \/ MoveChannel(r) \/ WriteEntry(r)

Places == 1 .. Cardinality(Channels)

Next ==
    \E r \in Requests :
        \/ ChannelStep(r)
        \/ \E c \in Channels : CreateChannel(r, c) \/ DeleteChannel(r, c)
        \/ \E c \in Channels, old, new \in Places : ChangeChannelPosition(r, c, old, new)
        \/ \E x \in Roles : CreateRole(r, x) \/ DeleteRole(r, x)
        \/ \E u \in Users, x \in Roles : AssignUserRole(r, u, x) \/ RemoveUserRole(r, u, x)
        \/ \E c \in Channels, x \in Roles, e \in Entry \ {"none"} :
              UpdateChannelPermissions(r, c, x, e)
        \/ \E c \in Channels, x \in Roles : DeleteChannelRolePermission(r, c, x)

Spec == Init /\ [][Next]_vars

(***************************************************************************)
(* Properties.                                                             *)
(***************************************************************************)
\* No two channels are at one position, however creations, moves and deletions
\* interleave.
PositionsAreDistinct ==
    \A c, d \in Existing : position[c] = position[d] => c = d

\* A move keeps the order of the channels it does not name, and nothing else
\* changes the order of channels at all.
OthersKeepTheirOrderStep ==
    \A c, d \in Channels :
      /\ Exists(c) /\ Exists(d) /\ position'[c] > 0 /\ position'[d] > 0
      /\ \A r \in Requests : req[r].op = "place" => req[r].channel \notin {c, d}
      => (position[c] < position[d] <=> position'[c] < position'[d])
OthersKeepTheirOrder == [][OthersKeepTheirOrderStep]_vars

\* The three places that decide who reads a channel (of one user, of many, in
\* a search) agree, also after roles were deleted with entries and holders left.
ReadRulesAgree ==
    \A c \in Channels : LET readers == {u \in Users : CanReadChannel(c, u)}
                        IN /\ readers = ChannelReaders(c)
                           /\ readers = {u \in Users : c \in SearchMessages(u)}

\* What comments say and the model refutes:
\*
\* A channel has entries only of roles there are: DeleteRole "remove sua entrada
\* das permissões de todos os canais, de maneira atômica" (it may be written
\* again by a request that looked the role up before).
EntriesHaveRoles ==
    \A c \in Channels, x \in Roles : entries[c][x] # "none" => x \in roles

\* The positions are contiguous, from 1 to the number of channels, as the
\* comment of ChangeChannelPosition says (a deletion leaves its place empty).
PositionsAreContiguous ==
    (\A r \in Requests : req[r] = NoRequest)
        => {position[c] : c \in Existing} = 1 .. Cardinality(Existing)
=============================================================================
