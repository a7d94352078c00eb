------------------------------ MODULE Accounts ------------------------------
(***************************************************************************)
(* Who may have a session: accounts and their passwords, bans of accounts  *)
(* and of the addresses they were last seen at, links to set a password,   *)
(* and the password of a private server.  Passwords are versions.  How a   *)
(* session is rotated is in Sessions.                                      *)
(***************************************************************************)
EXTENDS Naturals, FiniteSets

CONSTANTS
    Users,
    Owner,          \* who creates the server
    Managers,       \* users with a role that has manage_server
    Addresses,
    Links,          \* links that may be made
    Requests,
    MaxEvents,      \* bound: requests that begin
    None

\* Assumed by the modules that instantiate this one.
Assumptions == Owner \in Users /\ Managers \subseteq Users /\ MaxEvents \in Nat
               /\ Addresses # {} /\ None \notin Requests \cup Users \cup Addresses

VARIABLES
    server,     \* the one row of servers, None before it is created
    password,   \* of every account, 0 where there is none
    address,    \* last_ip
    banned,
    mustReset,  \* reset_password
    link,       \* of every link: whose it is and whether it still works
    locked,     \* who holds the advisory lock of a user's links
    admitted,   \* users who gave the server's password a short while ago
    sessions,   \* active rows, with the password that was checked
    req,
    late,       \* history: a login or registration has straddled a ban
    events

vars == <<server, password, address, banned, mustReset, link, locked, admitted,
          sessions, req, late, events>>

account == <<password, address, banned, mustReset>>

Server == [name : Nat, password : Nat]
Session == [user : Users, password : Nat, late : BOOLEAN]
NoRequest == [op |-> "idle"]
Request ==
    {NoRequest}
    \cup [op : {"register", "login"}, user : Users, from : Addresses]
    \cup [op : {"insert"}, user : Users, password : Nat]
    \cup [op : {"update"}, old : Server, new : Server]
    \cup [op : {"change"}, user : Users]
    \cup [op : {"link"}, user : Users, link : Links, spent : SUBSET Links]

TypeOK ==
    /\ server \in Server \cup {None} /\ password \in [Users -> Nat]
    /\ address \in [Users -> Addresses \cup {None}]
    /\ banned \subseteq Users /\ mustReset \subseteq Users /\ admitted \subseteq Users
    /\ link \in [Links -> [user : Users \cup {None}, open : BOOLEAN]]
    /\ locked \in [Users -> Requests \cup {None}]
    /\ sessions \subseteq Session /\ late \in BOOLEAN
    /\ req \in [Requests -> Request] /\ events \in 0 .. MaxEvents

\* The owner has just registered.
Init ==
    /\ server = None /\ password = [u \in Users |-> IF u = Owner THEN 1 ELSE 0]
    /\ address = [u \in Users |-> IF u = Owner THEN CHOOSE i \in Addresses : TRUE ELSE None]
    /\ banned = {} /\ mustReset = {} /\ admitted = {} /\ sessions = {}
    /\ link = [l \in Links |-> [user |-> None, open |-> FALSE]]
    /\ locked = [u \in Users |-> None]
    /\ req = [r \in Requests |-> NoRequest] /\ late = FALSE /\ events = 0

Begin(r) == req[r] = NoRequest /\ events < MaxEvents /\ events' = events + 1
Answer(r) == req' = [req EXCEPT ![r] = NoRequest]

IsPrivate == server # None /\ server.password > 0
HasBannedUserByIP(i) == \E u \in banned : address[u] = i

\* What JWTMiddleware lets through.
Authenticated(u) == u \notin banned /\ \E s \in sessions : s.user = u

\* RequireServerOwnerOrManageServer, RequireSelfOrServerOwner.
IsServerOwner(u) == server # None /\ u = Owner
MayManage(u) == Authenticated(u) /\ server # None /\ (IsServerOwner(u) \/ u \in Managers)
MayReset(u, target) == Authenticated(u) /\ (u = target \/ IsServerOwner(u))

(***************************************************************************)
(* Registration and login.                                                 *)
(***************************************************************************)
\* A password that is not given right changes nothing.
LoginServer(r, u, i) ==
    /\ Begin(r) /\ IsPrivate /\ ~HasBannedUserByIP(i)
    /\ admitted' = admitted \cup {u}
    /\ UNCHANGED <<server, account, link, locked, sessions, req, late>>

TempTokenExpires(u) ==
    /\ admitted' = admitted \ {u} /\ u \in admitted
    /\ UNCHANGED <<server, account, link, locked, sessions, req, late, events>>

RequireServerAccess(u) == IsPrivate => u \in admitted

Register(r, u, i) ==
    /\ Begin(r) /\ password[u] = 0 /\ RequireServerAccess(u) /\ ~HasBannedUserByIP(i)
    /\ req' = [req EXCEPT ![r] = [op |-> "register", user |-> u, from |-> i]]
    /\ UNCHANGED <<server, account, link, locked, admitted, sessions, late>>

\* The name is unique.
CreateUser(r) ==
    /\ req[r].op = "register"
    /\ IF password[req[r].user] > 0 THEN UNCHANGED <<password, address>>
       ELSE /\ password' = [password EXCEPT ![req[r].user] = 1]
            /\ address' = [address EXCEPT ![req[r].user] = req[r].from]
    /\ Answer(r)
    /\ UNCHANGED <<server, banned, mustReset, link, locked, admitted, sessions, late, events>>

Login(r, u, i) ==
    /\ Begin(r) /\ RequireServerAccess(u) /\ ~HasBannedUserByIP(i)
    /\ req' = [req EXCEPT ![r] = [op |-> "login", user |-> u, from |-> i]]
    /\ UNCHANGED <<server, account, link, locked, admitted, sessions, late>>

\* The account and its password are read, then last_ip is written.
CheckPassword(r) ==
    /\ req[r].op = "login"
    /\ LET u == req[r].user IN
         IF password[u] = 0 \/ u \in banned THEN Answer(r) /\ UNCHANGED address
         ELSE /\ address' = [address EXCEPT ![u] = req[r].from]
              /\ req' = [req EXCEPT ![r] =
                           [op |-> "insert", user |-> u, password |-> password[u]]]
    /\ UNCHANGED <<server, password, banned, mustReset, link, locked, admitted,
                   sessions, late, events>>

CreateSessionConnection(r) ==
    /\ req[r].op = "insert"
    /\ sessions' = sessions \cup
          {[user |-> req[r].user, password |-> req[r].password,
            late |-> password[req[r].user] # req[r].password]}
    /\ Answer(r)
    /\ UNCHANGED <<server, account, link, locked, admitted, late, events>>

(***************************************************************************)
(* Bans.  Accounts last seen at the same address lose their sessions.      *)
(***************************************************************************)
Straddled == \E r \in Requests : req[r].op \in {"login", "insert"}

SetUserBanned(u) ==
    /\ banned' = banned \cup {u}
    /\ sessions' = {s \in sessions :
                      s.user # u /\ (address[u] # None => address[s.user] # address[u])}

BanUser(r, a, u) ==
    /\ Begin(r) /\ MayManage(a) /\ password[u] > 0 /\ ~IsServerOwner(u)
    /\ SetUserBanned(u) /\ late' = (late \/ Straddled)
    /\ UNCHANGED <<server, password, address, mustReset, link, locked, admitted, req>>

\* No session comes back.
UnbanUser(r, a, u) ==
    /\ Begin(r) /\ MayManage(a) /\ u \in banned
    /\ banned' = banned \ {u}
    /\ UNCHANGED <<server, password, address, mustReset, link, locked, admitted, sessions, req, late>>

\* A banned user who comes with a session loses all of them.
RefuseBanned(r, u) ==
    /\ Begin(r) /\ u \in banned /\ \E s \in sessions : s.user = u
    /\ sessions' = {s \in sessions : s.user # u}
    /\ UNCHANGED <<server, account, link, locked, admitted, req, late>>

(***************************************************************************)
(* Passwords.  A change ends every session in its transaction.             *)
(***************************************************************************)
\* Variant: the sessions go on.
SetPasswordOnly(u) ==
    /\ password' = [password EXCEPT ![u] = @ + 1]
    /\ mustReset' = mustReset \ {u}
    /\ UNCHANGED sessions

SetPassword(u) ==
    /\ password' = [password EXCEPT ![u] = @ + 1]
    /\ mustReset' = mustReset \ {u}
    /\ sessions' = {s \in sessions : s.user # u}

\* Of oneself: the password may be changed once.
ResetUserPassword(r, u) ==
    /\ Begin(r) /\ MayReset(u, u)
    /\ mustReset' = mustReset \cup {u}
    /\ UNCHANGED <<server, password, address, banned, link, locked, admitted, sessions, req, late>>

\* The flag is read first ...
ChangePassword(r, u) ==
    /\ Begin(r) /\ Authenticated(u) /\ u \in mustReset
    /\ req' = [req EXCEPT ![r] = [op |-> "change", user |-> u]]
    /\ UNCHANGED <<server, account, link, locked, admitted, sessions, late>>

\* ... and not again when the password is written.
UpdateUserPassword(r) ==
    /\ req[r].op = "change"
    /\ SetPassword(req[r].user) /\ Answer(r)
    /\ UNCHANGED <<server, address, banned, link, locked, admitted, late, events>>

(***************************************************************************)
(* Links.  Making one spends those there are, under a lock of the user.    *)
(***************************************************************************)
LinksAreFree(u) == locked[u] = None

\* The links that are seen are spent, the new one is inserted by the commit.
CreatePasswordResetLink(r, a, u, l) ==
    /\ Begin(r) /\ a # u /\ MayReset(a, u) /\ password[u] > 0
    /\ link[l].user = None /\ \A q \in Requests : req[q].op = "link" => req[q].link # l
    /\ LinksAreFree(u) /\ locked' = [locked EXCEPT ![u] = r]
    /\ req' = [req EXCEPT ![r] = [op |-> "link", user |-> u, link |-> l,
                                   spent |-> {k \in Links : link[k] = [user |-> u, open |-> TRUE]}]]
    /\ UNCHANGED <<server, account, link, admitted, sessions, late>>

CreatePasswordResetToken(r) ==
    /\ req[r].op = "link"
    /\ link' = [l \in Links |->
                   IF l = req[r].link THEN [user |-> req[r].user, open |-> TRUE]
                   ELSE IF l \in req[r].spent THEN [link[l] EXCEPT !.open = FALSE] ELSE link[l]]
    /\ locked' = [locked EXCEPT ![req[r].user] = None] /\ Answer(r)
    /\ UNCHANGED <<server, account, admitted, sessions, late, events>>

\* A row another transaction is spending is waited for.
ConsumePasswordResetToken(r, l) ==
    /\ Begin(r) /\ link[l].open
    /\ \A q \in Requests : req[q].op = "link" => l \notin req[q].spent
    /\ SetPassword(link[l].user)
    /\ link' = [k \in Links |->
                   IF link[k].user = link[l].user THEN [link[k] EXCEPT !.open = FALSE] ELSE link[k]]
    /\ UNCHANGED <<server, address, banned, locked, admitted, req, late>>

LinkExpires(l) ==
    /\ link[l].open /\ link' = [link EXCEPT ![l].open = FALSE]
    /\ UNCHANGED <<server, account, locked, admitted, sessions, req, late, events>>

(***************************************************************************)
(* The server.                                                             *)
(***************************************************************************)
\* The row is unique: a second one is refused.
CreateServer(r, private) ==
    /\ Begin(r) /\ Authenticated(Owner) /\ server = None
    /\ server' = [name |-> 1, password |-> IF private THEN events + 1 ELSE 0]
    /\ UNCHANGED <<account, link, locked, admitted, sessions, req, late>>

\* What is not given keeps what was read.
NextServer(what) ==
    CASE what = "name" -> [server EXCEPT !.name = events + 1]
      [] what = "password" -> [server EXCEPT !.password = events + 1]
      [] what = "public" -> [server EXCEPT !.password = 0]

PatchServer(r, a, what) ==
    /\ Begin(r) /\ server # None /\ MayManage(a)
    /\ req' = [req EXCEPT ![r] = [op |-> "update", old |-> server, new |-> NextServer(what)]]
    /\ UNCHANGED <<server, account, link, locked, admitted, sessions, late>>

ServerPasswordChanged(old, new) == old.password # new.password

\* All columns are written.
UpdateServer(r) ==
    /\ req[r].op = "update"
    /\ server' = req[r].new
    /\ sessions' = IF ServerPasswordChanged(req[r].old, req[r].new) THEN {} ELSE sessions
    /\ Answer(r)
    /\ UNCHANGED <<account, link, locked, admitted, late, events>>

AccountStep(r) ==
    \/ CreateUser(r) \/ CheckPassword(r) \/ CreateSessionConnection(r)
    \/ UpdateUserPassword(r) \/ CreatePasswordResetToken(r) \/ UpdateServer(r)

Next ==
    \/ \E u \in Users : TempTokenExpires(u)
    \/ \E l \in Links : LinkExpires(l)
    \/ \E r \in Requests :
          \/ AccountStep(r)
          \/ \E u \in Users, i \in Addresses : LoginServer(r, u, i) \/ Register(r, u, i) \/ Login(r, u, i)
          \/ \E a, u \in Users : BanUser(r, a, u) \/ UnbanUser(r, a, u)
          \/ \E u \in Users : RefuseBanned(r, u) \/ ResetUserPassword(r, u) \/ ChangePassword(r, u)
          \/ \E a, u \in Users, l \in Links : CreatePasswordResetLink(r, a, u, l)
          \/ \E l \in Links : ConsumePasswordResetToken(r, l)
          \/ \E private \in BOOLEAN : CreateServer(r, private)
          \/ \E a \in Users, what \in {"name", "password", "public"} : PatchServer(r, a, what)

Spec == Init /\ [][Next]_vars

(***************************************************************************)
(* Properties.                                                             *)
(***************************************************************************)
\* However requests for links overlap, a user has one that works at most.
OneOpenLink ==
    \A l, k \in Links : link[l].open /\ link[k].open /\ link[l].user = link[k].user => l = k

\* The owner of the server is never banned, not even by a manager.
OwnerIsNotBanned == server # None => Owner \notin banned

\* A change of the password leaves no session that was opened with the old one,
\* except of a login that had checked it and not inserted its row yet.
OldPasswordsEnd ==
    \A s \in sessions : s.password = password[s.user] \/ s.late

\* Unless a login was under way during a ban, banned accounts and accounts last
\* seen at their addresses have no session.
BansEndSessions ==
    ~late => \A u \in banned, s \in sessions :
                s.user # u /\ address[s.user] # address[u]

\* The server's password never changes and leaves sessions: "garantindo que não
\* exista uma janela em que a nova senha já esteja persistida mas sessões antigas
\* continuem válidas" (a change of the name that read the row before writes the
\* password it read, and revokes nothing).
ServerPasswordEndsSessions ==
    [][server # None /\ server' # server /\ server'.password # server.password
         => sessions' = {}]_vars
=============================================================================
