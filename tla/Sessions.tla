------------------------------- MODULE Sessions -------------------------------
(***************************************************************************)
(* The session connections of a user: user_connections, its history, and   *)
(* the requests that check, rotate and revoke them.                        *)
(*                                                                         *)
(* A login creates a row; a refresh replaces the row of the presented      *)
(* token by a new one (replaced_by), so the rows of one login form a       *)
(* chain, its family.  A request reads and writes row by row under READ    *)
(* COMMITTED: a statement that revokes everything works on the rows that   *)
(* were there when it began, waits for those a rotation holds locked and   *)
(* then looks at them again.                                               *)
(*                                                                         *)
(* Tokens are identified with their rows.  replaced_at is abstracted to    *)
(* "grace" (at most RefreshGracePeriod ago) and "late".                    *)
(***************************************************************************)
EXTENDS Naturals, FiniteSets

CONSTANTS
    MaxConns,   \* bound: rows ever created
    Reqs,       \* bound: concurrent requests
    None

ASSUME MaxConnsAssumption == MaxConns \in Nat \ {0}
ASSUME NoneAssumption == None \notin Reqs \cup (1 .. MaxConns)

Conns == 1 .. MaxConns

VARIABLES
    status,     \* per row: "unused", "active", "grace" or "late" once replaced_at is set,
                \* "history" when archived, "purged"
    by,         \* replaced_by
    family,     \* history: the first row of the chain
    locker,     \* the rotation that holds the row's lock
    banned,     \* users.banned
    violation,  \* users.connection_violation
    at, tok, cur, snap, why, \* per request: its step, the token presented, the row it
                \* looks at, the rows its revocation began with, and what for
    dropped,    \* history: families of which the active row was revoked alone
    ended       \* history: families a revocation of everything found active

rowVars  == <<status, by, family, locker>>
userVars == <<banned, violation>>
reqVars  == <<at, tok, cur, snap, why>>
vars == <<rowVars, userVars, reqVars, dropped, ended>>

Live == {c \in Conns : status[c] \in {"active", "grace", "late"}}
Active == {c \in Conns : status[c] = "active"}
Unused == {c \in Conns : status[c] = "unused"}
Replaced(c) == status[c] \in {"grace", "late"}

TypeOK ==
    /\ status \in [Conns -> {"unused", "active", "grace", "late", "history", "purged"}]
    /\ by \in [Conns -> Conns \cup {None}]
    /\ family \in [Conns -> Conns \cup {None}]
    /\ locker \in [Conns -> Reqs \cup {None}]
    /\ banned \in BOOLEAN /\ violation \in BOOLEAN
    /\ at \in [Reqs -> {"idle", "refresh", "walk", "lock", "commit", "reread", "revoke",
                        "apply", "logout"}]
    /\ tok \in [Reqs -> Conns \cup {None}]
    /\ cur \in [Reqs -> Conns \cup {None}]
    /\ snap \in [Reqs -> SUBSET Conns]
    /\ why \in [Reqs -> {"none", "reuse", "reset", "ban", "drop"}]
    /\ \A r \in Reqs : at[r] \in {"refresh", "reread", "walk", "lock", "commit", "logout"} =>
          tok[r] # None /\ cur[r] # None
    /\ dropped \in SUBSET Conns
    /\ ended \in SUBSET Conns

Init ==
    /\ status = [c \in Conns |-> "unused"]
    /\ by = [c \in Conns |-> None]
    /\ family = [c \in Conns |-> None]
    /\ locker = [c \in Conns |-> None]
    /\ banned = FALSE /\ violation = FALSE
    /\ at = [r \in Reqs |-> "idle"]
    /\ tok = [r \in Reqs |-> None]
    /\ cur = [r \in Reqs |-> None]
    /\ snap = [r \in Reqs |-> {}]
    /\ why = [r \in Reqs |-> "none"]
    /\ dropped = {}
    /\ ended = {}

-----------------------------------------------------------------------------
Goto(r, l) == at' = [at EXCEPT ![r] = l]

\* The request is answered.
Reply(r) ==
    /\ Goto(r, "idle")
    /\ tok' = [tok EXCEPT ![r] = None]
    /\ cur' = [cur EXCEPT ![r] = None]

\* A statement begins to revoke every active row of the user.
RevokeAllFor(r, w) ==
    /\ Goto(r, "revoke")
    /\ why' = [why EXCEPT ![r] = w]

\* What CheckUserConnection says of the token.
Verdict(c) ==
    IF status[c] = "active" \/ (status[c] = "grace" /\ by[c] # None) THEN "valid"
    ELSE IF status[c] \in {"late", "history"} /\ by[c] # None THEN "reuse"
    ELSE "unknown"

Present(r, c) == at[r] = "idle" /\ status[c] # "unused"

\* Its handler goes on to step l with token c.
Start(r, c, l) ==
    /\ Goto(r, l)
    /\ tok' = [tok EXCEPT ![r] = c]
    /\ cur' = [cur EXCEPT ![r] = c]

-----------------------------------------------------------------------------
\* Login: the password is right and the user is not banned.
CreateSessionConnection(r, c) ==
    /\ at[r] = "idle" /\ ~banned
    /\ c \in Unused /\ \A d \in Unused : c <= d
    /\ status' = [status EXCEPT ![c] = "active"]
    /\ family' = [family EXCEPT ![c] = c]
    /\ UNCHANGED <<by, locker, userVars, reqVars, dropped, ended>>

\* JWTMiddleware on any request; a valid or unknown token changes nothing.
JWTMiddleware(r, c) ==
    /\ Present(r, c)
    /\ \/ banned /\ RevokeAllFor(r, "drop")
       \/ ~banned /\ Verdict(c) = "reuse" /\ RevokeAllFor(r, "reuse")
    /\ UNCHANGED <<rowVars, userVars, tok, cur, snap, dropped, ended>>

\* Logout looks at the token as the middleware does, then revokes its row.
Logout(r, c) ==
    /\ Present(r, c)
    /\ \/ Verdict(c) = "reuse" /\ RevokeAllFor(r, "reuse") /\ UNCHANGED <<tok, cur>>
       \/ Verdict(c) = "valid" /\ Start(r, c, "logout") /\ UNCHANGED why
    /\ UNCHANGED <<rowVars, userVars, snap, dropped, ended>>

\* The UPDATE of RevokeUserConnection on an active row; it waits for a rotation.
RevokeUserConnection(c) ==
    /\ locker[c] = None
    /\ IF status[c] = "active"
       THEN /\ status' = [status EXCEPT ![c] = "grace"]
            /\ dropped' = dropped \cup {family[c]}
       ELSE UNCHANGED <<status, dropped>>
    /\ UNCHANGED <<by, family, locker, userVars, snap, why, ended>>

LogoutRevokes(r) ==
    /\ at[r] = "logout"
    /\ RevokeUserConnection(tok[r])
    /\ Reply(r)

\* POST /auth/drop_connection with the id of a row.
DropConnection(r, c) ==
    /\ Present(r, c)
    /\ RevokeUserConnection(c)
    /\ UNCHANGED <<at, tok, cur>>

\* drop_connection ALL, a password reset and a ban.
DropAll(r, w) ==
    /\ at[r] = "idle"
    /\ w \in {"drop", "reset", "ban"}
    /\ RevokeAllFor(r, w)
    /\ UNCHANGED <<rowVars, userVars, tok, cur, snap, dropped, ended>>

\* The statement's snapshot ...
RevokeAllBegins(r) ==
    /\ at[r] = "revoke"
    /\ snap' = [snap EXCEPT ![r] = Active]
    /\ Goto(r, "apply")
    /\ UNCHANGED <<rowVars, userVars, tok, cur, why, dropped, ended>>

\* ... and its effect, with the rest of its transaction.
RevokeAllUserConnections(r) ==
    /\ at[r] = "apply"
    /\ \A c \in snap[r] : locker[c] = None
    /\ status' = [c \in Conns |-> IF c \in snap[r] \cap Active THEN "grace" ELSE status[c]]
    /\ ended' = ended \cup {family[c] : c \in snap[r]}
    /\ violation' = (why[r] = "reuse" \/ (violation /\ why[r] # "reset"))
    /\ banned' = (banned \/ why[r] = "ban")
    /\ snap' = [snap EXCEPT ![r] = {}]
    /\ why' = [why EXCEPT ![r] = "none"]
    /\ Reply(r)
    /\ UNCHANGED <<by, family, locker, dropped>>

Unban ==
    /\ banned
    /\ banned' = FALSE
    /\ UNCHANGED <<rowVars, violation, reqVars, dropped, ended>>

-----------------------------------------------------------------------------
\* POST /auth/refresh.

RefreshHandler(r, c) ==
    /\ Present(r, c)
    /\ \/ banned /\ RevokeAllFor(r, "drop") /\ UNCHANGED <<tok, cur>>
       \/ ~banned /\ Start(r, c, "refresh") /\ UNCHANGED why
    /\ UNCHANGED <<rowVars, userVars, snap, dropped, ended>>

\* RefreshConnection reads the row of the token, and again after a lost race.
RefreshConnection(r) ==
    /\ at[r] \in {"refresh", "reread"}
    /\ \/ tok[r] \notin Live /\ Reply(r)
       \/ Replaced(tok[r]) /\ Goto(r, "walk") /\ UNCHANGED <<tok, cur>>
       \/ status[tok[r]] = "active" /\ Goto(r, "lock") /\ UNCHANGED <<tok, cur>>
    /\ UNCHANGED <<rowVars, userVars, snap, why, dropped, ended>>

\* Variant: the lost race is taken for a session that ended.
RotateLosesSession(r) ==
    /\ at[r] = "lock"
    /\ locker[tok[r]] = None
    /\ IF status[tok[r]] = "active"
       THEN /\ locker' = [locker EXCEPT ![tok[r]] = r]
            /\ Goto(r, "commit") /\ UNCHANGED <<tok, cur>>
       ELSE Reply(r) /\ UNCHANGED locker
    /\ UNCHANGED <<status, by, family, userVars, snap, why, dropped, ended>>

\* Variant: the UPDATE does not ask for replaced_at IS NULL.
RotateUnguarded(r) ==
    /\ at[r] = "lock"
    /\ locker[tok[r]] = None
    /\ locker' = [locker EXCEPT ![tok[r]] = r]
    /\ Goto(r, "commit")
    /\ UNCHANGED <<status, by, family, userVars, tok, cur, snap, why, dropped, ended>>

\* RotateUserConnection's first statement; it waits for another rotation of the
\* row and finds nothing to update when that one won.
RotateBegins(r) ==
    /\ at[r] = "lock"
    /\ locker[tok[r]] = None
    /\ IF status[tok[r]] = "active"
       THEN locker' = [locker EXCEPT ![tok[r]] = r] /\ Goto(r, "commit")
       ELSE Goto(r, "reread") /\ UNCHANGED locker
    /\ UNCHANGED <<status, by, family, userVars, tok, cur, snap, why, dropped, ended>>

\* The new row, the link and the commit; or an error and a rollback.
RotateUserConnection(r) ==
    LET old == tok[r] IN
    /\ at[r] = "commit"
    /\ locker' = [locker EXCEPT ![old] = None]
    /\ \/ \E new \in Unused :
            /\ \A d \in Unused : new <= d
            /\ status' = [status EXCEPT ![old] = "grace", ![new] = "active"]
            /\ by' = [by EXCEPT ![old] = new]
            /\ family' = [family EXCEPT ![new] = family[old]]
       \/ UNCHANGED <<status, by, family>>
    /\ Reply(r)
    /\ UNCHANGED <<userVars, snap, why, dropped, ended>>

\* Variant: replaced_by is followed though it may be NULL.
TipConnectionUnchecked(r) ==
    LET c == cur[r] IN
    /\ at[r] = "walk"
    /\ \/ /\ Replaced(c)
          /\ cur' = [cur EXCEPT ![r] = by[c]]
          /\ UNCHANGED <<at, tok>>
       \/ ~Replaced(c) /\ Reply(r)
    /\ UNCHANGED <<rowVars, userVars, snap, why, dropped, ended>>

\* One turn of tipConnection, which ends at a row that is active (served), was
\* revoked or is no longer there (refused).
TipConnection(r) ==
    LET c == cur[r] IN
    /\ at[r] = "walk"
    /\ \/ /\ Replaced(c) /\ by[c] # None
          /\ cur' = [cur EXCEPT ![r] = by[c]]
          /\ UNCHANGED <<at, tok>>
       \/ /\ ~(Replaced(c) /\ by[c] # None)
          /\ Reply(r)
    /\ UNCHANGED <<rowVars, userVars, snap, why, dropped, ended>>

-----------------------------------------------------------------------------
\* Time and maintenance.

Busy(c) == \E r \in Reqs : at[r] # "idle" /\ c \in {tok[r], cur[r]}

GraceEnds(c) ==
    /\ status[c] = "grace"
    /\ status' = [status EXCEPT ![c] = "late"]
    /\ UNCHANGED <<by, family, locker, userVars, reqVars, dropped, ended>>

\* MoveUserConnectionsToHistory: the oldest replaced rows go together, and rows
\* that stay lose a link to one that goes (ON DELETE SET NULL).  A request does
\* not last the twelve hours of connectionArchiveDelay.
MoveToHistory(old) ==
    /\ old # {}
    /\ \A c \in old : status[c] = "late" /\ ~Busy(c)
    /\ \A c \in Live : by[c] \in old => c \in old
    /\ status' = [c \in Conns |-> IF c \in old THEN "history" ELSE status[c]]
    /\ by' = [c \in Conns |-> IF c \in Live \ old /\ by[c] \in old THEN None ELSE by[c]]
    /\ UNCHANGED <<family, locker, userVars, reqVars, dropped, ended>>

PurgeHistory(c) ==
    /\ status[c] = "history"
    /\ status' = [status EXCEPT ![c] = "purged"]
    /\ UNCHANGED <<by, family, locker, userVars, reqVars, dropped, ended>>

-----------------------------------------------------------------------------
Request(r, c) ==
    \/ CreateSessionConnection(r, c)
    \/ JWTMiddleware(r, c)
    \/ Logout(r, c)
    \/ DropConnection(r, c)
    \/ RefreshHandler(r, c)

RequestStep(r) ==
    \/ RefreshConnection(r)
    \/ RotateBegins(r)
    \/ RotateUserConnection(r)
    \/ TipConnection(r)
    \/ LogoutRevokes(r)
    \/ RevokeAllBegins(r)
    \/ RevokeAllUserConnections(r)

Next ==
    \/ \E r \in Reqs, c \in Conns : Request(r, c)
    \/ \E r \in Reqs, w \in {"drop", "reset", "ban"} : DropAll(r, w)
    \/ \E r \in Reqs : RequestStep(r)
    \/ Unban
    \/ \E c \in Conns : GraceEnds(c) \/ PurgeHistory(c)
    \/ \E old \in SUBSET Conns : MoveToHistory(old)

Spec == Init /\ [][Next]_vars

-----------------------------------------------------------------------------
\* Properties.

\* Refreshes that race never fork a session: a login has at most one active row
\* (the UPDATE ... WHERE replaced_at IS NULL of RotateUserConnection).
OneActivePerLogin ==
    \A c, d \in Active : family[c] = family[d] => c = d

\* A refresh is refused only when the session really ended: a tab that lost the
\* race of the rotation is served the tip of the chain.
RefreshKeepsSessionStep ==
    \A r \in Reqs :
       /\ at[r] \in {"lock", "reread", "walk"} /\ at'[r] = "idle"
       /\ status[cur[r]] # "active"
       => family[tok[r]] \in dropped \cup ended

\* connection_violation is raised only for a token that was replaced by rotation
\* and left its grace period, never for one that was merely revoked.
ViolationsAreReuse ==
    violation => \E c \in Conns : by[c] # None /\ status[c] \in {"late", "history", "purged"}

\* A client that presents the tokens it was given goes on, however its refreshes
\* overlap (RefreshConnection, tipConnection, HandleConnectionReuse).
HonestClientsGoOn == []ViolationsAreReuse /\ [][RefreshKeepsSessionStep]_vars

\* A session of which the connection was revoked (logout, drop) does not live on
\* in a successor, however a refresh overlaps.
DroppedStaysDropped ==
    \A c \in Active : family[c] \notin dropped

\* "RevokeAllUserConnections revoga todas as conexões ativas do usuário"
\* (user_connections.go): no session it found lives on.
RevokedAllStaysRevoked ==
    \A c \in Active : family[c] \notin ended
=============================================================================
