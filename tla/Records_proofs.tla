--------------------------- MODULE Records_proofs ---------------------------
(***************************************************************************)
(* Proofs about the parts of the server that keep their state in the       *)
(* database, for any number of requests: the sessions (typing, the chain   *)
(* of the rows of a login with the one lock that extends it, what a token  *)
(* that was replaced may mean), the accounts, the conversations of two     *)
(* users, and the channels with their order.                               *)
(***************************************************************************)
EXTENDS MCRecords, WellFoundedInduction, TLAPS

-----------------------------------------------------------------------------
(***************************************************************************)
(* Who may have a session (Accounts): its own users, requests and links,   *)
(* in any number.  Bans and passwords are kept in order by one group of    *)
(* invariants, the links by the lock of their user.                        *)
(***************************************************************************)
\* A session, and a login about to insert one, is of an account that exists and
\* was seen somewhere; the owner is never banned, nor who has no account.
LoginsAreOfAccounts ==
    /\ Owner \notin accountBanned
    /\ \A u \in accountBanned : password[u] > 0
    /\ \A s \in sessions : s.password > 0 /\ password[s.user] > 0 /\ address[s.user] # None
    /\ \A r \in Reqs : accountReq[r].op = "insert" =>
          accountReq[r].password > 0 /\ password[accountReq[r].user] > 0 /\ address[accountReq[r].user] # None

\* Unless a ban came between, no login under way is of a banned account or address.
LoginsAreOfNoBanned ==
    ~ late => \A b \in accountBanned : \A r \in Reqs :
        /\ accountReq[r].op = "login" => address[b] # accountReq[r].from
        /\ accountReq[r].op = "insert" => accountReq[r].user # b /\ address[accountReq[r].user] # address[b]

\* Who makes a link holds the lock of its user, and has seen every open link of theirs.
LinksAreLocked ==
    /\ \A l \in ResetLinks : link[l].open => link[l].user # None
    /\ \A r \in Reqs : accountReq[r].op = "link" =>
          /\ locked[accountReq[r].user] = r /\ link[accountReq[r].link].user = None
          /\ \A k \in ResetLinks : link[k].open /\ link[k].user = accountReq[r].user => k \in accountReq[r].spent
    /\ \A r, q \in Reqs : accountReq[r].op = "link" /\ accountReq[q].op = "link" /\ accountReq[r].link = accountReq[q].link => r = q

LoginInv ==
    /\ LoginsAreOfAccounts /\ LoginsAreOfNoBanned
    /\ Account!OldPasswordsEnd /\ Account!BansEndSessions
LinkInv == LinksAreLocked /\ Account!OneOpenLink
AccountInv == Account!TypeOK /\ LoginInv /\ LinkInv

LEMMA AccountConstants ==
    ASSUME Account!Assumptions
    PROVE  Owner \in Users /\ MaxEvents \in Nat /\ None \notin Reqs /\ None \notin Users /\ None \notin Addresses
BY DEF Account!Assumptions

\* What a request carries.
LEMMA RequestFields ==
    ASSUME Account!TypeOK, NEW r \in Reqs
    PROVE  /\ accountReq[r].op \in {"idle", "register", "login", "insert", "update", "change", "link"}
           /\ accountReq[r].op \in {"register", "login"} => accountReq[r].user \in Users /\ accountReq[r].from \in Addresses
           /\ accountReq[r].op = "insert" => accountReq[r].user \in Users /\ accountReq[r].password \in Nat
           /\ accountReq[r].op = "update" => accountReq[r].new \in Account!Server
           /\ accountReq[r].op = "change" => accountReq[r].user \in Users
           /\ accountReq[r].op = "link" =>
                accountReq[r].user \in Users /\ accountReq[r].link \in ResetLinks /\ accountReq[r].spent \in SUBSET ResetLinks
<1>1. accountReq[r] \in Account!Request
  BY DEF Account!TypeOK
<1> QED
  BY <1>1 DEF Account!Request, Account!NoRequest

\* A request that takes a step.
Moves(r, to) == accountReq' = [accountReq EXCEPT ![r] = to]

LEMMA MovesFacts ==
    ASSUME Account!TypeOK, NEW r \in Reqs, NEW to \in Account!Request, Moves(r, to)
    PROVE  /\ accountReq' \in [Reqs -> Account!Request]
           /\ \A q \in Reqs : accountReq'[q] = IF q = r THEN to ELSE accountReq[q]
BY DEF Account!TypeOK, Moves

LEMMA IdleIsRequest == Account!NoRequest \in Account!Request /\ Account!NoRequest.op = "idle"
BY DEF Account!Request, Account!NoRequest

LEMMA BeginFacts ==
    ASSUME Account!Assumptions, Account!TypeOK, NEW r \in Reqs, Account!Begin(r)
    PROVE  accountEvents' \in 0 .. MaxEvents /\ accountReq[r].op = "idle"
BY AccountConstants DEF Account!Begin, Account!TypeOK, Account!NoRequest

\* Whoever neither logs in nor touches accounts leaves logins in order.
LEMMA LoginsStay ==
    ASSUME LoginInv, UNCHANGED <<password, address, late>>, sessions' \subseteq sessions, accountBanned' \subseteq accountBanned,
           \A r \in Reqs : accountReq'[r] = accountReq[r] \/ accountReq'[r].op \notin {"login", "insert"}
    PROVE  LoginInv'
<1>1. LoginsAreOfAccounts'
  BY DEF LoginInv, LoginsAreOfAccounts
<1>2. LoginsAreOfNoBanned'
  BY DEF LoginInv, LoginsAreOfNoBanned
<1>3. Account!OldPasswordsEnd' /\ Account!BansEndSessions'
  BY DEF LoginInv, Account!OldPasswordsEnd, Account!BansEndSessions
<1> QED
  BY <1>1, <1>2, <1>3 DEF LoginInv

\* Whoever makes no link leaves links in order.
LEMMA LinksStay ==
    ASSUME LinkInv, locked' = locked,
           \A l \in ResetLinks : link'[l].user = link[l].user /\ (link'[l].open => link[l].open),
           \A r \in Reqs : accountReq'[r] = accountReq[r] \/ accountReq'[r].op # "link",
           Account!TypeOK
    PROVE  LinkInv'
<1>1. \A r \in Reqs : accountReq[r].op = "link" => accountReq[r].link \in ResetLinks
  BY RequestFields
<1>2. LinksAreLocked'
  <2>1. \A l \in ResetLinks : link'[l].open => link'[l].user # None
    BY DEF LinkInv, LinksAreLocked
  <2>2. ASSUME NEW r \in Reqs, accountReq'[r].op = "link"
        PROVE  /\ locked'[accountReq'[r].user] = r /\ link'[accountReq'[r].link].user = None
               /\ \A k \in ResetLinks : link'[k].open /\ link'[k].user = accountReq'[r].user => k \in accountReq'[r].spent
    BY <1>1, <2>2 DEF LinkInv, LinksAreLocked
  <2>3. \A r, q \in Reqs : accountReq'[r].op = "link" /\ accountReq'[q].op = "link" /\ accountReq'[r].link = accountReq'[q].link => r = q
    BY DEF LinkInv, LinksAreLocked
  <2> QED
    BY <2>1, <2>2, <2>3 DEF LinksAreLocked
<1>3. Account!OneOpenLink'
  BY DEF LinkInv, Account!OneOpenLink
<1> QED
  BY <1>2, <1>3 DEF LinkInv

\* A new password ends the user's sessions.
LEMMA NewPasswordKeeps ==
    ASSUME Account!TypeOK, LoginInv, NEW u \in Users, Account!SetPassword(u), UNCHANGED <<address, accountBanned, late>>,
           \A r \in Reqs : accountReq'[r] = accountReq[r] \/ accountReq'[r].op \notin {"login", "insert"}
    PROVE  LoginInv' /\ password' \in [Users -> Nat] /\ mustReset' \subseteq Users /\ sessions' \subseteq Account!Session
<1>1. /\ password' = [password EXCEPT ![u] = @ + 1]
      /\ sessions' = {s \in sessions : s.user # u} /\ mustReset' \subseteq mustReset
  BY DEF Account!SetPassword
<1>2. /\ password' \in [Users -> Nat] /\ sessions \subseteq Account!Session
      /\ \A v \in Users : password[v] > 0 => password'[v] > 0
      /\ \A v \in Users \ {u} : password'[v] = password[v]
  BY <1>1 DEF Account!TypeOK
<1>3. \A s \in sessions : s.user \in Users
  BY <1>2 DEF Account!Session
<1>4. LoginsAreOfAccounts'
  <2>1. \A r \in Reqs : accountReq[r].op = "insert" => accountReq[r].user \in Users
    BY RequestFields
  <2>2. \A v \in accountBanned : v \in Users
    BY DEF Account!TypeOK
  <2> QED
    BY <1>1, <1>2, <1>3, <2>1, <2>2 DEF LoginInv, LoginsAreOfAccounts
<1>5. LoginsAreOfNoBanned'
  BY DEF LoginInv, LoginsAreOfNoBanned
<1>6. Account!OldPasswordsEnd' /\ Account!BansEndSessions'
  BY <1>1, <1>2, <1>3 DEF LoginInv, Account!OldPasswordsEnd, Account!BansEndSessions
<1> QED
  BY <1>1, <1>2, <1>4, <1>5, <1>6 DEF LoginInv, Account!TypeOK


-----------------------------------------------------------------------------
\* Bans, and what others do to the accounts.
LEMMA CreateUserKeeps ==
    ASSUME Account!TypeOK, AccountInv, NEW r \in Reqs, Account!CreateUser(r)
    PROVE  AccountInv'
<1>. DEFINE u == accountReq[r].user
            i == accountReq[r].from
<1>1. u \in Users /\ i \in Addresses
  BY RequestFields DEF Account!CreateUser
<1>2. Moves(r, Account!NoRequest)
  BY DEF Account!CreateUser, Account!Answer, Moves
<1>3. /\ accountReq' \in [Reqs -> Account!Request]
      /\ \A q \in Reqs : accountReq'[q] = accountReq[q] \/ accountReq'[q].op = "idle"
  BY <1>2, MovesFacts, IdleIsRequest
<1>4. UNCHANGED <<server, accountBanned, mustReset, link, locked, admitted, sessions, late, accountEvents>>
  BY DEF Account!CreateUser
<1>5. LinkInv'
  BY <1>3, <1>4, LinksStay DEF AccountInv
<1>6. CASE password[u] > 0
  <2>1. UNCHANGED <<password, address>>
    BY <1>6 DEF Account!CreateUser
  <2>2. LoginInv'
    BY <1>3, <1>4, <2>1, LoginsStay DEF AccountInv
  <2> QED
    BY <1>3, <1>4, <1>5, <2>1, <2>2 DEF AccountInv, Account!TypeOK
<1>7. CASE ~(password[u] > 0)
  <2>1. password' = [password EXCEPT ![u] = 1] /\ address' = [address EXCEPT ![u] = i]
    BY <1>7 DEF Account!CreateUser
  <2>2. /\ password' \in [Users -> Nat] /\ address' \in [Users -> Addresses \cup {None}]
        /\ \A v \in Users : v # u => password'[v] = password[v] /\ address'[v] = address[v]
        /\ u \notin accountBanned
    BY <1>1, <1>7, <2>1 DEF Account!TypeOK, AccountInv, LoginInv, LoginsAreOfAccounts
  <2>3. \A s \in sessions : s.user \in Users /\ s.user # u
    BY <1>7 DEF Account!TypeOK, Account!Session, AccountInv, LoginInv, LoginsAreOfAccounts
  <2>4. \A q \in Reqs : accountReq[q].op = "insert" => accountReq[q].user \in Users /\ accountReq[q].user # u
    BY <1>7, RequestFields DEF AccountInv, LoginInv, LoginsAreOfAccounts
  <2>5. accountBanned \subseteq Users
    BY DEF Account!TypeOK
  <2>. HIDE DEF u, i
  <2>6. LoginsAreOfAccounts'
    BY <1>3, <1>4, <2>2, <2>3, <2>4, <2>5 DEF AccountInv, LoginInv, LoginsAreOfAccounts
  <2>7. LoginsAreOfNoBanned'
    BY <1>3, <1>4, <2>2, <2>4, <2>5 DEF AccountInv, LoginInv, LoginsAreOfNoBanned
  <2>8. Account!OldPasswordsEnd' /\ Account!BansEndSessions'
    BY <1>3, <1>4, <2>2, <2>3, <2>5 DEF AccountInv, LoginInv, Account!OldPasswordsEnd, Account!BansEndSessions
  <2> QED
    BY <1>3, <1>4, <1>5, <2>2, <2>6, <2>7, <2>8 DEF AccountInv, LoginInv, Account!TypeOK
<1> QED
  BY <1>6, <1>7

\* The request holds what it read; the account was not banned then.
LEMMA CheckPasswordKeeps ==
    ASSUME Account!Assumptions, Account!TypeOK, AccountInv, NEW r \in Reqs, Account!CheckPassword(r)
    PROVE  AccountInv'
<1>. DEFINE u == accountReq[r].user
            i == accountReq[r].from
            to == [op |-> "insert", user |-> u, password |-> password[u]]
<1>1. u \in Users /\ i \in Addresses
  BY RequestFields DEF Account!CheckPassword
<1>2. UNCHANGED <<server, password, accountBanned, mustReset, link, locked, admitted, sessions, late, accountEvents>>
  BY DEF Account!CheckPassword
<1>3. CASE password[u] = 0 \/ u \in accountBanned
  <2>1. Moves(r, Account!NoRequest) /\ UNCHANGED address
    BY <1>3 DEF Account!CheckPassword, Account!Answer, Moves
  <2>2. /\ accountReq' \in [Reqs -> Account!Request]
        /\ \A q \in Reqs : accountReq'[q] = accountReq[q] \/ accountReq'[q].op = "idle"
    BY <2>1, MovesFacts, IdleIsRequest
  <2>3. LoginInv' /\ LinkInv'
    BY <1>2, <2>1, <2>2, LoginsStay, LinksStay DEF AccountInv
  <2> QED
    BY <1>2, <2>1, <2>2, <2>3 DEF AccountInv, Account!TypeOK
<1>4. CASE ~(password[u] = 0 \/ u \in accountBanned)
  <2>1. address' = [address EXCEPT ![u] = i] /\ Moves(r, to)
    BY <1>4 DEF Account!CheckPassword, Moves
  <2>2. /\ address' \in [Users -> Addresses \cup {None}] /\ address'[u] = i
        /\ \A v \in Users : v # u => address'[v] = address[v]
        /\ u \notin accountBanned /\ password[u] \in Nat /\ password[u] > 0
        /\ i # None
    BY <1>1, <1>4, <2>1, AccountConstants DEF Account!TypeOK, AccountInv
  <2>3. to \in Account!Request
    BY <1>1, <2>2 DEF Account!Request
  <2>4. /\ accountReq' \in [Reqs -> Account!Request]
        /\ \A q \in Reqs : accountReq'[q] = IF q = r THEN to ELSE accountReq[q]
    BY <2>1, <2>3, MovesFacts
  <2>5. to.op = "insert" /\ to.user = u /\ to.password = password[u]
    OBVIOUS
  <2>6. \A q \in Reqs : accountReq[q].op = "insert" => accountReq[q].user \in Users
    BY RequestFields
  <2>7. \A s \in sessions : s.user \in Users
    BY DEF Account!TypeOK, Account!Session
  <2>8. accountBanned \subseteq Users /\ accountReq[r].op = "login"
    BY DEF Account!TypeOK, Account!CheckPassword
  <2>9. ~ late => \A b \in accountBanned : address[b] # i
    BY <2>8 DEF AccountInv, LoginInv, LoginsAreOfNoBanned
  <2>. HIDE DEF u, i, to
  <2>10. LoginsAreOfAccounts'
    BY <1>2, <2>2, <2>4, <2>5, <2>6, <2>7, <2>8 DEF AccountInv, LoginInv, LoginsAreOfAccounts
  <2>11. LoginsAreOfNoBanned'
    BY <1>2, <2>2, <2>4, <2>5, <2>6, <2>8, <2>9 DEF AccountInv, LoginInv, LoginsAreOfNoBanned
  <2>12. Account!OldPasswordsEnd' /\ Account!BansEndSessions'
    BY <1>2, <2>2, <2>7, <2>8, <2>9 DEF AccountInv, LoginInv, Account!OldPasswordsEnd, Account!BansEndSessions
  <2>13. LinkInv'
    BY <1>2, <2>4, <2>5, LinksStay DEF AccountInv
  <2> QED
    BY <1>2, <2>2, <2>4, <2>10, <2>11, <2>12, <2>13 DEF AccountInv, LoginInv, Account!TypeOK
<1> QED
  BY <1>3, <1>4

LEMMA CreateSessionKeeps ==
    ASSUME Account!TypeOK, AccountInv, NEW r \in Reqs, Account!CreateSessionConnection(r)
    PROVE  AccountInv'
<1>. DEFINE u == accountReq[r].user
            new == [user |-> u, password |-> accountReq[r].password, late |-> password[u] # accountReq[r].password]
<1>1. u \in Users /\ accountReq[r].password \in Nat /\ accountReq[r].op = "insert"
  BY RequestFields DEF Account!CreateSessionConnection
<1>2. /\ UNCHANGED <<server, password, address, accountBanned, mustReset, link, locked, admitted, late, accountEvents>>
      /\ Moves(r, Account!NoRequest) /\ sessions' = sessions \cup {new}
  BY DEF Account!CreateSessionConnection, Account!account, Account!Answer, Moves
<1>3. /\ accountReq' \in [Reqs -> Account!Request]
      /\ \A q \in Reqs : accountReq'[q] = accountReq[q] \/ accountReq'[q].op = "idle"
  BY <1>2, MovesFacts, IdleIsRequest
<1>4. new \in Account!Session
  BY <1>1 DEF Account!Session
<1>5. /\ new.user = u /\ new.password = accountReq[r].password
      /\ new.late = (password[u] # accountReq[r].password)
  OBVIOUS
<1>6. /\ accountReq[r].password > 0 /\ password[u] > 0 /\ address[u] # None
      /\ ~ late => \A b \in accountBanned : u # b /\ address[u] # address[b]
  BY <1>1 DEF AccountInv, LoginInv, LoginsAreOfAccounts, LoginsAreOfNoBanned
<1>. HIDE DEF u, new
<1>7. LoginsAreOfAccounts'
  BY <1>2, <1>3, <1>5, <1>6 DEF AccountInv, LoginInv, LoginsAreOfAccounts
<1>8. LoginsAreOfNoBanned'
  BY <1>2, <1>3 DEF AccountInv, LoginInv, LoginsAreOfNoBanned
<1>9. Account!OldPasswordsEnd' /\ Account!BansEndSessions'
  BY <1>2, <1>5, <1>6 DEF AccountInv, LoginInv, Account!OldPasswordsEnd, Account!BansEndSessions
<1>10. LinkInv'
  BY <1>2, <1>3, LinksStay DEF AccountInv
<1> QED
  BY <1>2, <1>3, <1>4, <1>7, <1>8, <1>9, <1>10 DEF AccountInv, LoginInv, Account!TypeOK

\* Whoever is banned is not the owner, and nobody was logging in (or it is late).
LEMMA BanKeeps ==
    ASSUME Account!Assumptions, Account!TypeOK, AccountInv,
           NEW r \in Reqs, NEW a \in Users, NEW u \in Users, Account!BanUser(r, a, u)
    PROVE  AccountInv'
<1>1. /\ accountEvents' \in 0 .. MaxEvents /\ password[u] > 0
      /\ UNCHANGED <<server, password, address, mustReset, link, locked, admitted, accountReq>>
      /\ accountBanned' = accountBanned \cup {u}
      /\ sessions' = {s \in sessions : s.user # u /\ (address[u] # None => address[s.user] # address[u])}
      /\ late' = (late \/ Account!Straddled)
  BY BeginFacts DEF Account!BanUser, Account!SetUserBanned
<1>2. u # Owner
  BY DEF Account!BanUser, Account!IsServerOwner, Account!MayManage
<1>3. LoginsAreOfAccounts'
  BY <1>1, <1>2 DEF AccountInv, LoginInv, LoginsAreOfAccounts
<1>4. LoginsAreOfNoBanned'
  BY <1>1 DEF LoginsAreOfNoBanned, Account!Straddled
<1>5. \A s \in sessions : address[s.user] # None
  BY DEF AccountInv, LoginInv, LoginsAreOfAccounts
<1>6. Account!OldPasswordsEnd' /\ Account!BansEndSessions'
  BY <1>1, <1>5 DEF AccountInv, LoginInv, Account!OldPasswordsEnd, Account!BansEndSessions
<1>7. LinkInv'
  BY <1>1, LinksStay DEF AccountInv
<1> QED
  BY <1>1, <1>3, <1>4, <1>6, <1>7 DEF AccountInv, LoginInv, Account!TypeOK

\* Whoever asks for a login is at no banned address.
LEMMA LoginKeeps ==
    ASSUME Account!Assumptions, Account!TypeOK, AccountInv,
           NEW r \in Reqs, NEW u \in Users, NEW i \in Addresses, Account!Login(r, u, i)
    PROVE  AccountInv'
<1>. DEFINE to == [op |-> "login", user |-> u, from |-> i]
<1>1. /\ accountEvents' \in 0 .. MaxEvents /\ Moves(r, to)
      /\ UNCHANGED <<server, password, address, accountBanned, mustReset, link, locked, admitted, sessions, late>>
      /\ ~ Account!HasBannedUserByIP(i)
  BY BeginFacts DEF Account!Login, Account!account, Moves
<1>2. to \in Account!Request /\ to.op = "login" /\ to.from = i
  BY DEF Account!Request
<1>3. /\ accountReq' \in [Reqs -> Account!Request]
      /\ \A q \in Reqs : accountReq'[q] = IF q = r THEN to ELSE accountReq[q]
  BY <1>1, <1>2, MovesFacts
<1>. HIDE DEF to
<1>4. LoginsAreOfAccounts'
  BY <1>1, <1>2, <1>3 DEF AccountInv, LoginInv, LoginsAreOfAccounts
<1>5. LoginsAreOfNoBanned'
  BY <1>1, <1>2, <1>3 DEF AccountInv, LoginInv, LoginsAreOfNoBanned, Account!HasBannedUserByIP
<1>6. Account!OldPasswordsEnd' /\ Account!BansEndSessions'
  BY <1>1 DEF AccountInv, LoginInv, Account!OldPasswordsEnd, Account!BansEndSessions
<1>7. LinkInv'
  BY <1>1, <1>2, <1>3, LinksStay DEF AccountInv
<1> QED
  BY <1>1, <1>3, <1>4, <1>5, <1>6, <1>7 DEF AccountInv, LoginInv, Account!TypeOK

\* No step of these logs in, bans or makes a link.
LEMMA OthersKeep ==
    ASSUME Account!Assumptions, Account!TypeOK, AccountInv, NEW r \in Reqs, NEW a \in Users, NEW u \in Users,
           NEW i \in Addresses, NEW private \in BOOLEAN, NEW what \in {"name", "password", "public"},
           \/ Account!TempTokenExpires(u) \/ Account!UpdateServer(r) \/ Account!LoginServer(r, u, i)
           \/ Account!Register(r, u, i) \/ Account!UnbanUser(r, a, u) \/ Account!RefuseBanned(r, u)
           \/ Account!ResetUserPassword(r, u) \/ Account!ChangePassword(r, u)
           \/ Account!CreateServer(r, private) \/ Account!PatchServer(r, a, what)
    PROVE  AccountInv'
<1>1. /\ UNCHANGED <<password, address, link, locked, late>>
      /\ sessions' \subseteq sessions /\ accountBanned' \subseteq accountBanned
  BY DEF Account!TempTokenExpires, Account!UpdateServer, Account!LoginServer, Account!Register,
         Account!UnbanUser, Account!RefuseBanned, Account!ResetUserPassword, Account!ChangePassword,
         Account!CreateServer, Account!PatchServer, Account!account
<1>2. /\ accountReq' \in [Reqs -> Account!Request] /\ accountEvents' \in 0 .. MaxEvents
      /\ \A q \in Reqs : accountReq'[q] = accountReq[q] \/ accountReq'[q].op \notin {"login", "insert", "link"}
  <2>1. CASE UNCHANGED accountReq /\ (UNCHANGED accountEvents \/ Account!Begin(r))
    BY <2>1, BeginFacts DEF Account!TypeOK
  <2>2. CASE Account!UpdateServer(r)
    <3>1. Moves(r, Account!NoRequest) /\ UNCHANGED accountEvents
      BY <2>2 DEF Account!UpdateServer, Account!Answer, Moves
    <3> QED
      BY <3>1, MovesFacts, IdleIsRequest DEF Account!TypeOK
  <2>3. CASE Account!Register(r, u, i)
    <3>. DEFINE to == [op |-> "register", user |-> u, from |-> i]
    <3>1. Moves(r, to) /\ accountEvents' \in 0 .. MaxEvents
      BY <2>3, BeginFacts DEF Account!Register, Moves
    <3>2. to \in Account!Request /\ to.op = "register"
      BY DEF Account!Request
    <3>. HIDE DEF to
    <3> QED
      BY <3>1, <3>2, MovesFacts
  <2>4. CASE Account!ChangePassword(r, u)
    <3>. DEFINE to == [op |-> "change", user |-> u]
    <3>1. Moves(r, to) /\ accountEvents' \in 0 .. MaxEvents
      BY <2>4, BeginFacts DEF Account!ChangePassword, Moves
    <3>2. to \in Account!Request /\ to.op = "change"
      BY DEF Account!Request
    <3>. HIDE DEF to
    <3> QED
      BY <3>1, <3>2, MovesFacts
  <2>5. CASE Account!PatchServer(r, a, what)
    <3>. DEFINE to == [op |-> "update", old |-> server, new |-> Account!NextServer(what)]
    <3>1. Moves(r, to) /\ accountEvents' \in 0 .. MaxEvents /\ server \in Account!Server
      BY <2>5, BeginFacts DEF Account!PatchServer, Moves, Account!TypeOK
    <3>2. Account!NextServer(what) \in Account!Server
      BY <3>1 DEF Account!NextServer, Account!Server, Account!TypeOK
    <3>3. to \in Account!Request /\ to.op = "update"
      BY <3>1, <3>2 DEF Account!Request
    <3>. HIDE DEF to
    <3> QED
      BY <3>1, <3>3, MovesFacts
  <2> QED
    BY <2>1, <2>2, <2>3, <2>4, <2>5
       DEF Account!TempTokenExpires, Account!LoginServer, Account!UnbanUser, Account!RefuseBanned,
           Account!ResetUserPassword, Account!CreateServer
<1>3. /\ server' \in Account!Server \cup {None}
      /\ mustReset' \subseteq Users /\ admitted' \subseteq Users
  <2>1. CASE Account!UpdateServer(r)
    BY <2>1, RequestFields DEF Account!UpdateServer, Account!account, Account!TypeOK
  <2>2. CASE Account!CreateServer(r, private)
    BY <2>2 DEF Account!CreateServer, Account!account, Account!TypeOK, Account!Server
  <2> QED
    BY <2>1, <2>2 DEF Account!TypeOK, Account!TempTokenExpires, Account!LoginServer, Account!Register,
         Account!UnbanUser, Account!RefuseBanned, Account!ResetUserPassword, Account!ChangePassword,
         Account!PatchServer, Account!account
<1>4. LoginInv' /\ LinkInv'
  BY <1>1, <1>2, LoginsStay, LinksStay DEF AccountInv
<1> QED
  BY <1>1, <1>2, <1>3, <1>4 DEF AccountInv, Account!TypeOK

\* The password that is written is the only one.
LEMMA UpdatePasswordKeeps ==
    ASSUME Account!TypeOK, AccountInv, NEW r \in Reqs, Account!UpdateUserPassword(r)
    PROVE  AccountInv'
<1>1. PICK u \in Users : u = accountReq[r].user
  BY RequestFields DEF Account!UpdateUserPassword
<1>2. /\ Account!SetPassword(u) /\ Moves(r, Account!NoRequest)
      /\ UNCHANGED <<server, address, accountBanned, link, locked, admitted, late, accountEvents>>
  BY <1>1 DEF Account!UpdateUserPassword, Account!Answer, Moves
<1>3. /\ accountReq' \in [Reqs -> Account!Request]
      /\ \A q \in Reqs : accountReq'[q] = accountReq[q] \/ accountReq'[q].op = "idle"
  BY <1>2, MovesFacts, IdleIsRequest
<1>4. LoginInv' /\ password' \in [Users -> Nat] /\ mustReset' \subseteq Users /\ sessions' \subseteq Account!Session
  BY <1>2, <1>3, NewPasswordKeeps DEF AccountInv
<1>5. LinkInv'
  BY <1>2, <1>3, LinksStay DEF AccountInv
<1> QED
  BY <1>2, <1>3, <1>4, <1>5 DEF AccountInv, Account!TypeOK

LEMMA ConsumeKeeps ==
    ASSUME Account!Assumptions, Account!TypeOK, AccountInv, NEW r \in Reqs, NEW l \in ResetLinks,
           Account!ConsumePasswordResetToken(r, l)
    PROVE  AccountInv'
<1>1. PICK u \in Users : u = link[l].user
  BY DEF Account!ConsumePasswordResetToken, Account!TypeOK, AccountInv, LinkInv, LinksAreLocked
<1>2. /\ Account!SetPassword(u) /\ accountEvents' \in 0 .. MaxEvents
      /\ UNCHANGED <<server, address, accountBanned, locked, admitted, accountReq, late>>
      /\ link' = [k \in ResetLinks |-> IF link[k].user = u THEN [link[k] EXCEPT !.open = FALSE] ELSE link[k]]
  BY <1>1, BeginFacts DEF Account!ConsumePasswordResetToken
<1>3. LoginInv' /\ password' \in [Users -> Nat] /\ mustReset' \subseteq Users /\ sessions' \subseteq Account!Session
  BY <1>2, NewPasswordKeeps DEF AccountInv
<1>4. link' \in [ResetLinks -> [user : Users \cup {None}, open : BOOLEAN]]
  BY <1>2 DEF Account!TypeOK
<1>5. \A k \in ResetLinks : link'[k].user = link[k].user /\ (link'[k].open => link[k].open)
  BY <1>2 DEF Account!TypeOK
<1>6. LinkInv'
  BY <1>2, <1>5, LinksStay DEF AccountInv
<1> QED
  BY <1>2, <1>3, <1>4, <1>6 DEF AccountInv, Account!TypeOK

LEMMA ExpiryKeeps ==
    ASSUME Account!TypeOK, AccountInv, NEW l \in ResetLinks, Account!LinkExpires(l)
    PROVE  AccountInv'
<1>1. /\ UNCHANGED <<server, password, address, accountBanned, mustReset, locked, admitted, sessions, accountReq, late, accountEvents>>
      /\ link' = [link EXCEPT ![l].open = FALSE]
  BY DEF Account!LinkExpires, Account!account
<1>2. link' \in [ResetLinks -> [user : Users \cup {None}, open : BOOLEAN]]
  BY <1>1 DEF Account!TypeOK
<1>3. \A k \in ResetLinks : link'[k].user = link[k].user /\ (link'[k].open => link[k].open)
  BY <1>1 DEF Account!TypeOK
<1>4. LoginInv' /\ LinkInv'
  BY <1>1, <1>3, LoginsStay, LinksStay DEF AccountInv
<1> QED
  BY <1>1, <1>2, <1>4 DEF AccountInv, Account!TypeOK

\* Who takes the lock of a user sees every open link of theirs.
LEMMA CreateLinkKeeps ==
    ASSUME Account!Assumptions, Account!TypeOK, AccountInv, NEW r \in Reqs, NEW a \in Users, NEW u \in Users,
           NEW l \in ResetLinks, Account!CreatePasswordResetLink(r, a, u, l)
    PROVE  AccountInv'
<1>. DEFINE spent == {k \in ResetLinks : link[k] = [user |-> u, open |-> TRUE]}
            to == [op |-> "link", user |-> u, link |-> l, spent |-> spent]
<1>1. /\ accountEvents' \in 0 .. MaxEvents /\ Moves(r, to) /\ accountReq[r].op = "idle"
      /\ UNCHANGED <<server, password, address, accountBanned, mustReset, link, admitted, sessions, late>>
      /\ locked' = [locked EXCEPT ![u] = r] /\ locked[u] = None
      /\ link[l].user = None /\ \A q \in Reqs : accountReq[q].op = "link" => accountReq[q].link # l
  BY BeginFacts DEF Account!CreatePasswordResetLink, Account!account, Account!LinksAreFree, Moves
<1>2. to \in Account!Request
  BY DEF Account!Request
<1>3. /\ accountReq' \in [Reqs -> Account!Request]
      /\ \A q \in Reqs : accountReq'[q] = IF q = r THEN to ELSE accountReq[q]
  BY <1>1, <1>2, MovesFacts
<1>4. /\ to.op = "link" /\ to.user = u /\ to.link = l
      /\ \A k \in ResetLinks : link[k].open /\ link[k].user = u => k \in to.spent
  BY DEF Account!TypeOK
<1>5. /\ locked' \in [Users -> Reqs \cup {None}] /\ locked'[u] = r
      /\ \A v \in Users : v # u => locked'[v] = locked[v]
  BY <1>1 DEF Account!TypeOK
<1>6. \A q \in Reqs : accountReq[q].op = "link" => accountReq[q].user \in Users /\ accountReq[q].user # u
  BY <1>1, RequestFields, AccountConstants DEF AccountInv, LinkInv, LinksAreLocked
<1>. HIDE DEF to
<1>7. LoginInv'
  BY <1>1, <1>3, <1>4, LoginsStay DEF AccountInv
<1>8. LinksAreLocked'
  <2>1. ASSUME NEW q \in Reqs, accountReq'[q].op = "link"
        PROVE  /\ locked'[accountReq'[q].user] = q /\ link'[accountReq'[q].link].user = None
               /\ \A k \in ResetLinks : link'[k].open /\ link'[k].user = accountReq'[q].user => k \in accountReq'[q].spent
    BY <1>1, <1>3, <1>4, <1>5, <1>6, <2>1 DEF AccountInv, LinkInv, LinksAreLocked
  <2>2. \A q, p \in Reqs :
           accountReq'[q].op = "link" /\ accountReq'[p].op = "link" /\ accountReq'[q].link = accountReq'[p].link => q = p
    BY <1>1, <1>3, <1>4 DEF AccountInv, LinkInv, LinksAreLocked
  <2>3. \A k \in ResetLinks : link'[k].open => link'[k].user # None
    BY <1>1 DEF AccountInv, LinkInv, LinksAreLocked
  <2> QED
    BY <2>1, <2>2, <2>3 DEF LinksAreLocked
<1>9. Account!OneOpenLink'
  BY <1>1 DEF AccountInv, LinkInv, Account!OneOpenLink
<1> QED
  BY <1>1, <1>3, <1>5, <1>7, <1>8, <1>9 DEF AccountInv, LinkInv, Account!TypeOK

\* Its link is then the only one that is open.
LEMMA CommitLinkKeeps ==
    ASSUME Account!Assumptions, Account!TypeOK, AccountInv, NEW r \in Reqs, Account!CreatePasswordResetToken(r)
    PROVE  AccountInv'
<1>1. PICK u \in Users, l \in ResetLinks, spent \in SUBSET ResetLinks :
         u = accountReq[r].user /\ l = accountReq[r].link /\ spent = accountReq[r].spent
  BY RequestFields DEF Account!CreatePasswordResetToken
<1>2. /\ UNCHANGED <<server, password, address, accountBanned, mustReset, admitted, sessions, late, accountEvents>>
      /\ Moves(r, Account!NoRequest) /\ locked' = [locked EXCEPT ![u] = None]
      /\ link' = [k \in ResetLinks |->
                     IF k = l THEN [user |-> u, open |-> TRUE]
                     ELSE IF k \in spent THEN [link[k] EXCEPT !.open = FALSE] ELSE link[k]]
  BY <1>1 DEF Account!CreatePasswordResetToken, Account!account, Account!Answer, Moves
<1>3. /\ accountReq' \in [Reqs -> Account!Request]
      /\ \A q \in Reqs : accountReq'[q] = IF q = r THEN Account!NoRequest ELSE accountReq[q]
  BY <1>2, MovesFacts, IdleIsRequest
<1>4. /\ locked[u] = r /\ link[l].user = None
      /\ \A k \in ResetLinks : link[k].open /\ link[k].user = u => k \in spent
      /\ accountReq[r].op = "link"
  BY <1>1 DEF Account!CreatePasswordResetToken, AccountInv, LinkInv, LinksAreLocked
<1>5. /\ locked' \in [Users -> Reqs \cup {None}]
      /\ \A v \in Users : v # u => locked'[v] = locked[v]
  BY <1>2 DEF Account!TypeOK
<1>6. /\ link' \in [ResetLinks -> [user : Users \cup {None}, open : BOOLEAN]]
      /\ link'[l].user = u /\ u # None
      /\ \A k \in ResetLinks : k # l => link'[k].user = link[k].user /\ (link'[k].open => link[k].open /\ k \notin spent)
  <2>1. link'[l] = [user |-> u, open |-> TRUE]
    BY <1>2
  <2>2. link' \in [ResetLinks -> [user : Users \cup {None}, open : BOOLEAN]]
    BY <1>2 DEF Account!TypeOK
  <2>3. \A k \in ResetLinks : k # l => link'[k].user = link[k].user
    BY <1>2 DEF Account!TypeOK
  <2>4. \A k \in ResetLinks : k # l => (link'[k].open => link[k].open /\ k \notin spent)
    BY <1>2 DEF Account!TypeOK
  <2> QED
    BY <2>1, <2>2, <2>3, <2>4, AccountConstants
<1>7. LoginInv'
  BY <1>2, <1>3, IdleIsRequest, LoginsStay DEF AccountInv
<1>8. ASSUME NEW q \in Reqs, accountReq'[q].op = "link"
      PROVE  /\ q # r /\ accountReq'[q] = accountReq[q]
             /\ accountReq[q].user \in Users /\ accountReq[q].user # u
             /\ accountReq[q].link \in ResetLinks /\ accountReq[q].link # l
  BY <1>1, <1>3, <1>4, <1>8, IdleIsRequest, RequestFields DEF AccountInv, LinkInv, LinksAreLocked
<1>9. LinksAreLocked'
  <2>1. ASSUME NEW q \in Reqs, accountReq'[q].op = "link"
        PROVE  /\ locked'[accountReq'[q].user] = q /\ link'[accountReq'[q].link].user = None
               /\ \A k \in ResetLinks : link'[k].open /\ link'[k].user = accountReq'[q].user => k \in accountReq'[q].spent
    BY <1>5, <1>6, <1>8, <2>1 DEF AccountInv, LinkInv, LinksAreLocked
  <2>2. \A q, p \in Reqs :
           accountReq'[q].op = "link" /\ accountReq'[p].op = "link" /\ accountReq'[q].link = accountReq'[p].link => q = p
    BY <1>8 DEF AccountInv, LinkInv, LinksAreLocked
  <2>3. \A k \in ResetLinks : link'[k].open => link'[k].user # None
    BY <1>6 DEF AccountInv, LinkInv, LinksAreLocked
  <2> QED
    BY <2>1, <2>2, <2>3 DEF LinksAreLocked
<1>10. Account!OneOpenLink'
  BY <1>4, <1>6 DEF AccountInv, LinkInv, Account!OneOpenLink
<1> QED
  BY <1>2, <1>3, <1>5, <1>6, <1>7, <1>9, <1>10 DEF AccountInv, LinkInv, Account!TypeOK

LEMMA AccountStepKeeps ==
    ASSUME Account!Assumptions, AccountInv, [Account!Next]_accountVars
    PROVE  AccountInv'
<1>0. Account!TypeOK
  BY DEF AccountInv
<1>1. ASSUME NEW u \in Users, Account!TempTokenExpires(u) PROVE AccountInv'
  <2>1. /\ UNCHANGED <<server, password, address, accountBanned, mustReset, link, locked, sessions, accountReq, late, accountEvents>>
        /\ admitted' \subseteq admitted
    BY <1>1 DEF Account!TempTokenExpires, Account!account
  <2>2. LoginInv' /\ LinkInv'
    BY <1>0, <2>1, LoginsStay, LinksStay DEF AccountInv
  <2> QED
    BY <1>0, <2>1, <2>2 DEF AccountInv, Account!TypeOK
<1>2. ASSUME NEW l \in ResetLinks, Account!LinkExpires(l) PROVE AccountInv'
  BY <1>0, <1>2, ExpiryKeeps
<1>3. ASSUME NEW r \in Reqs, Account!AccountStep(r) PROVE AccountInv'
  <2>1. CASE Account!UpdateServer(r)
    BY <1>0, <2>1, OthersKeep, AccountConstants DEF Account!Assumptions
  <2> QED
    BY <1>0, <1>3, <2>1, CreateUserKeeps, CheckPasswordKeeps, CreateSessionKeeps, UpdatePasswordKeeps,
       CommitLinkKeeps DEF Account!AccountStep
<1>4. ASSUME NEW r \in Reqs, NEW u \in Users, NEW i \in Addresses,
             Account!LoginServer(r, u, i) \/ Account!Register(r, u, i) \/ Account!Login(r, u, i)
      PROVE  AccountInv'
  BY <1>0, <1>4, OthersKeep, LoginKeeps
<1>5. ASSUME NEW r \in Reqs, NEW a \in Users, NEW u \in Users, Account!BanUser(r, a, u) \/ Account!UnbanUser(r, a, u)
      PROVE  AccountInv'
  BY <1>0, <1>5, OthersKeep, BanKeeps, AccountConstants DEF Account!Assumptions
<1>6. ASSUME NEW r \in Reqs, NEW u \in Users,
             Account!RefuseBanned(r, u) \/ Account!ResetUserPassword(r, u) \/ Account!ChangePassword(r, u)
      PROVE  AccountInv'
  BY <1>0, <1>6, OthersKeep DEF Account!Assumptions
<1>7. ASSUME NEW r \in Reqs, NEW a \in Users, NEW u \in Users, NEW l \in ResetLinks,
             Account!CreatePasswordResetLink(r, a, u, l)
      PROVE  AccountInv'
  BY <1>0, <1>7, CreateLinkKeeps
<1>8. ASSUME NEW r \in Reqs, NEW l \in ResetLinks, Account!ConsumePasswordResetToken(r, l) PROVE AccountInv'
  BY <1>0, <1>8, ConsumeKeeps
<1>9. ASSUME NEW r \in Reqs, NEW private \in BOOLEAN, Account!CreateServer(r, private) PROVE AccountInv'
  BY <1>0, <1>9, OthersKeep, AccountConstants DEF Account!Assumptions
<1>10. ASSUME NEW r \in Reqs, NEW a \in Users, NEW what \in {"name", "password", "public"}, Account!PatchServer(r, a, what)
       PROVE  AccountInv'
  BY <1>0, <1>10, OthersKeep DEF Account!Assumptions
<1>11. CASE UNCHANGED accountVars
  <2>1. LoginInv' /\ LinkInv'
    BY <1>0, <1>11, LoginsStay, LinksStay DEF AccountInv, accountVars
  <2> QED
    BY <1>11, <2>1 DEF AccountInv, Account!TypeOK, accountVars
<1> QED
  BY <1>1, <1>2, <1>3, <1>4, <1>5, <1>6, <1>7, <1>8, <1>9, <1>10, <1>11 DEF Account!Next

LEMMA AccountInitInv ==
    ASSUME Account!Assumptions, Account!Init
    PROVE  AccountInv
<1>1. Account!TypeOK
  <2>1. PICK i \in Addresses : i = CHOOSE j \in Addresses : TRUE
    BY DEF Account!Assumptions
  <2>2. address \in [Users -> Addresses \cup {None}] /\ password \in [Users -> Nat]
    BY <2>1 DEF Account!Init
  <2>3. /\ accountReq \in [Reqs -> Account!Request] /\ locked \in [Users -> Reqs \cup {None}]
        /\ link \in [ResetLinks -> [user : Users \cup {None}, open : BOOLEAN]]
    BY IdleIsRequest DEF Account!Init
  <2>4. server \in Account!Server \cup {None} /\ late \in BOOLEAN /\ accountEvents \in 0 .. MaxEvents
    <3>1. server = None /\ late = FALSE /\ accountEvents = 0
      BY DEF Account!Init
    <3>2. late \in BOOLEAN
      BY <3>1, Zenon
    <3>3. accountEvents \in 0 .. MaxEvents
      BY <3>1, AccountConstants
    <3>4. server \in Account!Server \cup {None}
      BY <3>1
    <3> QED
      BY <3>2, <3>3, <3>4, Zenon
  <2>5. accountBanned \subseteq Users /\ mustReset \subseteq Users /\ admitted \subseteq Users
        /\ sessions \subseteq Account!Session
    BY DEF Account!Init
  <2> QED
    BY <2>2, <2>3, <2>4, <2>5 DEF Account!TypeOK
<1>2. LoginInv /\ LinkInv
  BY IdleIsRequest DEF Account!Init, LoginInv, LoginsAreOfAccounts, LoginsAreOfNoBanned, Account!OldPasswordsEnd,
     Account!BansEndSessions, LinkInv, LinksAreLocked, Account!OneOpenLink
<1> QED
  BY <1>1, <1>2 DEF AccountInv

\* A behaviour that is of the accounts takes their steps only.
LEMMA RecordsAccounts ==
    (part = "accounts" => AccountInv) /\ [RecordsNext]_recordsVars => (part = "accounts" => AccountInv)'
<1> SUFFICES ASSUME part = "accounts" => AccountInv, [RecordsNext]_recordsVars, part' = "accounts"
             PROVE  AccountInv'
  OBVIOUS
<1>1. part = "accounts" /\ [Account!Next]_accountVars
  BY DEF RecordsNext, recordsVars
<1> QED
  BY <1>1, AccountStepKeeps, RecordsAssumption

\* Who has a session may log in now, for any users, addresses, links and
\* requests in flight, but for logins that were under way when their password or
\* their right to log in ended: a change of the password and a ban end all the
\* sessions they see, the owner stays, and one link of a user works at most.
THEOREM SessionsAreRightful == RecordsSpec => []LoginsAreRightful
<1>1. RecordsInit => (part = "accounts" => AccountInv)
  BY AccountInitInv, RecordsAssumption DEF RecordsInit
<1>2. (part = "accounts" => AccountInv) => LoginsAreRightful
  BY DEF LoginsAreRightful, AccountInv, LoginInv, LoginsAreOfAccounts, LinkInv, Account!OwnerIsNotBanned
<1> QED
  BY <1>1, <1>2, RecordsAccounts, PTL DEF RecordsSpec

-----------------------------------------------------------------------------
(***************************************************************************)
(* The conversation of two users (DirectMessages), with any number of      *)
(* requests: who opens it holds the lock of the pair from the look to the  *)
(* commit, and who sends has found it.                                     *)
(***************************************************************************)
\* What the holder of the lock saw is still so.
OpensAreLocked ==
    \A r \in Reqs :
        /\ directReq[r].op \in {"look", "insert", "show"} => directLock = r
        /\ directReq[r].op = "insert" => made = 0

\* Before there is a conversation nobody hides it, sends to it or has news of it.
NothingBefore ==
    made = 0 => /\ hidden = {} /\ news = {}
                /\ \A r \in Reqs : directReq[r].op \notin {"send", "reopen"}

DirectInv == Direct!TypeOK /\ OpensAreLocked /\ NothingBefore /\ Direct!OpensSucceed /\ Direct!NewsIsListed

\* A request that takes a step, by the operations of the model.
LEMMA DirectRequests ==
    ASSUME Direct!Assumptions, Direct!TypeOK, NEW r \in Reqs
    PROVE  /\ Direct!NoRequest \in Direct!Request /\ Direct!NoRequest.op = "idle"
           /\ directReq[r].op \in {"idle", "open", "look", "insert", "show", "send", "reopen"}
           /\ directReq[r].op # "idle" => directReq[r].by \in Pair
           /\ \A op \in {"look", "insert", "show", "reopen"} : Direct!Enter(r, op) /\ directReq[r].op # "idle" =>
                 /\ directReq' \in [Reqs -> Direct!Request] /\ directReq'[r].op = op
                 /\ \A q \in Reqs \ {r} : directReq'[q] = directReq[q]
           /\ Direct!Answer(r) =>
                 /\ directReq' \in [Reqs -> Direct!Request] /\ directReq'[r].op = "idle"
                 /\ \A q \in Reqs \ {r} : directReq'[q] = directReq[q]
           /\ \A op \in {"open", "send"}, u \in Pair :
                 directReq' = [directReq EXCEPT ![r] = [op |-> op, by |-> u]] =>
                    /\ directReq' \in [Reqs -> Direct!Request] /\ directReq'[r].op = op
                    /\ \A q \in Reqs \ {r} : directReq'[q] = directReq[q]
           /\ Direct!Begin(r) => directEvents' \in 0 .. MaxEvents /\ directReq[r].op = "idle"
<1>1. Direct!NoRequest \in Direct!Request /\ Direct!NoRequest.op = "idle"
  BY DEF Direct!NoRequest, Direct!Request
<1>2. directReq[r] \in Direct!Request /\ directReq \in [Reqs -> Direct!Request]
  BY DEF Direct!TypeOK
<1>3. /\ directReq[r].op \in {"idle", "open", "look", "insert", "show", "send", "reopen"}
      /\ directReq[r].op # "idle" => directReq[r].by \in Pair
           /\ directReq[r] \in [op : {"open", "look", "insert", "show", "send", "reopen"}, by : Pair]
  BY <1>2 DEF Direct!NoRequest, Direct!Request
<1>4. ASSUME NEW op \in {"look", "insert", "show", "reopen"}, Direct!Enter(r, op), directReq[r].op # "idle"
      PROVE  /\ directReq' \in [Reqs -> Direct!Request] /\ directReq'[r].op = op
             /\ \A q \in Reqs \ {r} : directReq'[q] = directReq[q]
  <2>1. PICK u \in Pair : u = directReq[r].by
    BY <1>3, <1>4
  <2>2. [directReq[r] EXCEPT !.op = op] = [op |-> op, by |-> u]
    BY <1>3, <1>4, <2>1
  <2>3. [op |-> op, by |-> u] \in Direct!Request
    BY DEF Direct!Request
  <2>4. directReq' = [directReq EXCEPT ![r] = [op |-> op, by |-> u]]
    BY <1>2, <1>4, <2>2 DEF Direct!Enter
  <2> QED
    BY <1>2, <2>3, <2>4
<1>5. ASSUME Direct!Answer(r)
      PROVE  /\ directReq' \in [Reqs -> Direct!Request] /\ directReq'[r].op = "idle"
             /\ \A q \in Reqs \ {r} : directReq'[q] = directReq[q]
  BY <1>1, <1>2, <1>5 DEF Direct!Answer
<1>6. ASSUME NEW op \in {"open", "send"}, NEW u \in Pair, directReq' = [directReq EXCEPT ![r] = [op |-> op, by |-> u]]
      PROVE  /\ directReq' \in [Reqs -> Direct!Request] /\ directReq'[r].op = op
             /\ \A q \in Reqs \ {r} : directReq'[q] = directReq[q]
  <2>1. [op |-> op, by |-> u] \in Direct!Request
    BY DEF Direct!Request
  <2> QED
    BY <1>2, <1>6, <2>1
<1>7. Direct!Begin(r) => directEvents' \in 0 .. MaxEvents /\ directReq[r].op = "idle"
  BY <1>1 DEF Direct!Begin, Direct!Assumptions, Direct!TypeOK
<1> QED
  BY <1>1, <1>3, <1>4, <1>5, <1>6, <1>7

\* Whatever a request does, its step keeps the types, and what was hidden comes
\* back by a message or because its own user opened it.
LEMMA DirectTypes ==
    ASSUME Direct!Assumptions, DirectInv, Direct!Next
    PROVE  Direct!TypeOK' /\ Direct!ReappearsForACauseStep
<1>0. Direct!TypeOK
  BY DEF DirectInv
<1>1. PICK r \in Reqs :
        \/ Direct!LockPair(r) \/ Direct!LookUpPair(r) \/ Direct!CreateDirectConversation(r)
        \/ Direct!ShowDirectConversation(r) \/ Direct!InsertMessage(r) \/ Direct!ShowFails(r)
        \/ \E u \in Pair :
              \/ Direct!OpenDirectConversation(r, u) \/ Direct!HideDirectConversation(r, u)
              \/ Direct!SendMessage(r, u) \/ Direct!BlockUser(r, u) \/ Direct!UnblockUser(r, u)
  BY DEF Direct!Next
<1>. USE <1>0, DirectRequests
<1>2. directReq' \in [Reqs -> Direct!Request] /\ directEvents' \in 0 .. MaxEvents
  <2>1. CASE Direct!LookUpPair(r)
    <3>1. CASE made = 1
      BY <2>1, <3>1 DEF Direct!LookUpPair, Direct!TypeOK
    <3>2. CASE made # 1
      BY <2>1, <3>2 DEF Direct!LookUpPair, Direct!TypeOK
    <3> QED
      BY <3>1, <3>2
  <2> QED
    BY <1>1, <2>1 DEF Direct!LockPair, Direct!CreateDirectConversation, Direct!ShowDirectConversation,
         Direct!InsertMessage, Direct!ShowFails, Direct!OpenDirectConversation, Direct!HideDirectConversation,
         Direct!SendMessage, Direct!BlockUser, Direct!UnblockUser, Direct!TypeOK
<1>3. made' \in 0 .. 1 /\ hidden' \subseteq Pair /\ blocks' \subseteq Pair /\ news' \subseteq Pair
  BY <1>1 DEF Direct!LockPair, Direct!LookUpPair, Direct!CreateDirectConversation, Direct!ShowDirectConversation,
         Direct!InsertMessage, Direct!ShowFails, Direct!OpenDirectConversation, Direct!HideDirectConversation,
         Direct!SendMessage, Direct!BlockUser, Direct!UnblockUser, Direct!TypeOK
<1>4. directLock' \in Reqs \cup {None} /\ failed' \in BOOLEAN
  BY <1>1 DEF Direct!LockPair, Direct!LookUpPair, Direct!CreateDirectConversation, Direct!ShowDirectConversation,
         Direct!InsertMessage, Direct!ShowFails, Direct!OpenDirectConversation, Direct!HideDirectConversation,
         Direct!SendMessage, Direct!BlockUser, Direct!UnblockUser, Direct!TypeOK
<1>5. Direct!ReappearsForACauseStep
  <2>1. CASE Direct!CreateDirectConversation(r)
    <3>1. hidden \subseteq hidden'
      BY <2>1 DEF Direct!CreateDirectConversation, DirectInv, NothingBefore, OpensAreLocked
    <3> QED
      BY <3>1 DEF Direct!ReappearsForACauseStep
  <2>2. CASE Direct!ShowDirectConversation(r)
    BY <2>2 DEF Direct!ShowDirectConversation, Direct!ReappearsForACauseStep
  <2>3. CASE Direct!InsertMessage(r)
    BY <2>3 DEF Direct!InsertMessage, Direct!ReappearsForACauseStep
  <2>4. CASE ~ Direct!CreateDirectConversation(r) /\ ~ Direct!ShowDirectConversation(r) /\ ~ Direct!InsertMessage(r)
    <3>1. hidden \subseteq hidden'
      BY <1>1, <2>4 DEF Direct!LockPair, Direct!LookUpPair, Direct!ShowFails, Direct!OpenDirectConversation,
           Direct!HideDirectConversation, Direct!SendMessage, Direct!BlockUser, Direct!UnblockUser, Direct!TypeOK
    <3> QED
      BY <3>1 DEF Direct!ReappearsForACauseStep
  <2> QED
    BY <2>1, <2>2, <2>3, <2>4
<1> QED
  BY <1>2, <1>3, <1>4, <1>5 DEF Direct!TypeOK

LEMMA DirectKeeps ==
    ASSUME Direct!Assumptions, DirectInv, Direct!Next
    PROVE  DirectInv'
<1>0. Direct!TypeOK /\ Direct!TypeOK'
  BY DirectTypes DEF DirectInv
<1>1. PICK r \in Reqs :
        \/ Direct!LockPair(r) \/ Direct!LookUpPair(r) \/ Direct!CreateDirectConversation(r)
        \/ Direct!ShowDirectConversation(r) \/ Direct!InsertMessage(r) \/ Direct!ShowFails(r)
        \/ \E u \in Pair :
              \/ Direct!OpenDirectConversation(r, u) \/ Direct!HideDirectConversation(r, u)
              \/ Direct!SendMessage(r, u) \/ Direct!BlockUser(r, u) \/ Direct!UnblockUser(r, u)
  BY DEF Direct!Next
<1>2. \A q \in Reqs : q # None
  BY DEF Direct!Assumptions
<1>3. made \in {0, 1}
  BY <1>0 DEF Direct!TypeOK
<1>. USE <1>0, <1>2, <1>3, DirectRequests DEF DirectInv, Direct!OpensSucceed
<1>4. CASE Direct!LockPair(r)
  <2>1. /\ directReq[r].op = "open" /\ directReq'[r].op = "look" /\ \A q \in Reqs \ {r} : directReq'[q] = directReq[q]
        /\ directLock = None /\ directLock' = r /\ UNCHANGED <<made, hidden, blocks, news, failed>>
    BY <1>4 DEF Direct!LockPair, Direct!PairIsFree
  <2> QED
    BY <2>1 DEF OpensAreLocked, NothingBefore, Direct!NewsIsListed
<1>5. CASE Direct!LookUpPair(r)
  <2>1. /\ directReq[r].op = "look" /\ directReq'[r].op = (IF made = 1 THEN "show" ELSE "insert")
        /\ \A q \in Reqs \ {r} : directReq'[q] = directReq[q]
        /\ UNCHANGED <<made, hidden, blocks, news, directLock, failed>>
    <3>1. CASE made = 1
      BY <1>5, <3>1 DEF Direct!LookUpPair
    <3>2. CASE made # 1
      BY <1>5, <3>2 DEF Direct!LookUpPair
    <3> QED
      BY <3>1, <3>2
  <2> QED
    BY <2>1 DEF OpensAreLocked, NothingBefore, Direct!NewsIsListed
<1>6. CASE Direct!CreateDirectConversation(r)
  <2>1. /\ directReq[r].op = "insert" /\ directReq'[r].op = "idle" /\ \A q \in Reqs \ {r} : directReq'[q] = directReq[q]
        /\ made = 0 /\ made' = 1 /\ UNCHANGED <<news, failed>> /\ directLock = r
    BY <1>6 DEF Direct!CreateDirectConversation, OpensAreLocked
  <2> QED
    BY <2>1 DEF OpensAreLocked, NothingBefore, Direct!NewsIsListed
<1>7. CASE Direct!ShowDirectConversation(r)
  <2>1. /\ directReq[r].op = "show" /\ directReq'[r].op = "idle" /\ \A q \in Reqs \ {r} : directReq'[q] = directReq[q]
        /\ UNCHANGED <<made, news, failed>> /\ directLock = r /\ hidden' \subseteq hidden
    BY <1>7 DEF Direct!ShowDirectConversation, OpensAreLocked
  <2> QED
    BY <2>1 DEF OpensAreLocked, NothingBefore, Direct!NewsIsListed
<1>8. CASE Direct!InsertMessage(r) \/ Direct!ShowFails(r)
  <2>1. /\ directReq[r].op \in {"send", "reopen"} /\ \A q \in Reqs \ {r} : directReq'[q] = directReq[q]
        /\ UNCHANGED <<made, failed, directLock>> /\ made = 1 /\ directReq'[r].op \in {"reopen", "idle"}
        /\ directReq'[r].op = "reopen" \/ hidden' = {} \/ news' = {}
    BY <1>8 DEF Direct!InsertMessage, Direct!ShowFails, NothingBefore
  <2> QED
    BY <2>1 DEF OpensAreLocked, NothingBefore, Direct!NewsIsListed
<1>9. ASSUME NEW u \in Pair, Direct!OpenDirectConversation(r, u) \/ Direct!SendMessage(r, u)
      PROVE  DirectInv'
  <2>1. /\ directReq[r].op = "idle" /\ directReq'[r].op \in {"open", "send"} /\ \A q \in Reqs \ {r} : directReq'[q] = directReq[q]
        /\ UNCHANGED <<made, hidden, news, failed, directLock>> /\ (made = 1 \/ directReq'[r].op = "open")
    BY <1>9 DEF Direct!OpenDirectConversation, Direct!SendMessage, Direct!DirectConversationAccess
  <2> QED
    BY <2>1 DEF OpensAreLocked, NothingBefore, Direct!NewsIsListed
<1>10. ASSUME NEW u \in Pair,
              Direct!HideDirectConversation(r, u) \/ Direct!BlockUser(r, u) \/ Direct!UnblockUser(r, u)
       PROVE  DirectInv'
  BY <1>10 DEF Direct!HideDirectConversation, Direct!BlockUser, Direct!UnblockUser, OpensAreLocked, NothingBefore,
     Direct!NewsIsListed
<1> QED
  BY <1>1, <1>4, <1>5, <1>6, <1>7, <1>8, <1>9, <1>10

\* The lists and the access to a conversation are decided alike.
LEMMA ListedReads == Direct!ListedIsReadable
BY DEF Direct!ListedIsReadable, Direct!ListDirectConversations, Direct!DirectConversationAccess,
       Direct!DirectConversationReaders

LEMMA DirectInitInv ==
    ASSUME Direct!Assumptions, Direct!Init
    PROVE  DirectInv
<1>1. Direct!NoRequest \in Direct!Request /\ Direct!NoRequest.op = "idle"
  BY DEF Direct!NoRequest, Direct!Request
<1>2. Direct!TypeOK
  <2>1. directEvents \in 0 .. MaxEvents
    BY DEF Direct!Init, Direct!Assumptions
  <2>2. failed \in BOOLEAN
    BY Zenon DEF Direct!Init
  <2>3. directReq \in [Reqs -> Direct!Request]
    BY <1>1 DEF Direct!Init
  <2>4. made \in 0 .. 1 /\ hidden \subseteq Pair /\ blocks \subseteq Pair /\ news \subseteq Pair /\ directLock \in Reqs \cup {None}
    BY DEF Direct!Init
  <2> QED
    BY <2>1, <2>2, <2>3, <2>4 DEF Direct!TypeOK
<1>3. OpensAreLocked /\ NothingBefore /\ Direct!OpensSucceed /\ Direct!NewsIsListed
  BY <1>1 DEF Direct!Init, OpensAreLocked, NothingBefore, Direct!OpensSucceed, Direct!NewsIsListed
<1> QED
  BY <1>2, <1>3 DEF DirectInv

DirectStaysInv == part = "direct" => DirectInv

LEMMA RecordsDirect ==
    DirectStaysInv /\ [RecordsNext]_recordsVars =>
        /\ DirectStaysInv'
        /\ [part = "direct" => Direct!ReappearsForACauseStep]_recordsVars
<1> SUFFICES ASSUME part = "direct" => DirectInv, [RecordsNext]_recordsVars, part = "direct" \/ part' = "direct"
             PROVE  DirectInv' /\ [Direct!ReappearsForACauseStep]_recordsVars
  BY DEF DirectStaysInv
<1>1. part = "direct" /\ part' = "direct" /\ (Direct!Next \/ UNCHANGED recordsVars)
  BY DEF RecordsNext, recordsVars
<1>2. CASE Direct!Next
  BY <1>1, <1>2, DirectKeeps, DirectTypes, RecordsAssumption
<1>3. CASE UNCHANGED recordsVars
  <2>1. UNCHANGED directVars
    BY <1>3 DEF recordsVars
  <2> QED
    BY <1>1, <1>3, <2>1 DEF directVars, DirectInv, Direct!TypeOK, OpensAreLocked, NothingBefore, Direct!OpensSucceed,
       Direct!NewsIsListed
<1> QED
  BY <1>1, <1>2, <1>3

\* Whoever opens a conversation gets it, a message puts it on both lists and
\* nothing but a message or its own user brings it back, however the requests
\* of the two overlap.
THEOREM ConversationsComeBack == RecordsSpec => ConversationsReappear
<1>1. RecordsInit => DirectStaysInv
  BY RecordsAssumption, DirectInitInv DEF RecordsInit, DirectStaysInv
<1>2. DirectStaysInv =>
        (part = "direct" => Direct!TypeOK /\ Direct!OpensSucceed /\ Direct!NewsIsListed /\ Direct!ListedIsReadable)
  BY ListedReads DEF DirectStaysInv, DirectInv
<1> QED
  BY <1>1, <1>2, RecordsDirect, PTL DEF RecordsSpec, ConversationsReappear

-----------------------------------------------------------------------------
(***************************************************************************)
(* The order of the channels and who reads them (Channels), for any        *)
(* channels, roles and requests: positions are assigned under one lock, a  *)
(* place that was chosen lies behind every channel until it is taken, and  *)
(* a channel being moved stays where it was read.                          *)
(***************************************************************************)
\* Positions have a bound, so there is a last one.
PositionsAreBounded == \E n \in Nat : \A c \in Channels : position[c] <= n

PlacesAreLocked ==
    \A r \in Reqs :
        /\ channelReq[r].op \in {"insert", "insertAt", "place"} => channelLock = r
        /\ channelReq[r].op = "insertAt" => \A c \in Channels : position[c] < channelReq[r].place
        /\ channelReq[r].op \in {"move", "place"} => channelReq[r].old > 0 /\ channelReq[r].new > 0
        /\ channelReq[r].op = "place" => position[channelReq[r].channel] = channelReq[r].old

\* A channel being created is not there yet, and nobody else creates it.
NewChannelsAreNew ==
    \A r \in Reqs : channelReq[r].op \in {"create", "insert", "insertAt"} =>
        /\ position[channelReq[r].channel] = 0
        /\ \A q \in Reqs : channelReq[q].op \in {"create", "insert", "insertAt"}
                           /\ channelReq[q].channel = channelReq[r].channel => q = r

\* Who holds a role holds one there is.
HeldRolesExist == \A u \in Users, x \in Roles : <<u, x>> \in holders => x \in roles

ChannelInv ==
    /\ ChannelList!TypeOK /\ PositionsAreBounded /\ PlacesAreLocked /\ NewChannelsAreNew /\ HeldRolesExist
    /\ ChannelList!PositionsAreDistinct

LEMMA ChannelConstants ==
    ASSUME ChannelList!Assumptions
    PROVE  Owner \in Users /\ MaxEvents \in Nat /\ None \notin Reqs
BY DEF ChannelList!Assumptions

\* What a request carries.
LEMMA ChannelFields ==
    ASSUME ChannelList!TypeOK, NEW r \in Reqs
    PROVE  /\ channelReq[r].op \in {"idle", "create", "insert", "insertAt", "move", "place", "permit"}
           /\ channelReq[r] # ChannelList!NoRequest <=> channelReq[r].op # "idle"
           /\ channelReq[r].op # "idle" => channelReq[r].channel \in Channels
           /\ channelReq[r].op \in {"create", "insert"} =>
                channelReq[r] = [op |-> channelReq[r].op, channel |-> channelReq[r].channel]
           /\ channelReq[r].op = "insertAt" => channelReq[r].place \in Nat
           /\ channelReq[r].op \in {"move", "place"} =>
                /\ channelReq[r].old \in Nat /\ channelReq[r].new \in Nat
                /\ channelReq[r] = [op |-> channelReq[r].op, channel |-> channelReq[r].channel,
                                    old |-> channelReq[r].old, new |-> channelReq[r].new]
           /\ channelReq[r].op = "permit" => channelReq[r].role \in Roles /\ channelReq[r].entry \in ChannelList!Entry
<1>1. channelReq[r] \in ChannelList!Request
  BY DEF ChannelList!TypeOK
<1> QED
  BY <1>1 DEF ChannelList!Request, ChannelList!NoRequest

\* A request that takes a step.
ChannelMoves(r, to) == channelReq' = [channelReq EXCEPT ![r] = to]

LEMMA ChannelMovesFacts ==
    ASSUME ChannelList!TypeOK, NEW r \in Reqs, NEW to \in ChannelList!Request, ChannelMoves(r, to)
    PROVE  /\ channelReq' \in [Reqs -> ChannelList!Request]
           /\ \A q \in Reqs : channelReq'[q] = IF q = r THEN to ELSE channelReq[q]
BY DEF ChannelList!TypeOK, ChannelMoves

LEMMA IdleChannel == ChannelList!NoRequest \in ChannelList!Request /\ ChannelList!NoRequest.op = "idle"
BY DEF ChannelList!Request, ChannelList!NoRequest

LEMMA ChannelBegins ==
    ASSUME ChannelList!Assumptions, ChannelList!TypeOK, NEW r \in Reqs, ChannelList!Begin(r)
    PROVE  channelEvents' \in 0 .. MaxEvents /\ channelReq[r].op = "idle"
BY ChannelConstants, IdleChannel DEF ChannelList!Begin, ChannelList!TypeOK

\* The last position is one, and none lies behind it.
LEMMA LastIsLast ==
    ASSUME ChannelList!TypeOK, PositionsAreBounded
    PROVE  /\ ChannelList!Last \in Nat
           /\ \A c \in Channels : position[c] <= ChannelList!Last
<1>. DEFINE S == {0} \cup {position[c] : c \in Channels}
            Bounds == {n \in Nat : \A c \in Channels : position[c] <= n}
<1>1. \A c \in Channels : position[c] \in Nat
  BY DEF ChannelList!TypeOK
<1>2. Bounds # {}
  BY DEF PositionsAreBounded
<1>3. PICK m \in Bounds : \A n \in Bounds : ~ <<n, m>> \in OpToRel(<, Nat)
  BY <1>2, NatLessThanWellFounded, WFMin, Zenon
<1>4. \A n \in Bounds : ~ (n < m)
  BY <1>3 DEF OpToRel
<1>5. m \in S
  <2>1. SUFFICES ASSUME m \notin S PROVE FALSE
    OBVIOUS
  <2>2. m \in Nat /\ m > 0 /\ m - 1 \in Nat
    BY <2>1
  <2>3. \A c \in Channels : position[c] <= m - 1
    BY <1>1, <2>1, <2>2
  <2> QED
    BY <1>4, <2>2, <2>3
<1>6. S \subseteq Nat
  BY <1>1
<1>7. \E n \in S : \A c \in Channels : position[c] <= n
  BY <1>5
<1>8. ChannelList!Last \in S /\ \A c \in Channels : position[c] <= ChannelList!Last
  <2>. DEFINE P(n) == \A c \in Channels : position[c] <= n
  <2>1. ChannelList!Last = CHOOSE n \in S : P(n)
    BY DEF ChannelList!Last
  <2>2. \E n \in S : P(n)
    BY <1>7
  <2>. HIDE DEF S, P
  <2>3. ChannelList!Last \in S /\ P(ChannelList!Last)
    BY <2>1, <2>2
  <2> QED
    BY <2>3 DEF P
<1> QED
  BY <1>6, <1>8

-----------------------------------------------------------------------------
\* Whoever neither moves nor creates a channel leaves the order as it was; one
\* may be deleted that is not being moved.
LEMMA OrderStays ==
    ASSUME ChannelInv, channelLock' = channelLock, position' \in [Channels -> Nat],
           \A c \in Channels : position'[c] \in {position[c], 0},
           \A r \in Reqs : channelReq[r].op = "place" => position'[channelReq[r].channel] = position[channelReq[r].channel],
           \A r \in Reqs : channelReq'[r] = channelReq[r] \/ channelReq'[r].op \in {"idle", "permit"}
    PROVE  /\ PositionsAreBounded' /\ PlacesAreLocked' /\ NewChannelsAreNew' /\ ChannelList!PositionsAreDistinct'
           /\ ChannelList!OthersKeepTheirOrderStep
<1>. USE DEF ChannelInv
<1>1. position \in [Channels -> Nat] /\ \A c \in Channels : position'[c] <= position[c]
  BY DEF ChannelList!TypeOK
<1>2. \A r \in Reqs : channelReq[r].op # "idle" => channelReq[r].channel \in Channels
  BY ChannelFields
<1>3. PositionsAreBounded'
  <2>1. PICK n \in Nat : \A c \in Channels : position[c] <= n
    BY DEF PositionsAreBounded
  <2>2. \A c \in Channels : position'[c] <= n
    BY <1>1, <2>1
  <2> QED
    BY <2>2 DEF PositionsAreBounded
<1>4. PlacesAreLocked'
  <2> SUFFICES ASSUME NEW r \in Reqs
               PROVE  /\ channelReq'[r].op \in {"insert", "insertAt", "place"} => channelLock' = r
                      /\ channelReq'[r].op = "insertAt" => \A c \in Channels : position'[c] < channelReq'[r].place
                      /\ channelReq'[r].op \in {"move", "place"} => channelReq'[r].old > 0 /\ channelReq'[r].new > 0
                      /\ channelReq'[r].op = "place" => position'[channelReq'[r].channel] = channelReq'[r].old
    BY DEF PlacesAreLocked
  <2>1. CASE channelReq'[r] = channelReq[r]
    <3>1. channelReq[r].op = "insertAt" => channelReq[r].place \in Nat
      BY ChannelFields
    <3> QED
      BY <1>1, <2>1, <3>1 DEF PlacesAreLocked
  <2>2. CASE channelReq'[r].op \in {"idle", "permit"}
    BY <2>2
  <2> QED
    BY <2>1, <2>2
<1>5. NewChannelsAreNew'
  BY <1>1, <1>2 DEF NewChannelsAreNew
<1>6. ChannelList!PositionsAreDistinct'
  BY <1>1 DEF ChannelList!PositionsAreDistinct, ChannelList!Existing, ChannelList!Exists
<1>7. ChannelList!OthersKeepTheirOrderStep
  BY <1>1 DEF ChannelList!OthersKeepTheirOrderStep, ChannelList!Exists
<1> QED
  BY <1>3, <1>4, <1>5, <1>6, <1>7

\* The positions stay; a request goes on.
LEMMA ChannelGoesOn ==
    ASSUME ChannelInv, UNCHANGED position, NEW r \in Reqs, NEW to \in ChannelList!Request, ChannelMoves(r, to),
           to.op # "idle", to.op \in {"create", "insert", "insertAt"} =>
               /\ position[to.channel] = 0
               /\ \A q \in Reqs \ {r} : channelReq[q].op \in {"create", "insert", "insertAt"} => channelReq[q].channel # to.channel,
           to.op = "insertAt" => \A c \in Channels : position[c] < to.place,
           to.op \in {"move", "place"} => to.old > 0 /\ to.new > 0,
           to.op = "place" => position[to.channel] = to.old,
           channelLock' = IF to.op \in {"insert", "insertAt", "place"} THEN r ELSE channelLock,
           channelLock = None \/ channelLock' = channelLock, None \notin Reqs
    PROVE  /\ PositionsAreBounded' /\ PlacesAreLocked' /\ NewChannelsAreNew' /\ ChannelList!PositionsAreDistinct'
           /\ ChannelList!OthersKeepTheirOrderStep
<1>. USE DEF ChannelInv
<1>1. \A q \in Reqs : channelReq'[q] = IF q = r THEN to ELSE channelReq[q]
  BY ChannelMovesFacts
<1>2. PositionsAreBounded'
  BY DEF PositionsAreBounded
<1>3. PlacesAreLocked'
  <2> SUFFICES ASSUME NEW q \in Reqs
               PROVE  /\ channelReq'[q].op \in {"insert", "insertAt", "place"} => channelLock' = q
                      /\ channelReq'[q].op = "insertAt" => \A c \in Channels : position'[c] < channelReq'[q].place
                      /\ channelReq'[q].op \in {"move", "place"} => channelReq'[q].old > 0 /\ channelReq'[q].new > 0
                      /\ channelReq'[q].op = "place" => position'[channelReq'[q].channel] = channelReq'[q].old
    BY DEF PlacesAreLocked
  <2>1. CASE q = r
    BY <1>1, <2>1
  <2>2. CASE q # r
    BY <1>1, <2>2 DEF PlacesAreLocked
  <2> QED
    BY <2>1, <2>2
<1>4. NewChannelsAreNew'
  BY <1>1 DEF NewChannelsAreNew
<1>5. ChannelList!PositionsAreDistinct'
  BY DEF ChannelList!PositionsAreDistinct, ChannelList!Existing, ChannelList!Exists
<1>6. ChannelList!OthersKeepTheirOrderStep
  BY DEF ChannelList!OthersKeepTheirOrderStep, ChannelList!Exists
<1> QED
  BY <1>2, <1>3, <1>4, <1>5, <1>6

\* The new channel is put behind all the others.
LEMMA CommitKeepsOrder ==
    ASSUME ChannelList!Assumptions, ChannelInv, NEW r \in Reqs, ChannelList!CommitChannel(r)
    PROVE  /\ position' \in [Channels -> Nat]
           /\ PositionsAreBounded' /\ PlacesAreLocked' /\ NewChannelsAreNew' /\ ChannelList!PositionsAreDistinct'
           /\ ChannelList!OthersKeepTheirOrderStep
<1>. USE DEF ChannelInv
<1>1. PICK c \in Channels, place \in Nat : c = channelReq[r].channel /\ place = channelReq[r].place
  BY ChannelFields DEF ChannelList!CommitChannel
<1>2. /\ position' = [position EXCEPT ![c] = place] /\ channelLock' = None /\ channelReq[r].op = "insertAt"
      /\ ChannelMoves(r, ChannelList!NoRequest)
  BY <1>1 DEF ChannelList!CommitChannel, ChannelList!Answer, ChannelMoves
<1>3. \A q \in Reqs : channelReq'[q] = IF q = r THEN ChannelList!NoRequest ELSE channelReq[q]
  BY <1>2, ChannelMovesFacts, IdleChannel
<1>4. /\ channelLock = r /\ position[c] = 0 /\ \A d \in Channels : position[d] < place
      /\ \A q \in Reqs \ {r} : /\ channelReq[q].op \notin {"insert", "insertAt", "place"}
                               /\ channelReq[q].op = "create" => channelReq[q].channel # c
  BY <1>1, <1>2 DEF PlacesAreLocked, NewChannelsAreNew
<1>5. /\ position \in [Channels -> Nat] /\ position' \in [Channels -> Nat] /\ position'[c] = place
      /\ \A d \in Channels \ {c} : position'[d] = position[d]
  BY <1>2 DEF ChannelList!TypeOK
<1>6. PositionsAreBounded'
  BY <1>4, <1>5 DEF PositionsAreBounded
<1>7. PlacesAreLocked'
  BY <1>3, <1>4, IdleChannel DEF PlacesAreLocked
<1>8. NewChannelsAreNew'
  <2>1. \A q \in Reqs : channelReq[q].op = "create" => channelReq[q].channel \in Channels
    BY ChannelFields
  <2> QED
    BY <1>3, <1>4, <1>5, <2>1, IdleChannel DEF NewChannelsAreNew
<1>9. ChannelList!PositionsAreDistinct'
  BY <1>4, <1>5 DEF ChannelList!PositionsAreDistinct, ChannelList!Existing, ChannelList!Exists
<1>10. ChannelList!OthersKeepTheirOrderStep
  BY <1>4, <1>5 DEF ChannelList!OthersKeepTheirOrderStep, ChannelList!Exists
<1> QED
  BY <1>5, <1>6, <1>7, <1>8, <1>9, <1>10

\* The channels between the two places make room.
LEMMA MoveKeepsOrder ==
    ASSUME ChannelList!Assumptions, ChannelInv, NEW r \in Reqs, ChannelList!MoveChannel(r)
    PROVE  /\ position' \in [Channels -> Nat]
           /\ PositionsAreBounded' /\ PlacesAreLocked' /\ NewChannelsAreNew' /\ ChannelList!PositionsAreDistinct'
           /\ ChannelList!OthersKeepTheirOrderStep
<1>. USE DEF ChannelInv
<1>1. PICK m \in Channels, old \in Nat, new \in Nat :
         m = channelReq[r].channel /\ old = channelReq[r].old /\ new = channelReq[r].new
  BY ChannelFields DEF ChannelList!MoveChannel
<1>2. /\ position' = [c \in Channels |-> IF c = m THEN new
                         ELSE IF ChannelList!Exists(c) THEN ChannelList!Shifted(position[c], old, new) ELSE 0]
      /\ channelLock' = None /\ channelReq[r].op = "place" /\ ChannelMoves(r, ChannelList!NoRequest)
  BY <1>1 DEF ChannelList!MoveChannel, ChannelList!Answer, ChannelMoves
<1>3. \A q \in Reqs : channelReq'[q] = IF q = r THEN ChannelList!NoRequest ELSE channelReq[q]
  BY <1>2, ChannelMovesFacts, IdleChannel
<1>4. /\ channelLock = r /\ position[m] = old /\ old > 0 /\ new > 0
      /\ \A q \in Reqs \ {r} : channelReq[q].op \notin {"insert", "insertAt", "place"}
  BY <1>1, <1>2 DEF PlacesAreLocked
<1>5. position \in [Channels -> Nat]
  BY DEF ChannelList!TypeOK
<1>6. ASSUME NEW c \in Channels, c # m
      PROVE  /\ position'[c] = (IF position[c] = 0 THEN 0
                  ELSE IF position[c] > old /\ position[c] <= new THEN position[c] - 1
                  ELSE IF position[c] >= new /\ position[c] < old THEN position[c] + 1 ELSE position[c])
             /\ position'[c] \in Nat /\ (position'[c] = 0 <=> position[c] = 0) /\ position'[c] <= position[c] + 1
  BY <1>2, <1>4, <1>5, <1>6 DEF ChannelList!Exists, ChannelList!Shifted
<1>7. position'[m] = new
  BY <1>2
<1>8. position' \in [Channels -> Nat]
  BY <1>2, <1>6, <1>7
<1>9. \A c, d \in Channels \ {m} : position[c] > 0 /\ position[d] > 0 /\ position[c] = position[d] => c = d
  BY <1>5 DEF ChannelList!PositionsAreDistinct, ChannelList!Existing, ChannelList!Exists
<1>10. \A c \in Channels \ {m} : position[c] # old
  BY <1>4, <1>5 DEF ChannelList!PositionsAreDistinct, ChannelList!Existing, ChannelList!Exists
<1>11. PositionsAreBounded'
  <2>1. PICK n \in Nat : \A c \in Channels : position[c] <= n
    BY DEF PositionsAreBounded
  <2>2. \A c \in Channels : position'[c] <= n + 1 + new
    BY <1>5, <1>6, <1>7, <2>1
  <2>3. n + 1 + new \in Nat
    OBVIOUS
  <2> QED
    BY <2>2, <2>3 DEF PositionsAreBounded
<1>12. PlacesAreLocked'
  BY <1>3, <1>4, IdleChannel DEF PlacesAreLocked
<1>13. NewChannelsAreNew'
  <2>1. ASSUME NEW q \in Reqs, channelReq[q].op = "create"
        PROVE  channelReq[q].channel \in Channels /\ channelReq[q].channel # m
    <3>1. position[channelReq[q].channel] = 0
      BY <2>1 DEF NewChannelsAreNew
    <3>2. channelReq[q].channel \in Channels
      BY <2>1, ChannelFields
    <3> QED
      BY <1>4, <3>1, <3>2
  <2> QED
    BY <1>3, <1>4, <1>6, <2>1, IdleChannel DEF NewChannelsAreNew
<1>14. \A c, d \in Channels \ {m} :
          position[c] > 0 /\ position[d] > 0 => (position[c] < position[d] <=> position'[c] < position'[d])
                                                /\ (position'[c] = position'[d] => position[c] = position[d])
  BY <1>4, <1>5, <1>6, <1>10
<1>15. \A c \in Channels \ {m} : position[c] > 0 => position'[c] # new
  BY <1>4, <1>5, <1>6, <1>10
<1>16. ChannelList!PositionsAreDistinct'
  <2> SUFFICES ASSUME NEW c \in Channels, NEW d \in Channels, position'[c] > 0, position'[d] > 0, position'[c] = position'[d]
               PROVE  c = d
    BY DEF ChannelList!PositionsAreDistinct, ChannelList!Existing, ChannelList!Exists
  <2>1. \A e \in Channels \ {m} : position'[e] > 0 => position[e] > 0
    BY <1>5, <1>6
  <2>2. CASE c # m /\ d # m
    BY <1>9, <1>14, <2>1, <2>2
  <2>3. CASE c = m \/ d = m
    BY <1>7, <1>15, <2>1, <2>3
  <2> QED
    BY <2>2, <2>3
<1>17. ChannelList!OthersKeepTheirOrderStep
  BY <1>1, <1>2, <1>14 DEF ChannelList!OthersKeepTheirOrderStep, ChannelList!Exists
<1> QED
  BY <1>8, <1>11, <1>12, <1>13, <1>16, <1>17


-----------------------------------------------------------------------------
\* A step keeps the invariant and the order.
LEMMA ChannelKeeps ==
    ASSUME ChannelList!Assumptions, ChannelInv, ChannelList!Next
    PROVE  ChannelInv' /\ ChannelList!OthersKeepTheirOrderStep
<1>. USE ChannelConstants
<1>0. ChannelList!TypeOK /\ HeldRolesExist
  BY DEF ChannelInv
<1>. DEFINE Kept == /\ ChannelList!TypeOK' /\ HeldRolesExist'
                    /\ PositionsAreBounded' /\ PlacesAreLocked' /\ NewChannelsAreNew'
                    /\ ChannelList!PositionsAreDistinct' /\ ChannelList!OthersKeepTheirOrderStep
<1> SUFFICES Kept
  BY DEF ChannelInv
<1>1. ASSUME NEW r \in Reqs, ChannelList!ChannelStep(r) PROVE Kept
  <2>1. CASE ChannelList!BeginInsert(r) \/ ChannelList!InsertChannel(r)
    <3>1. PICK c \in Channels : c = channelReq[r].channel
      BY <1>0, <2>1, ChannelFields DEF ChannelList!BeginInsert, ChannelList!InsertChannel
    <3>2. PICK to \in ChannelList!Request :
             /\ ChannelMoves(r, to) /\ to.op \in {"insert", "insertAt"} /\ to.channel = c
             /\ to.op = "insertAt" => \A d \in Channels : position[d] < to.place
      <4>1. CASE ChannelList!BeginInsert(r)
        <5>1. [channelReq[r] EXCEPT !.op = "insert"] = [op |-> "insert", channel |-> c]
          <6>1. channelReq[r].op = "create"
            BY <4>1 DEF ChannelList!BeginInsert
          <6>2. channelReq[r] = [op |-> "create", channel |-> c]
            BY <1>0, <3>1, <6>1, ChannelFields
          <6>. HIDE DEF Kept
          <6> QED
            BY <6>2
        <5>2. [op |-> "insert", channel |-> c] \in ChannelList!Request
          BY DEF ChannelList!Request
        <5>3. ChannelMoves(r, [op |-> "insert", channel |-> c])
          BY <1>0, <4>1, <5>1 DEF ChannelList!BeginInsert, ChannelMoves, ChannelList!TypeOK
        <5> QED
          BY <5>2, <5>3
      <4>2. CASE ChannelList!InsertChannel(r)
        <5>1. PICK n \in Nat : n = ChannelList!Last + 1 /\ \A d \in Channels : position[d] < n
          <6>1. ChannelList!Last \in Nat /\ \A d \in Channels : position[d] <= ChannelList!Last
            BY <1>0, LastIsLast DEF ChannelInv
          <6>2. \A d \in Channels : position[d] \in Nat
            BY <1>0 DEF ChannelList!TypeOK
          <6>. HIDE DEF Kept
          <6> QED
            BY <6>1, <6>2
        <5>2. [op |-> "insertAt", channel |-> c, place |-> n] \in ChannelList!Request
          BY DEF ChannelList!Request
        <5>3. ChannelMoves(r, [op |-> "insertAt", channel |-> c, place |-> n])
          BY <3>1, <4>2, <5>1 DEF ChannelList!InsertChannel, ChannelMoves
        <5> QED
          BY <5>1, <5>2, <5>3
      <4> QED
        BY <2>1, <4>1, <4>2
    <3>3. /\ UNCHANGED <<position, entries, roles, holders, channelEvents>>
          /\ channelLock' = r /\ channelReq[r].op \in {"create", "insert"}
          /\ channelLock = None \/ channelLock = r
      BY <2>1 DEF ChannelList!BeginInsert, ChannelList!InsertChannel, ChannelList!PositionsAreFree, ChannelInv, PlacesAreLocked
    <3>4. /\ position[c] = 0
          /\ \A q \in Reqs \ {r} : channelReq[q].op \in {"create", "insert", "insertAt"} => channelReq[q].channel # c
      BY <3>1, <3>3 DEF ChannelInv, NewChannelsAreNew
    <3>5. /\ PositionsAreBounded' /\ PlacesAreLocked' /\ NewChannelsAreNew' /\ ChannelList!PositionsAreDistinct'
          /\ ChannelList!OthersKeepTheirOrderStep
      BY <3>2, <3>3, <3>4, ChannelGoesOn
    <3>6. channelReq' \in [Reqs -> ChannelList!Request]
      BY <1>0, <3>2, ChannelMovesFacts
    <3> QED
      BY <1>0, <3>3, <3>5, <3>6 DEF ChannelList!TypeOK, HeldRolesExist
  <2>2. CASE ChannelList!CommitChannel(r)
    <3>1. /\ UNCHANGED <<entries, roles, holders, channelEvents>> /\ channelLock' = None
          /\ ChannelMoves(r, ChannelList!NoRequest)
      BY <2>2 DEF ChannelList!CommitChannel, ChannelList!Answer, ChannelMoves
    <3>2. channelReq' \in [Reqs -> ChannelList!Request]
      BY <1>0, <3>1, ChannelMovesFacts, IdleChannel
    <3> QED
      BY <1>0, <2>2, <3>1, <3>2, CommitKeepsOrder DEF ChannelList!TypeOK, HeldRolesExist
  <2>3. CASE ChannelList!MoveChannel(r)
    <3>1. /\ UNCHANGED <<entries, roles, holders, channelEvents>> /\ channelLock' = None
          /\ ChannelMoves(r, ChannelList!NoRequest)
      BY <2>3 DEF ChannelList!MoveChannel, ChannelList!Answer, ChannelMoves
    <3>2. channelReq' \in [Reqs -> ChannelList!Request]
      BY <1>0, <3>1, ChannelMovesFacts, IdleChannel
    <3> QED
      BY <1>0, <2>3, <3>1, <3>2, MoveKeepsOrder DEF ChannelList!TypeOK, HeldRolesExist
  <2>4. CASE ChannelList!ReadPosition(r)
    <3>1. PICK c \in Channels, old \in Nat, new \in Nat :
             /\ c = channelReq[r].channel /\ old = channelReq[r].old /\ new = channelReq[r].new
             /\ channelReq[r] = [op |-> "move", channel |-> c, old |-> old, new |-> new]
      BY <1>0, <2>4, ChannelFields DEF ChannelList!ReadPosition
    <3>2. /\ UNCHANGED <<position, entries, roles, holders, channelEvents>> /\ channelLock = None
          /\ channelReq[r].op = "move"
          /\ \/ position[c] = old /\ channelLock' = r /\ channelReq' = [channelReq EXCEPT ![r].op = "place"]
             \/ UNCHANGED channelLock /\ ChannelMoves(r, ChannelList!NoRequest)
      BY <2>4, <3>1 DEF ChannelList!ReadPosition, ChannelList!PositionsAreFree, ChannelList!Answer, ChannelMoves
    <3>3. CASE position[c] = old /\ channelLock' = r /\ channelReq' = [channelReq EXCEPT ![r].op = "place"]
      <4>. DEFINE to == [op |-> "place", channel |-> c, old |-> old, new |-> new]
      <4>1. [channelReq[r] EXCEPT !.op = "place"] = to
        BY <3>1
      <4>2. to \in ChannelList!Request /\ to.op = "place" /\ to.channel = c /\ to.old = old /\ to.new = new
        BY DEF ChannelList!Request
      <4>3. ChannelMoves(r, to)
        BY <1>0, <3>3, <4>1 DEF ChannelMoves, ChannelList!TypeOK
      <4>4. old > 0 /\ new > 0
        BY <3>1, <3>2 DEF ChannelInv, PlacesAreLocked
      <4>. HIDE DEF to
      <4>5. /\ PositionsAreBounded' /\ PlacesAreLocked' /\ NewChannelsAreNew' /\ ChannelList!PositionsAreDistinct'
            /\ ChannelList!OthersKeepTheirOrderStep
        BY <3>2, <3>3, <4>2, <4>3, <4>4, ChannelGoesOn
      <4>6. channelReq' \in [Reqs -> ChannelList!Request]
        BY <1>0, <4>2, <4>3, ChannelMovesFacts
      <4> QED
        BY <1>0, <3>2, <3>3, <4>5, <4>6 DEF ChannelList!TypeOK, HeldRolesExist
    <3>4. CASE UNCHANGED channelLock /\ ChannelMoves(r, ChannelList!NoRequest)
      <4>1. /\ channelReq' \in [Reqs -> ChannelList!Request]
            /\ \A q \in Reqs : channelReq'[q] = channelReq[q] \/ channelReq'[q].op \in {"idle", "permit"}
        BY <1>0, <3>4, ChannelMovesFacts, IdleChannel
      <4>2. position' \in [Channels -> Nat] /\ \A d \in Channels : position'[d] \in {position[d], 0}
        BY <1>0, <3>2 DEF ChannelList!TypeOK
      <4>3. /\ PositionsAreBounded' /\ PlacesAreLocked' /\ NewChannelsAreNew' /\ ChannelList!PositionsAreDistinct'
            /\ ChannelList!OthersKeepTheirOrderStep
        BY <3>2, <3>4, <4>1, <4>2, OrderStays
      <4> QED
        BY <1>0, <3>2, <3>4, <4>1, <4>3 DEF ChannelList!TypeOK, HeldRolesExist
    <3> QED
      BY <3>2, <3>3, <3>4
  <2>5. CASE ChannelList!WriteEntry(r)
    <3>1. PICK c \in Channels, x \in Roles, e \in ChannelList!Entry :
             c = channelReq[r].channel /\ x = channelReq[r].role /\ e = channelReq[r].entry
      BY <1>0, <2>5, ChannelFields DEF ChannelList!WriteEntry
    <3>2. /\ UNCHANGED <<position, roles, holders, channelLock, channelEvents>> /\ ChannelMoves(r, ChannelList!NoRequest)
          /\ entries' \in {entries, [entries EXCEPT ![c][x] = e]}
      BY <2>5, <3>1 DEF ChannelList!WriteEntry, ChannelList!Answer, ChannelMoves
    <3>3. /\ channelReq' \in [Reqs -> ChannelList!Request]
          /\ \A q \in Reqs : channelReq'[q] = channelReq[q] \/ channelReq'[q].op \in {"idle", "permit"}
      BY <1>0, <3>2, ChannelMovesFacts, IdleChannel
    <3>4. position' \in [Channels -> Nat] /\ \A d \in Channels : position'[d] \in {position[d], 0}
      BY <1>0, <3>2 DEF ChannelList!TypeOK
    <3>5. entries' \in [Channels -> [Roles -> ChannelList!Entry]]
      <4>1. [entries EXCEPT ![c][x] = e] = [entries EXCEPT ![c] = [entries[c] EXCEPT ![x] = e]]
        OBVIOUS
      <4>2. entries \in [Channels -> [Roles -> ChannelList!Entry]] /\ entries[c] \in [Roles -> ChannelList!Entry]
        BY <1>0 DEF ChannelList!TypeOK
      <4>3. [entries[c] EXCEPT ![x] = e] \in [Roles -> ChannelList!Entry]
        BY <4>2
      <4>. HIDE DEF Kept
      <4> QED
        BY <3>2, <4>1, <4>2, <4>3
    <3>6. /\ PositionsAreBounded' /\ PlacesAreLocked' /\ NewChannelsAreNew' /\ ChannelList!PositionsAreDistinct'
          /\ ChannelList!OthersKeepTheirOrderStep
      BY <3>2, <3>3, <3>4, OrderStays
    <3> QED
      BY <1>0, <3>2, <3>3, <3>5, <3>6 DEF ChannelList!TypeOK, HeldRolesExist
  <2> QED
    BY <1>1, <2>1, <2>2, <2>3, <2>4, <2>5 DEF ChannelList!ChannelStep
<1>2. ASSUME NEW r \in Reqs, NEW c \in Channels, ChannelList!CreateChannel(r, c) PROVE Kept
  <2>. DEFINE to == [op |-> "create", channel |-> c]
  <2>1. /\ ChannelMoves(r, to) /\ UNCHANGED <<position, entries, roles, holders, channelLock>> /\ ~ (position[c] > 0)
        /\ \A q \in Reqs : channelReq[q] # ChannelList!NoRequest => channelReq[q].channel # c
        /\ channelEvents' \in 0 .. MaxEvents
    BY <1>0, <1>2, ChannelBegins DEF ChannelList!CreateChannel, ChannelList!Exists, ChannelMoves
  <2>2. to \in ChannelList!Request /\ to.op = "create" /\ to.channel = c
    BY DEF ChannelList!Request
  <2>3. position[c] = 0
    BY <1>0, <2>1 DEF ChannelList!TypeOK
  <2>4. \A q \in Reqs : channelReq[q].op # "idle" => channelReq[q].channel # c
    BY <1>0, <2>1, ChannelFields
  <2>. HIDE DEF to
  <2>5. /\ PositionsAreBounded' /\ PlacesAreLocked' /\ NewChannelsAreNew' /\ ChannelList!PositionsAreDistinct'
        /\ ChannelList!OthersKeepTheirOrderStep
    BY <2>1, <2>2, <2>3, <2>4, ChannelGoesOn
  <2>6. channelReq' \in [Reqs -> ChannelList!Request]
    BY <1>0, <2>1, <2>2, ChannelMovesFacts
  <2> QED
    BY <1>0, <2>1, <2>5, <2>6 DEF ChannelList!TypeOK, HeldRolesExist
<1>3. ASSUME NEW r \in Reqs, NEW c \in Channels, NEW old \in ChannelList!Places, NEW new \in ChannelList!Places,
             ChannelList!ChangeChannelPosition(r, c, old, new)
      PROVE  Kept
  <2>. DEFINE to == [op |-> "move", channel |-> c, old |-> old, new |-> new]
  <2>1. /\ ChannelMoves(r, to) /\ UNCHANGED <<position, entries, roles, holders, channelLock>>
        /\ channelEvents' \in 0 .. MaxEvents
    BY <1>0, <1>3, ChannelBegins DEF ChannelList!ChangeChannelPosition, ChannelMoves
  <2>2. old \in Nat /\ new \in Nat /\ old > 0 /\ new > 0
    BY DEF ChannelList!Places
  <2>3. to \in ChannelList!Request /\ to.op = "move" /\ to.old = old /\ to.new = new
    BY <2>2 DEF ChannelList!Request
  <2>. HIDE DEF to
  <2>4. /\ PositionsAreBounded' /\ PlacesAreLocked' /\ NewChannelsAreNew' /\ ChannelList!PositionsAreDistinct'
        /\ ChannelList!OthersKeepTheirOrderStep
    BY <2>1, <2>2, <2>3, ChannelGoesOn
  <2>5. channelReq' \in [Reqs -> ChannelList!Request]
    BY <1>0, <2>1, <2>3, ChannelMovesFacts
  <2> QED
    BY <1>0, <2>1, <2>4, <2>5 DEF ChannelList!TypeOK, HeldRolesExist
<1>4. ASSUME NEW r \in Reqs, NEW c \in Channels, NEW x \in Roles, NEW e \in ChannelList!Entry,
             ChannelList!UpdateChannelPermissions(r, c, x, e)
      PROVE  Kept
  <2>. DEFINE to == [op |-> "permit", channel |-> c, role |-> x, entry |-> e]
  <2>1. /\ ChannelMoves(r, to) /\ UNCHANGED <<position, entries, roles, holders, channelLock>>
        /\ channelEvents' \in 0 .. MaxEvents
    BY <1>0, <1>4, ChannelBegins DEF ChannelList!UpdateChannelPermissions, ChannelMoves
  <2>2. to \in ChannelList!Request /\ to.op = "permit"
    BY DEF ChannelList!Request
  <2>. HIDE DEF to
  <2>3. /\ PositionsAreBounded' /\ PlacesAreLocked' /\ NewChannelsAreNew' /\ ChannelList!PositionsAreDistinct'
        /\ ChannelList!OthersKeepTheirOrderStep
    BY <2>1, <2>2, ChannelGoesOn
  <2>4. channelReq' \in [Reqs -> ChannelList!Request]
    BY <1>0, <2>1, <2>2, ChannelMovesFacts
  <2> QED
    BY <1>0, <2>1, <2>3, <2>4 DEF ChannelList!TypeOK, HeldRolesExist
<1>5. ASSUME NEW r \in Reqs, NEW c \in Channels, ChannelList!DeleteChannel(r, c) PROVE Kept
  <2>1. /\ position' = [position EXCEPT ![c] = 0] /\ entries' = [entries EXCEPT ![c] = [x \in Roles |-> "none"]]
        /\ UNCHANGED <<roles, holders, channelLock, channelReq>> /\ channelEvents' \in 0 .. MaxEvents
        /\ \A q \in Reqs : channelReq[q].op = "place" => channelReq[q].channel # c
    BY <1>0, <1>5, ChannelBegins DEF ChannelList!DeleteChannel
  <2>2. /\ position' \in [Channels -> Nat] /\ \A d \in Channels : position'[d] \in {position[d], 0}
        /\ \A d \in Channels : d # c => position'[d] = position[d]
    BY <1>0, <2>1 DEF ChannelList!TypeOK
  <2>3. \A q \in Reqs : channelReq[q].op = "place" => channelReq[q].channel \in Channels
    BY <1>0, ChannelFields
  <2>4. entries' \in [Channels -> [Roles -> ChannelList!Entry]]
    BY <1>0, <2>1 DEF ChannelList!TypeOK, ChannelList!Entry
  <2>5. /\ PositionsAreBounded' /\ PlacesAreLocked' /\ NewChannelsAreNew' /\ ChannelList!PositionsAreDistinct'
        /\ ChannelList!OthersKeepTheirOrderStep
    BY <2>1, <2>2, <2>3, OrderStays
  <2> QED
    BY <1>0, <2>1, <2>2, <2>4, <2>5 DEF ChannelList!TypeOK, HeldRolesExist
<1>6. ASSUME NEW r \in Reqs, NEW u \in Users, NEW x \in Roles,
             \/ ChannelList!CreateRole(r, x) \/ ChannelList!DeleteRole(r, x) \/ ChannelList!AssignUserRole(r, u, x)
             \/ ChannelList!RemoveUserRole(r, u, x)
             \/ \E c \in Channels : ChannelList!DeleteChannelRolePermission(r, c, x)
      PROVE  Kept
  <2>1. /\ UNCHANGED <<position, channelLock, channelReq>> /\ channelEvents' \in 0 .. MaxEvents
    BY <1>0, <1>6, ChannelBegins DEF ChannelList!CreateRole, ChannelList!DeleteRole, ChannelList!AssignUserRole,
       ChannelList!RemoveUserRole, ChannelList!DeleteChannelRolePermission
  <2>2. roles' \subseteq Roles /\ holders' \subseteq Users \X Roles
    BY <1>0, <1>6 DEF ChannelList!CreateRole, ChannelList!DeleteRole, ChannelList!AssignUserRole,
       ChannelList!RemoveUserRole, ChannelList!DeleteChannelRolePermission, ChannelList!TypeOK
  <2>3. HeldRolesExist'
    BY <1>0, <1>6 DEF ChannelList!CreateRole, ChannelList!DeleteRole, ChannelList!AssignUserRole,
       ChannelList!RemoveUserRole, ChannelList!DeleteChannelRolePermission, HeldRolesExist
  <2>4. entries' \in [Channels -> [Roles -> ChannelList!Entry]]
    <3>1. entries \in [Channels -> [Roles -> ChannelList!Entry]] /\ "none" \in ChannelList!Entry
      BY <1>0 DEF ChannelList!TypeOK, ChannelList!Entry
    <3>2. CASE ChannelList!DeleteRole(r, x)
      BY <3>1, <3>2 DEF ChannelList!DeleteRole
    <3>3. ASSUME NEW c \in Channels, ChannelList!DeleteChannelRolePermission(r, c, x)
          PROVE  entries' \in [Channels -> [Roles -> ChannelList!Entry]]
      BY <3>1, <3>3 DEF ChannelList!DeleteChannelRolePermission
    <3>4. CASE ChannelList!CreateRole(r, x) \/ ChannelList!AssignUserRole(r, u, x) \/ ChannelList!RemoveUserRole(r, u, x)
      BY <3>1, <3>4 DEF ChannelList!CreateRole, ChannelList!AssignUserRole, ChannelList!RemoveUserRole
    <3> QED
      BY <1>6, <3>2, <3>3, <3>4
  <2>5. position' \in [Channels -> Nat] /\ \A d \in Channels : position'[d] \in {position[d], 0}
    BY <1>0, <2>1 DEF ChannelList!TypeOK
  <2>6. /\ PositionsAreBounded' /\ PlacesAreLocked' /\ NewChannelsAreNew' /\ ChannelList!PositionsAreDistinct'
        /\ ChannelList!OthersKeepTheirOrderStep
    BY <2>1, <2>5, OrderStays
  <2> QED
    BY <1>0, <2>1, <2>2, <2>3, <2>4, <2>6 DEF ChannelList!TypeOK
<1> QED
  <2>1. PICK r \in Reqs :
            \/ ChannelList!ChannelStep(r)
            \/ \E c \in Channels : ChannelList!CreateChannel(r, c) \/ ChannelList!DeleteChannel(r, c)
            \/ \E c \in Channels, old, new \in ChannelList!Places : ChannelList!ChangeChannelPosition(r, c, old, new)
            \/ \E x \in Roles : ChannelList!CreateRole(r, x) \/ ChannelList!DeleteRole(r, x)
            \/ \E u \in Users, x \in Roles : ChannelList!AssignUserRole(r, u, x) \/ ChannelList!RemoveUserRole(r, u, x)
            \/ \E c \in Channels, x \in Roles, e \in ChannelList!Entry \ {"none"} :
                  ChannelList!UpdateChannelPermissions(r, c, x, e)
            \/ \E c \in Channels, x \in Roles : ChannelList!DeleteChannelRolePermission(r, c, x)
    BY DEF ChannelList!Next
  <2>. HIDE DEF Kept
  <2>2. ASSUME NEW x \in Roles, ChannelList!CreateRole(r, x) \/ ChannelList!DeleteRole(r, x) PROVE Kept
    BY <1>6, <2>2
  <2>3. ASSUME NEW c \in Channels, NEW x \in Roles, ChannelList!DeleteChannelRolePermission(r, c, x) PROVE Kept
    BY <1>6, <2>3
  <2> QED
    BY <2>1, <2>2, <2>3, <1>1, <1>2, <1>3, <1>4, <1>5, <1>6

LEMMA ChannelInitInv ==
    ASSUME ChannelList!Assumptions, ChannelList!Init
    PROVE  ChannelInv
<1>1. ChannelList!TypeOK
  <2>1. channelEvents \in 0 .. MaxEvents /\ channelReq \in [Reqs -> ChannelList!Request]
    BY ChannelConstants, IdleChannel DEF ChannelList!Init
  <2>2. position \in [Channels -> Nat] /\ entries \in [Channels -> [Roles -> ChannelList!Entry]]
    BY DEF ChannelList!Init, ChannelList!Entry
  <2>3. roles \subseteq Roles /\ holders \subseteq Users \X Roles /\ channelLock \in Reqs \cup {None}
    BY DEF ChannelList!Init
  <2> QED
    BY <2>1, <2>2, <2>3 DEF ChannelList!TypeOK
<1>2. \A r \in Reqs : channelReq[r].op = "idle"
  BY IdleChannel DEF ChannelList!Init
<1>3. \A c \in Channels : position[c] = 0
  BY DEF ChannelList!Init
<1>4. PositionsAreBounded /\ PlacesAreLocked /\ NewChannelsAreNew
  BY <1>2, <1>3 DEF PositionsAreBounded, PlacesAreLocked, NewChannelsAreNew
<1>5. HeldRolesExist
  BY DEF ChannelList!Init, HeldRolesExist
<1>6. ChannelList!PositionsAreDistinct
  BY <1>3 DEF ChannelList!PositionsAreDistinct, ChannelList!Existing, ChannelList!Exists
<1> QED
  BY <1>1, <1>4, <1>5, <1>6 DEF ChannelInv

\* With no role held that was deleted, the three rules say the same.
LEMMA ReadersAgree ==
    ASSUME ChannelList!Assumptions, ChannelInv
    PROVE  ChannelList!ReadRulesAgree
<1>1. Owner \in Users
  BY ChannelConstants
<1>2. roles \subseteq Roles /\ \A u \in Users, x \in Roles : <<u, x>> \in holders => x \in roles
  BY DEF ChannelInv, ChannelList!TypeOK, HeldRolesExist
<1> SUFFICES ASSUME NEW c \in Channels
             PROVE  /\ {u \in Users : ChannelList!CanReadChannel(c, u)} = ChannelList!ChannelReaders(c)
                    /\ {u \in Users : ChannelList!CanReadChannel(c, u)} = {u \in Users : c \in ChannelList!SearchMessages(u)}
  BY DEF ChannelList!ReadRulesAgree
<1>3. ASSUME NEW u \in Users
      PROVE  ChannelList!CanReadChannel(c, u) <=>
               ChannelList!Exists(c) /\ (u = Owner \/ ChannelList!IsOpen(c)
                  \/ \E x \in roles : <<u, x>> \in holders /\ entries[c][x] = "read")
  BY DEF ChannelList!CanReadChannel, ChannelList!UserHasChannelPermission, ChannelList!GetRolesByUser
<1>4. ASSUME NEW u \in Users
      PROVE  c \in ChannelList!SearchMessages(u) <=>
               ChannelList!Exists(c) /\ (u = Owner \/ ChannelList!IsOpen(c)
                  \/ \E x \in roles : <<u, x>> \in holders /\ entries[c][x] = "read")
  BY DEF ChannelList!SearchMessages, ChannelList!Existing
<1>5. ASSUME NEW u
      PROVE  u \in ChannelList!ChannelReaders(c) <=>
               u \in Users /\ ChannelList!Exists(c) /\ (u = Owner \/ ChannelList!IsOpen(c)
                  \/ \E x \in roles : <<u, x>> \in holders /\ entries[c][x] = "read")
  BY <1>1, <1>2 DEF ChannelList!ChannelReaders, ChannelList!GetUsersByRoles
<1> QED
  BY <1>3, <1>4, <1>5

ChannelsStayInv == part = "channels" => ChannelInv

LEMMA RecordsChannels ==
    ChannelsStayInv /\ [RecordsNext]_recordsVars =>
        /\ ChannelsStayInv'
        /\ [part = "channels" => ChannelList!OthersKeepTheirOrderStep]_recordsVars
<1> SUFFICES ASSUME part = "channels" => ChannelInv, [RecordsNext]_recordsVars, part = "channels" \/ part' = "channels"
             PROVE  ChannelInv' /\ [ChannelList!OthersKeepTheirOrderStep]_recordsVars
  BY DEF ChannelsStayInv
<1>1. part = "channels" /\ part' = "channels" /\ (ChannelList!Next \/ UNCHANGED recordsVars)
  BY DEF RecordsNext, recordsVars
<1>2. CASE ChannelList!Next
  BY <1>1, <1>2, ChannelKeeps, RecordsAssumption
<1>3. CASE UNCHANGED recordsVars
  <2>1. UNCHANGED channelVars
    BY <1>3 DEF recordsVars
  <2> QED
    BY <1>1, <1>3, <2>1 DEF channelVars, ChannelInv, ChannelList!TypeOK, PositionsAreBounded, PlacesAreLocked,
       NewChannelsAreNew, HeldRolesExist, ChannelList!PositionsAreDistinct, ChannelList!Existing, ChannelList!Exists
<1> QED
  BY <1>1, <1>2, <1>3

\* The rules of who reads agree, positions stay distinct and only a move changes
\* the order, of the channel it names, for any channels, roles and requests.
THEOREM ChannelsStayInOrder == RecordsSpec => ChannelsAreConsistent
<1>1. RecordsInit => ChannelsStayInv
  BY RecordsAssumption, ChannelInitInv DEF RecordsInit, ChannelsStayInv
<1>2. ChannelsStayInv =>
        (part = "channels" => ChannelList!TypeOK /\ ChannelList!ReadRulesAgree /\ ChannelList!PositionsAreDistinct)
  BY ReadersAgree, RecordsAssumption DEF ChannelsStayInv, ChannelInv
<1> QED
  BY <1>1, <1>2, RecordsChannels, PTL DEF RecordsSpec, ChannelsAreConsistent

-----------------------------------------------------------------------------
(***************************************************************************)
(* The sessions of a user (Sessions), for any number of rows: what their   *)
(* chains and the locks of their rows keep in order.                       *)
(***************************************************************************)
USE MaxConnsAssumption, NoneAssumption

Used == Conns \ Unused
Links == {"lock", "commit", "reread", "walk"}

\* A row that was created belongs to the family of a row that was created, and
\* a row that was not has no successor.
FamiliesAreUsed ==
    /\ \A c \in Used : family[c] \in Used
    /\ \A c \in Unused : by[c] = None
    /\ \A r \in Reqs : snap[r] \subseteq Used
    /\ dropped \subseteq Used

\* Whoever is about to link a successor holds the lock of its row, which is
\* active until then.
RotationsHoldTheRow ==
    \A r \in Reqs : at[r] = "commit" => locker[tok[r]] = r /\ status[tok[r]] = "active"

\* A successor is of the same login, and it is there as long as the row it
\* replaced; an active row has none; a row that was replaced and has none was
\* revoked.
ChainsAreWhole ==
    /\ \A c \in Conns : by[c] # None => by[c] \in Used /\ family[by[c]] = family[c]
    /\ \A c \in Live : by[c] # None => by[c] \in Live
    /\ \A c \in Active : by[c] = None
    /\ \A c \in Live \ Active : by[c] = None => family[c] \in dropped \cup ended

\* A request that follows the chain stands on a row of its token's login that
\* was not archived meanwhile.
WalksStayInTheFamily ==
    \A r \in Reqs :
        /\ at[r] \in Links => {tok[r], cur[r]} \subseteq Live /\ family[cur[r]] = family[tok[r]]
        /\ at[r] \in {"refresh", "lock", "commit", "reread"} => cur[r] = tok[r]

\* Some token was replaced by rotation and left its grace period.
Reused == \E c \in Conns : by[c] # None /\ status[c] \in {"late", "history", "purged"}

ReuseIsReal == (violation \/ \E r \in Reqs : why[r] = "reuse") => Reused

IInv ==
    /\ TypeOK
    /\ FamiliesAreUsed
    /\ RotationsHoldTheRow
    /\ ChainsAreWhole
    /\ WalksStayInTheFamily
    /\ ReuseIsReal
    /\ OneActivePerLogin
    /\ DroppedStaysDropped

USE DEF rowVars, userVars, reqVars


-----------------------------------------------------------------------------
(***************************************************************************)
(* Typing.                                                                 *)
(***************************************************************************)
LEMMA NoneIsNoRow == \A c \in Conns : c # None
BY DEF Conns

\* Every action keeps the types; the families that are noted are rows, because
\* a row that was created has one.
LEMMA TypeStep ==
    ASSUME TypeOK, FamiliesAreUsed, [Next]_vars
    PROVE  TypeOK'
<1>1. ASSUME NEW r \in Reqs, NEW c \in Conns, Request(r, c) PROVE TypeOK'
  <2>1. CASE CreateSessionConnection(r, c)
    BY <2>1 DEF TypeOK, CreateSessionConnection
  <2>2. CASE JWTMiddleware(r, c)
    BY <2>2 DEF TypeOK, JWTMiddleware, RevokeAllFor, Goto
  <2>3. CASE Logout(r, c)
    <3>1. CASE RevokeAllFor(r, "reuse") /\ UNCHANGED <<tok, cur>>
      BY <2>3, <3>1 DEF TypeOK, Logout, RevokeAllFor, Goto
    <3>2. CASE Start(r, c, "logout") /\ UNCHANGED why
      BY <2>3, <3>2, NoneIsNoRow DEF TypeOK, Logout, Start, Goto
    <3>3. QED
      BY <2>3, <3>1, <3>2 DEF Logout
  <2>4. CASE DropConnection(r, c)
    <3>1. family[c] \in Conns
      BY <2>4 DEF TypeOK, DropConnection, Present, FamiliesAreUsed, Used, Unused
    <3>2. QED
      BY <2>4, <3>1 DEF TypeOK, DropConnection, RevokeUserConnection
  <2>5. CASE RefreshHandler(r, c)
    <3>1. CASE RevokeAllFor(r, "drop") /\ UNCHANGED <<tok, cur>>
      BY <2>5, <3>1 DEF TypeOK, RefreshHandler, RevokeAllFor, Goto
    <3>2. CASE Start(r, c, "refresh") /\ UNCHANGED why
      BY <2>5, <3>2, NoneIsNoRow DEF TypeOK, RefreshHandler, Start, Goto
    <3>3. QED
      BY <2>5, <3>1, <3>2 DEF RefreshHandler
  <2>6. QED
    BY <1>1, <2>1, <2>2, <2>3, <2>4, <2>5 DEF Request
<1>2. ASSUME NEW r \in Reqs, NEW w \in {"drop", "reset", "ban"}, DropAll(r, w) PROVE TypeOK'
  BY <1>2 DEF TypeOK, DropAll, RevokeAllFor, Goto
<1>3. ASSUME NEW r \in Reqs, RequestStep(r) PROVE TypeOK'
  <2>1. CASE RefreshConnection(r)
    BY <2>1 DEF TypeOK, RefreshConnection, Reply, Goto
  <2>2. CASE RotateBegins(r)
    BY <2>2 DEF TypeOK, RotateBegins, Goto
  <2>3. CASE RotateUserConnection(r)
    <3>1. tok[r] \in Conns
      BY <2>3 DEF TypeOK, RotateUserConnection
    <3>2. /\ status' \in [Conns -> {"unused", "active", "grace", "late", "history", "purged"}]
          /\ by' \in [Conns -> Conns \cup {None}] /\ family' \in [Conns -> Conns \cup {None}]
      BY <2>3, <3>1 DEF TypeOK, RotateUserConnection, Unused
    <3>3. QED
      BY <2>3, <3>2 DEF TypeOK, RotateUserConnection, Reply, Goto
  <2>4. CASE TipConnection(r)
    BY <2>4 DEF TypeOK, TipConnection, Reply, Goto
  <2>5. CASE LogoutRevokes(r)
    <3>1. status[tok[r]] = "active" => family[tok[r]] \in Conns
      BY <2>5 DEF TypeOK, LogoutRevokes, FamiliesAreUsed, Used, Unused
    <3>2. QED
      BY <2>5, <3>1 DEF TypeOK, LogoutRevokes, RevokeUserConnection, Reply, Goto
  <2>6. CASE RevokeAllBegins(r)
    <3>1. Active \subseteq Conns
      BY DEF Active
    <3>2. QED
      BY <2>6, <3>1 DEF TypeOK, RevokeAllBegins, Goto
  <2>7. CASE RevokeAllUserConnections(r)
    <3>1. ended' \subseteq Conns
      BY <2>7 DEF TypeOK, RevokeAllUserConnections, FamiliesAreUsed, Used
    <3>2. violation' \in BOOLEAN /\ banned' \in BOOLEAN
      BY <2>7 DEF RevokeAllUserConnections
    <3>3. QED
      BY <2>7, <3>1, <3>2 DEF TypeOK, RevokeAllUserConnections, Reply, Goto
  <2>8. QED
    BY <1>3, <2>1, <2>2, <2>3, <2>4, <2>5, <2>6, <2>7 DEF RequestStep
<1>4. CASE Unban
  BY <1>4 DEF TypeOK, Unban
<1>5. ASSUME NEW c \in Conns, GraceEnds(c) \/ PurgeHistory(c) PROVE TypeOK'
  BY <1>5 DEF TypeOK, GraceEnds, PurgeHistory
<1>6. ASSUME NEW old \in SUBSET Conns, MoveToHistory(old) PROVE TypeOK'
  BY <1>6 DEF TypeOK, MoveToHistory
<1>7. CASE UNCHANGED vars
  BY <1>7 DEF TypeOK, vars
<1>8. QED
  BY <1>1, <1>2, <1>3, <1>4, <1>5, <1>6, <1>7 DEF Next

USE DEF Conns, Live, Active, Unused, Used

-----------------------------------------------------------------------------
(***************************************************************************)
(* Steps that leave the rows alone.                                        *)
(***************************************************************************)
\* While the rows are what they were, it is enough that revocations begin with
\* rows that exist and that nobody comes to hold a lock.
LEMMA RowsUntouched ==
    ASSUME IInv, TypeOK', UNCHANGED <<rowVars, dropped, ended>>,
           \A r \in Reqs : snap'[r] \subseteq Used,
           \A r \in Reqs : at'[r] = "commit" => at[r] = "commit" /\ tok'[r] = tok[r],
           WalksStayInTheFamily', ReuseIsReal'
    PROVE  IInv'
<1>1. FamiliesAreUsed'
  BY DEF IInv, FamiliesAreUsed
<1>2. RotationsHoldTheRow'
  BY DEF IInv, RotationsHoldTheRow
<1>3. ChainsAreWhole'
  BY DEF IInv, ChainsAreWhole
<1>4. OneActivePerLogin' /\ DroppedStaysDropped'
  BY DEF IInv, OneActivePerLogin, DroppedStaysDropped
<1>5. QED
  BY <1>1, <1>2, <1>3, <1>4 DEF IInv

\* A token that is found to be reused was replaced and is past its grace period.
LEMMA ReuseIsSeen ==
    ASSUME TypeOK, NEW c \in Conns, Verdict(c) = "reuse"
    PROVE  Reused
BY DEF TypeOK, Verdict, Reused

LEMMA MiddlewareKeeps ==
    ASSUME IInv, TypeOK', NEW r \in Reqs, NEW c \in Conns,
           JWTMiddleware(r, c) \/ Logout(r, c) \/ RefreshHandler(r, c)
    PROVE  IInv'
<1> USE DEF JWTMiddleware, Logout, RefreshHandler, Present, RevokeAllFor, Start, Goto
<1>1. UNCHANGED <<rowVars, dropped, ended>> /\ UNCHANGED <<snap, violation>>
  OBVIOUS
<1>2. \A q \in Reqs : snap'[q] \subseteq Used
  BY <1>1 DEF IInv, FamiliesAreUsed
<1>3. \A q \in Reqs : at'[q] = "commit" => at[q] = "commit" /\ tok'[q] = tok[q]
  BY DEF IInv, TypeOK
<1>4. WalksStayInTheFamily'
  BY DEF IInv, TypeOK, WalksStayInTheFamily, Links
<1>5. ReuseIsReal'
  <2>1. CASE Verdict(c) = "reuse"
    BY <1>1, <2>1, ReuseIsSeen DEF IInv, ReuseIsReal, Reused
  <2>2. CASE Verdict(c) # "reuse"
    <3>1. \A q \in Reqs : why'[q] = "reuse" => why[q] = "reuse"
      BY <2>2 DEF IInv, TypeOK
    <3>2. QED
      BY <1>1, <3>1 DEF IInv, ReuseIsReal, Reused
  <2>3. QED
    BY <2>1, <2>2
<1>6. QED
  BY <1>1, <1>2, <1>3, <1>4, <1>5, RowsUntouched

LEMMA DropAllKeeps ==
    ASSUME IInv, TypeOK', NEW r \in Reqs, NEW w \in {"drop", "reset", "ban"}, DropAll(r, w)
    PROVE  IInv'
<1> USE DEF DropAll, RevokeAllFor, Goto
<1>1. UNCHANGED <<rowVars, dropped, ended>> /\ UNCHANGED <<snap, violation>>
  OBVIOUS
<1>2. \A q \in Reqs : snap'[q] \subseteq Used
  BY <1>1 DEF IInv, FamiliesAreUsed
<1>3. \A q \in Reqs : at'[q] = "commit" => at[q] = "commit" /\ tok'[q] = tok[q]
  BY DEF IInv, TypeOK
<1>4. WalksStayInTheFamily'
  BY DEF IInv, TypeOK, WalksStayInTheFamily, Links
<1>5. ReuseIsReal'
  BY <1>1 DEF IInv, TypeOK, ReuseIsReal, Reused
<1>6. QED
  BY <1>1, <1>2, <1>3, <1>4, <1>5, RowsUntouched

LEMMA RevokeAllBeginsKeeps ==
    ASSUME IInv, TypeOK', NEW r \in Reqs, RevokeAllBegins(r)
    PROVE  IInv'
<1> USE DEF RevokeAllBegins, Goto
<1>1. \A q \in Reqs : snap'[q] \subseteq Used
  BY DEF IInv, TypeOK, FamiliesAreUsed
<1>2. \A q \in Reqs : at'[q] = "commit" => at[q] = "commit" /\ tok'[q] = tok[q]
  BY DEF IInv, TypeOK
<1>3. WalksStayInTheFamily'
  BY DEF IInv, TypeOK, WalksStayInTheFamily, Links
<1>4. ReuseIsReal'
  BY DEF IInv, TypeOK, ReuseIsReal, Reused
<1>5. QED
  BY <1>1, <1>2, <1>3, <1>4, RowsUntouched

LEMMA UnbanKeeps ==
    ASSUME IInv, TypeOK', Unban
    PROVE  IInv'
<1> USE DEF Unban
<1>1. \A q \in Reqs : snap'[q] \subseteq Used
  BY DEF IInv, FamiliesAreUsed
<1>2. WalksStayInTheFamily' /\ ReuseIsReal'
  BY DEF IInv, WalksStayInTheFamily, ReuseIsReal, Reused
<1>3. QED
  BY <1>1, <1>2, RowsUntouched

\* Reading the row of the token leads to the chain or to the rotation; following
\* the chain stays in the family, as the link that is followed is whole.
LEMMA RefreshKeeps ==
    ASSUME IInv, TypeOK', NEW r \in Reqs, RefreshConnection(r) \/ TipConnection(r)
    PROVE  IInv'
<1> USE DEF RefreshConnection, TipConnection, Reply, Goto
<1>1. UNCHANGED <<rowVars, dropped, ended>> /\ UNCHANGED <<snap, violation, why>>
  OBVIOUS
<1>2. \A q \in Reqs : snap'[q] \subseteq Used
  BY <1>1 DEF IInv, FamiliesAreUsed
<1>3. \A q \in Reqs : at'[q] = "commit" => at[q] = "commit" /\ tok'[q] = tok[q]
  BY DEF IInv, TypeOK
<1>4. WalksStayInTheFamily'
  <2>1. CASE RefreshConnection(r)
    BY <2>1 DEF IInv, TypeOK, WalksStayInTheFamily, Links, Replaced
  <2>2. CASE TipConnection(r)
    <3>1. CASE Replaced(cur[r]) /\ by[cur[r]] # None
      <4>1. {tok[r], cur[r]} \subseteq Live /\ family[cur[r]] = family[tok[r]]
        BY <2>2 DEF IInv, WalksStayInTheFamily, Links
      <4>2. by[cur[r]] \in Live /\ family[by[cur[r]]] = family[cur[r]]
        BY <3>1, <4>1 DEF IInv, ChainsAreWhole
      <4>3. cur' = [cur EXCEPT ![r] = by[cur[r]]] /\ UNCHANGED <<at, tok>>
        BY <2>2, <3>1
      <4>4. QED
        BY <1>1, <2>2, <4>1, <4>2, <4>3 DEF IInv, TypeOK, WalksStayInTheFamily, Links
    <3>2. CASE ~(Replaced(cur[r]) /\ by[cur[r]] # None)
      BY <2>2, <3>2 DEF IInv, TypeOK, WalksStayInTheFamily, Links
    <3>3. QED
      BY <3>1, <3>2
  <2>3. QED
    BY <2>1, <2>2
<1>5. ReuseIsReal'
  BY <1>1 DEF IInv, ReuseIsReal, Reused
<1>6. QED
  BY <1>1, <1>2, <1>3, <1>4, <1>5, RowsUntouched

-----------------------------------------------------------------------------
(***************************************************************************)
(* Steps that change rows.                                                 *)
(***************************************************************************)
\* A login begins a family of its own.
LEMMA CreateKeeps ==
    ASSUME IInv, TypeOK', NEW r \in Reqs, NEW c \in Conns, CreateSessionConnection(r, c)
    PROVE  IInv'
<1> USE DEF CreateSessionConnection
<1>1. c \in Unused /\ Unused' = Unused \ {c} /\ Active' = Active \cup {c} /\ Live' = Live \cup {c}
  BY DEF IInv, TypeOK
<1>2. FamiliesAreUsed'
  BY <1>1 DEF IInv, TypeOK, FamiliesAreUsed
<1>3. RotationsHoldTheRow'
  BY DEF IInv, TypeOK, RotationsHoldTheRow
<1>4. ChainsAreWhole'
  <2>1. \A d \in Conns : by[d] # None => d # c /\ by[d] # c
    BY <1>1 DEF IInv, FamiliesAreUsed, ChainsAreWhole
  <2>2. QED
    BY <1>1, <2>1 DEF IInv, TypeOK, ChainsAreWhole, FamiliesAreUsed
<1>5. WalksStayInTheFamily'
  BY <1>1 DEF IInv, TypeOK, WalksStayInTheFamily
<1>6. ReuseIsReal'
  BY DEF IInv, TypeOK, ReuseIsReal, Reused
<1>7. OneActivePerLogin'
  BY <1>1 DEF IInv, TypeOK, OneActivePerLogin, FamiliesAreUsed
<1>8. DroppedStaysDropped'
  BY <1>1 DEF IInv, TypeOK, DroppedStaysDropped, FamiliesAreUsed
<1>9. QED
  BY <1>2, <1>3, <1>4, <1>5, <1>6, <1>7, <1>8 DEF IInv

\* A revocation waits for the lock, so no rotation is under way on its row; and
\* as the row is the only active one of its family, none is left.
LEMMA RevokeKeeps ==
    ASSUME IInv, TypeOK', NEW r \in Reqs, NEW c \in Conns,
           DropConnection(r, c) \/ (LogoutRevokes(r) /\ tok[r] = c)
    PROVE  IInv'
<1> USE DEF RevokeUserConnection, Reply, Goto
<1>1. RevokeUserConnection(c)
  BY DEF DropConnection, LogoutRevokes
<1>2. /\ \A q \in Reqs : at'[q] # "idle" => at'[q] = at[q] /\ tok'[q] = tok[q] /\ cur'[q] = cur[q]
      /\ UNCHANGED <<by, family, locker, violation, snap, why, ended>>
  BY DEF DropConnection, LogoutRevokes, IInv, TypeOK
<1>3. CASE status[c] = "active"
  <2>1. /\ status' = [status EXCEPT ![c] = "grace"] /\ dropped' = dropped \cup {family[c]}
        /\ locker[c] = None
    BY <1>1, <1>3
  <2>2. Unused' = Unused /\ Active' = Active \ {c} /\ Live' = Live
    BY <1>3, <2>1 DEF IInv, TypeOK
  <2>3. FamiliesAreUsed'
    BY <1>2, <1>3, <2>1, <2>2 DEF IInv, TypeOK, FamiliesAreUsed
  <2>4. RotationsHoldTheRow'
    BY <1>2, <2>1 DEF IInv, TypeOK, RotationsHoldTheRow
  <2>5. ChainsAreWhole'
    BY <1>2, <2>1, <2>2 DEF IInv, TypeOK, ChainsAreWhole
  <2>6. WalksStayInTheFamily'
    <3>1. \A q \in Reqs : at'[q] \in Links \cup {"refresh"} =>
                          at'[q] = at[q] /\ tok'[q] = tok[q] /\ cur'[q] = cur[q]
      BY <1>2 DEF Links
    <3>2. QED
      BY <1>2, <2>2, <3>1 DEF IInv, WalksStayInTheFamily, Links
  <2>7. ReuseIsReal'
    BY <1>2, <1>3, <2>1 DEF IInv, TypeOK, ReuseIsReal, Reused
  <2>8. OneActivePerLogin' /\ DroppedStaysDropped'
    BY <1>2, <1>3, <2>1, <2>2 DEF IInv, OneActivePerLogin, DroppedStaysDropped
  <2>9. QED
    BY <2>3, <2>4, <2>5, <2>6, <2>7, <2>8 DEF IInv
<1>4. CASE status[c] # "active"
  <2>1. UNCHANGED <<rowVars, dropped, ended>>
    BY <1>1, <1>2, <1>4
  <2>2. /\ \A q \in Reqs : snap'[q] \subseteq Used
        /\ \A q \in Reqs : at'[q] = "commit" => at[q] = "commit" /\ tok'[q] = tok[q]
    BY <1>2 DEF IInv, FamiliesAreUsed
  <2>3. WalksStayInTheFamily' /\ ReuseIsReal'
    BY <1>2, <2>1 DEF IInv, WalksStayInTheFamily, Links, ReuseIsReal, Reused
  <2>4. QED
    BY <2>1, <2>2, <2>3, RowsUntouched
<1>5. QED
  BY <1>3, <1>4

\* The revocation of everything passes by the rows that rotations hold.
LEMMA RevokeAllKeeps ==
    ASSUME IInv, TypeOK', NEW r \in Reqs, RevokeAllUserConnections(r)
    PROVE  IInv'
<1> USE DEF RevokeAllUserConnections, Reply, Goto
<1>1. /\ \A q \in Reqs : at'[q] # "idle" => at'[q] = at[q] /\ tok'[q] = tok[q] /\ cur'[q] = cur[q]
      /\ \A q \in Reqs : why'[q] = "reuse" => why[q] = "reuse"
      /\ UNCHANGED <<by, family, locker, dropped>>
  BY DEF IInv, TypeOK
<1>2. Unused' = Unused /\ Active' = Active \ snap[r] /\ Live' = Live
  BY DEF IInv, TypeOK
<1>3. FamiliesAreUsed'
  BY <1>1, <1>2 DEF IInv, TypeOK, FamiliesAreUsed
<1>4. RotationsHoldTheRow'
  <2> SUFFICES ASSUME NEW q \in Reqs, at'[q] = "commit"
               PROVE  locker'[tok'[q]] = q /\ status'[tok'[q]] = "active"
    BY DEF RotationsHoldTheRow
  <2>1. tok[q] \in Conns /\ locker[tok[q]] = q /\ status[tok[q]] = "active" /\ tok'[q] = tok[q]
    BY <1>1 DEF IInv, TypeOK, RotationsHoldTheRow
  <2>2. tok[q] \notin snap[r]
    BY <2>1 DEF IInv, TypeOK
  <2>3. QED
    BY <1>1, <2>1, <2>2
<1>5. ChainsAreWhole'
  <2>1. \A c \in (Live \ Active)' : c \in Live \ Active \/ family[c] \in ended'
    BY <1>2
  <2>2. ended \subseteq ended'
    OBVIOUS
  <2>3. QED
    BY <1>1, <1>2, <2>1, <2>2 DEF IInv, ChainsAreWhole
<1>6. WalksStayInTheFamily'
  BY <1>1, <1>2 DEF IInv, TypeOK, WalksStayInTheFamily, Links
<1>7. ReuseIsReal'
  <2>1. Reused => Reused'
    BY <1>1 DEF Reused
  <2>2. violation' => violation \/ why[r] = "reuse"
    OBVIOUS
  <2>3. QED
    BY <1>1, <2>1, <2>2 DEF IInv, ReuseIsReal
<1>8. OneActivePerLogin' /\ DroppedStaysDropped'
  BY <1>1, <1>2 DEF IInv, OneActivePerLogin, DroppedStaysDropped
<1>9. QED
  BY <1>3, <1>4, <1>5, <1>6, <1>7, <1>8 DEF IInv

\* Whoever gets the lock finds the row active, and nobody else had the lock.
LEMMA RotateBeginsKeeps ==
    ASSUME IInv, TypeOK', NEW r \in Reqs, RotateBegins(r)
    PROVE  IInv'
<1> USE DEF RotateBegins, Goto
<1>1. UNCHANGED <<status, by, family, violation, tok, cur, snap, why, dropped, ended>>
  OBVIOUS
<1>2. \A q \in Reqs : at'[q] \in Links => at[q] \in Links
  BY DEF IInv, TypeOK, Links
<1>3. \A q \in Reqs : at'[q] \in {"refresh", "lock", "commit", "reread"} =>
                      at[q] \in {"refresh", "lock", "commit", "reread"}
  BY DEF IInv, TypeOK
<1>4. RotationsHoldTheRow'
  BY DEF IInv, TypeOK, RotationsHoldTheRow
<1>5. WalksStayInTheFamily'
  BY <1>1, <1>2, <1>3 DEF IInv, WalksStayInTheFamily
<1>6. FamiliesAreUsed' /\ ChainsAreWhole' /\ ReuseIsReal'
  BY <1>1 DEF IInv, FamiliesAreUsed, ChainsAreWhole, ReuseIsReal, Reused
<1>7. OneActivePerLogin' /\ DroppedStaysDropped'
  BY <1>1 DEF IInv, OneActivePerLogin, DroppedStaysDropped
<1>8. QED
  BY <1>4, <1>5, <1>6, <1>7 DEF IInv

\* The one rotation of a row ends: its successor takes its place in the family.
LEMMA RotateKeeps ==
    ASSUME IInv, TypeOK', NEW r \in Reqs, RotateUserConnection(r)
    PROVE  IInv'
<1> DEFINE old == tok[r]
<1> USE DEF RotateUserConnection, Reply, Goto
<1>1. /\ \A q \in Reqs : at'[q] # "idle" => q # r /\ at'[q] = at[q] /\ tok'[q] = tok[q] /\ cur'[q] = cur[q]
      /\ UNCHANGED <<violation, snap, why, dropped, ended>>
  BY DEF IInv, TypeOK
<1>2. old \in Conns /\ status[old] = "active" /\ locker[old] = r /\ at[r] = "commit"
      /\ locker' = [locker EXCEPT ![old] = None]
  BY DEF IInv, TypeOK, RotationsHoldTheRow
<1>3. \A q \in Reqs \ {r} : at[q] = "commit" => tok[q] # old
  BY <1>2 DEF IInv, RotationsHoldTheRow
<1>4. ASSUME NEW new \in Unused,
             status' = [status EXCEPT ![old] = "grace", ![new] = "active"],
             by' = [by EXCEPT ![old] = new],
             family' = [family EXCEPT ![new] = family[old]]
      PROVE  IInv'
  <2>1. /\ new # old /\ Unused' = Unused \ {new} /\ Live' = Live \cup {new}
        /\ Active' = (Active \ {old}) \cup {new} /\ new \notin Live /\ by[new] = None
    BY <1>2, <1>4 DEF IInv, TypeOK, FamiliesAreUsed
  <2>2. FamiliesAreUsed'
    BY <1>1, <1>2, <1>4, <2>1 DEF IInv, TypeOK, FamiliesAreUsed
  <2>3. RotationsHoldTheRow'
    BY <1>1, <1>2, <1>3, <1>4, <2>1 DEF IInv, TypeOK, RotationsHoldTheRow
  <2>4. ChainsAreWhole'
    <3>1. \A d \in Conns : by[d] # None => d # new /\ by[d] # new
      BY <2>1 DEF IInv, ChainsAreWhole
    <3>2. \A d \in Conns : by'[d] # None => by'[d] \in Used' /\ family'[by'[d]] = family'[d]
      BY <1>2, <1>4, <2>1, <3>1 DEF IInv, TypeOK, ChainsAreWhole
    <3>3. \A d \in Live' : by'[d] # None => by'[d] \in Live'
      BY <1>2, <1>4, <2>1, <3>1 DEF IInv, TypeOK, ChainsAreWhole
    <3>4. \A d \in Active' : by'[d] = None
      BY <1>2, <1>4, <2>1 DEF IInv, TypeOK, ChainsAreWhole
    <3>5. \A d \in Live' \ Active' : by'[d] = None => family'[d] \in dropped' \cup ended'
      BY <1>1, <1>2, <1>4, <2>1 DEF IInv, TypeOK, ChainsAreWhole
    <3>6. QED
      BY <3>2, <3>3, <3>4, <3>5 DEF ChainsAreWhole
  <2>5. WalksStayInTheFamily'
    <3>1. \A q \in Reqs : at'[q] \in Links \cup {"refresh"} =>
                          at'[q] = at[q] /\ tok'[q] = tok[q] /\ cur'[q] = cur[q]
      BY <1>1 DEF Links
    <3>2. \A d \in Live : d \in Live' /\ family'[d] = family[d]
      BY <1>4, <2>1 DEF IInv, TypeOK
    <3>3. QED
      BY <3>1, <3>2 DEF IInv, WalksStayInTheFamily, Links
  <2>6. ReuseIsReal'
    <3>1. Reused => Reused'
      <4> SUFFICES ASSUME NEW d \in Conns, by[d] # None, status[d] \in {"late", "history", "purged"}
                   PROVE  by'[d] # None /\ status'[d] \in {"late", "history", "purged"}
        BY DEF Reused
      <4>1. d # old /\ d # new
        BY <1>2
      <4>2. QED
        BY <1>4, <4>1 DEF IInv, TypeOK
    <3>2. QED
      BY <1>1, <3>1 DEF IInv, ReuseIsReal
  <2>7. OneActivePerLogin'
    <3>1. \A d \in Active' : d = new \/ (d \in Active /\ d # old)
      BY <2>1
    <3>2. \A d \in Active \ {old} : family[d] # family[old]
      BY <1>2 DEF IInv, OneActivePerLogin
    <3>3. family'[new] = family[old] /\ \A d \in Conns \ {new} : family'[d] = family[d]
      BY <1>4 DEF IInv, TypeOK
    <3>4. ASSUME NEW d \in Active', NEW e \in Active', family'[d] = family'[e] PROVE d = e
      <4>1. CASE d = new \/ e = new
        BY <2>1, <3>1, <3>2, <3>3, <3>4, <4>1
      <4>2. CASE d # new /\ e # new
        BY <3>1, <3>3, <3>4, <4>2 DEF IInv, OneActivePerLogin
      <4>3. QED
        BY <4>1, <4>2
    <3>5. QED
      BY <3>4 DEF OneActivePerLogin
  <2>8. DroppedStaysDropped'
    BY <1>1, <1>2, <1>4, <2>1 DEF IInv, TypeOK, DroppedStaysDropped
  <2>9. QED
    BY <2>2, <2>3, <2>4, <2>5, <2>6, <2>7, <2>8 DEF IInv
<1>5. CASE UNCHANGED <<status, by, family>>
  <2>1. RotationsHoldTheRow'
    BY <1>1, <1>2, <1>3, <1>5 DEF IInv, TypeOK, RotationsHoldTheRow
  <2>2. WalksStayInTheFamily'
    BY <1>1, <1>5 DEF IInv, WalksStayInTheFamily, Links
  <2>3. FamiliesAreUsed' /\ ChainsAreWhole' /\ ReuseIsReal'
    BY <1>1, <1>5 DEF IInv, FamiliesAreUsed, ChainsAreWhole, ReuseIsReal, Reused
  <2>4. OneActivePerLogin' /\ DroppedStaysDropped'
    BY <1>1, <1>5 DEF IInv, OneActivePerLogin, DroppedStaysDropped
  <2>5. QED
    BY <2>1, <2>2, <2>3, <2>4 DEF IInv
<1>6. QED
  BY <1>4, <1>5

\* Rows age and are archived only when they are of no request, with the rows
\* that link to them.
LEMMA AgeKeeps ==
    ASSUME IInv, TypeOK', NEW c \in Conns, GraceEnds(c) \/ PurgeHistory(c)
    PROVE  IInv'
<1> USE DEF GraceEnds, PurgeHistory
<1>1. Unused' = Unused /\ Active' = Active /\ Live' = Live
  BY DEF IInv, TypeOK
<1>2. UNCHANGED <<by, family, locker, userVars, reqVars, dropped, ended>>
  OBVIOUS
<1>3. RotationsHoldTheRow'
  BY DEF IInv, TypeOK, RotationsHoldTheRow
<1>4. FamiliesAreUsed' /\ ChainsAreWhole' /\ WalksStayInTheFamily'
  BY <1>1, <1>2 DEF IInv, FamiliesAreUsed, ChainsAreWhole, WalksStayInTheFamily
<1>5. ReuseIsReal'
  BY <1>2 DEF IInv, TypeOK, ReuseIsReal, Reused
<1>6. OneActivePerLogin' /\ DroppedStaysDropped'
  BY <1>1, <1>2 DEF IInv, OneActivePerLogin, DroppedStaysDropped
<1>7. QED
  BY <1>3, <1>4, <1>5, <1>6 DEF IInv

LEMMA ArchiveKeeps ==
    ASSUME IInv, TypeOK', NEW old \in SUBSET Conns, MoveToHistory(old)
    PROVE  IInv'
<1> USE DEF MoveToHistory
<1>1. UNCHANGED <<family, locker, userVars, reqVars, dropped, ended>>
  OBVIOUS
<1>2. by' = by
  BY DEF IInv, TypeOK
<1>3. Unused' = Unused /\ Active' = Active /\ Live' = Live \ old
  BY DEF IInv, TypeOK
<1>4. RotationsHoldTheRow'
  BY <1>1 DEF IInv, TypeOK, RotationsHoldTheRow
<1>5. FamiliesAreUsed' /\ ChainsAreWhole'
  BY <1>1, <1>2, <1>3 DEF IInv, FamiliesAreUsed, ChainsAreWhole
<1>6. WalksStayInTheFamily'
  BY <1>1, <1>3 DEF IInv, WalksStayInTheFamily, Links, Busy
<1>7. ReuseIsReal'
  BY <1>1, <1>2 DEF IInv, TypeOK, ReuseIsReal, Reused
<1>8. OneActivePerLogin' /\ DroppedStaysDropped'
  BY <1>1, <1>3 DEF IInv, OneActivePerLogin, DroppedStaysDropped
<1>9. QED
  BY <1>4, <1>5, <1>6, <1>7, <1>8 DEF IInv

-----------------------------------------------------------------------------
LEMMA InvStep == IInv /\ [Next]_vars => IInv'
<1> SUFFICES ASSUME IInv, [Next]_vars PROVE IInv'
  OBVIOUS
<1>1. TypeOK'
  BY TypeStep DEF IInv
<1>2. ASSUME NEW r \in Reqs, NEW c \in Conns, Request(r, c) PROVE IInv'
  BY <1>1, <1>2, CreateKeeps, MiddlewareKeeps, RevokeKeeps DEF Request
<1>3. ASSUME NEW r \in Reqs, NEW w \in {"drop", "reset", "ban"}, DropAll(r, w) PROVE IInv'
  BY <1>1, <1>3, DropAllKeeps
<1>4. ASSUME NEW r \in Reqs, RequestStep(r) PROVE IInv'
  <2>1. CASE LogoutRevokes(r)
    <3>1. tok[r] \in Conns
      BY <2>1 DEF LogoutRevokes, IInv, TypeOK
    <3>2. QED
      BY <1>1, <2>1, <3>1, RevokeKeeps
  <2>2. QED
    BY <1>1, <1>4, <2>1, RefreshKeeps, RotateBeginsKeeps, RotateKeeps, RevokeAllBeginsKeeps,
       RevokeAllKeeps DEF RequestStep
<1>5. CASE Unban
  BY <1>1, <1>5, UnbanKeeps
<1>6. ASSUME NEW c \in Conns, GraceEnds(c) \/ PurgeHistory(c) PROVE IInv'
  BY <1>1, <1>6, AgeKeeps
<1>7. ASSUME NEW old \in SUBSET Conns, MoveToHistory(old) PROVE IInv'
  BY <1>1, <1>7, ArchiveKeeps
<1>8. CASE UNCHANGED vars
  <2>1. UNCHANGED <<rowVars, userVars, reqVars, dropped, ended>>
    BY <1>8 DEF vars
  <2>2. WalksStayInTheFamily' /\ ReuseIsReal' /\ \A q \in Reqs : snap'[q] \subseteq Used
    BY <2>1 DEF IInv, WalksStayInTheFamily, ReuseIsReal, Reused, FamiliesAreUsed
  <2>3. QED
    BY <1>1, <2>1, <2>2, RowsUntouched
<1>9. QED
  BY <1>2, <1>3, <1>4, <1>5, <1>6, <1>7, <1>8 DEF Next

LEMMA InvInit == Init => IInv
<1> SUFFICES ASSUME Init PROVE IInv
  OBVIOUS
<1>1. TypeOK
  BY DEF Init, TypeOK
<1>2. Unused = Conns
  BY DEF Init
<1>3. FamiliesAreUsed /\ RotationsHoldTheRow /\ ChainsAreWhole /\ WalksStayInTheFamily
  BY <1>2 DEF Init, FamiliesAreUsed, RotationsHoldTheRow, ChainsAreWhole, WalksStayInTheFamily, Links
<1>4. ReuseIsReal /\ OneActivePerLogin /\ DroppedStaysDropped
  BY DEF Init, ReuseIsReal, OneActivePerLogin, DroppedStaysDropped
<1>5. QED
  BY <1>1, <1>3, <1>4 DEF IInv

LEMMA InvAlways == Spec => []IInv
BY InvInit, InvStep, PTL DEF Spec

\* Typing: rows, locks and requests keep their types, and a request that looks
\* at a row has one.
THEOREM TypeCorrect == Spec => []TypeOK
<1>1. IInv => TypeOK
  BY DEF IInv
<1>2. QED
  BY <1>1, InvAlways, PTL

\* Refreshes that race never fork a session: whatever requests overlap, a login
\* has at most one active row.
THEOREM SessionsDoNotFork == Spec => []OneActivePerLogin
<1>1. IInv => OneActivePerLogin
  BY DEF IInv
<1>2. QED
  BY <1>1, InvAlways, PTL

\* A connection that was revoked does not live on in a successor, however a
\* refresh overlaps with its revocation.
THEOREM RevokedDoesNotLiveOn == Spec => []DroppedStaysDropped
<1>1. IInv => DroppedStaysDropped
  BY DEF IInv
<1>2. QED
  BY <1>1, InvAlways, PTL

\* A refresh ends without a session only where the chain of its token ends in a
\* row that was revoked.
LEMMA RefusalsAreRightful == IInv /\ [Next]_vars => [RefreshKeepsSessionStep]_vars
<1> SUFFICES ASSUME IInv, [Next]_vars, NEW r \in Reqs,
                    at[r] \in {"lock", "reread", "walk"}, at'[r] = "idle",
                    status[cur[r]] # "active"
             PROVE  family[tok[r]] \in dropped \cup ended
  BY DEF RefreshKeepsSessionStep
<1>1. /\ tok[r] \in Live /\ cur[r] \in Live /\ family[cur[r]] = family[tok[r]]
      /\ at[r] = "reread" => cur[r] = tok[r]
  BY DEF IInv, WalksStayInTheFamily, Links
<1>2. RefreshConnection(r) \/ TipConnection(r)
  <2> USE DEF IInv, TypeOK, Goto
  <2>1. ASSUME NEW q \in Reqs, NEW c \in Conns, Request(q, c) PROVE FALSE
    BY <2>1 DEF Request, CreateSessionConnection, JWTMiddleware, Logout, DropConnection,
                RefreshHandler, RevokeUserConnection, RevokeAllFor, Start, Present
  <2>2. ASSUME NEW q \in Reqs, NEW w \in {"drop", "reset", "ban"}, DropAll(q, w) PROVE FALSE
    BY <2>2 DEF DropAll, RevokeAllFor
  <2>3. ASSUME NEW q \in Reqs, RequestStep(q) PROVE q = r /\ (RefreshConnection(r) \/ TipConnection(r))
    BY <2>3 DEF RequestStep, RefreshConnection, RotateBegins, RotateUserConnection, TipConnection,
                LogoutRevokes, RevokeAllBegins, RevokeAllUserConnections, Reply
  <2>4. ~Unban /\ ~UNCHANGED vars
    BY DEF Unban, vars
  <2>5. \A c \in Conns : ~GraceEnds(c) /\ ~PurgeHistory(c)
    BY DEF GraceEnds, PurgeHistory
  <2>6. \A old \in SUBSET Conns : ~MoveToHistory(old)
    BY DEF MoveToHistory
  <2>7. QED
    BY <2>1, <2>2, <2>3, <2>4, <2>5, <2>6 DEF Next
<1>3. TipConnection(r)
  BY <1>1, <1>2 DEF RefreshConnection, Goto, IInv, TypeOK, Replaced
<1>4. by[cur[r]] = None
  BY <1>1, <1>3 DEF TipConnection, Replaced, Goto, IInv, TypeOK
<1>5. QED
  BY <1>1, <1>4 DEF IInv, ChainsAreWhole

\* A client that presents the tokens it was given goes on, however its refreshes
\* overlap: none of them is refused while its session lasts, and none raises
\* connection_violation.
THEOREM HonestClientsAreServed == Spec => HonestClientsGoOn
<1>1. IInv => ViolationsAreReuse
  BY DEF IInv, ReuseIsReal, Reused, ViolationsAreReuse
<1>2. QED
  BY <1>1, InvAlways, RefusalsAreRightful, PTL DEF Spec, HonestClientsGoOn
=============================================================================
