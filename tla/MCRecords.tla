------------------------------ MODULE MCRecords ------------------------------
(***************************************************************************)
(* The parts of the server that keep their state in the database and of    *)
(* which requests overlap: the sessions (the module extended), and small   *)
(* instances of other modules. They share no row the modules speak of, so  *)
(* a behaviour is of one part, chosen at the start; the sessions stay as   *)
(* they began and the variables of the others Frozen.                      *)
(***************************************************************************)
EXTENDS Sessions, TLC

CONSTANTS
    Users, Owner, Managers, Addresses, ResetLinks,
    Channels, Roles,
    Pair,           \* the two users of a conversation
    MaxEvents, Frozen

VARIABLE part     \* the part this behaviour is of

VARIABLES server, password, address, accountBanned, mustReset, link, locked,
    admitted, sessions, accountReq, late, accountEvents
accountVars == <<server, password, address, accountBanned, mustReset, link, locked,
    admitted, sessions, accountReq, late, accountEvents>>
Account == INSTANCE Accounts WITH
    Links <- ResetLinks, Requests <- Reqs, banned <- accountBanned,
    req <- accountReq, events <- accountEvents
AccountFrozen ==
    /\ server = Frozen /\ password = Frozen /\ address = Frozen
    /\ accountBanned = Frozen /\ mustReset = Frozen /\ link = Frozen
    /\ locked = Frozen /\ admitted = Frozen /\ sessions = Frozen
    /\ accountReq = Frozen /\ late = Frozen /\ accountEvents = Frozen

VARIABLES position, entries, roles, holders, channelLock, channelReq, channelEvents
channelVars == <<position, entries, roles, holders, channelLock, channelReq,
    channelEvents>>
ChannelList == INSTANCE Channels WITH
    Requests <- Reqs, lock <- channelLock, req <- channelReq,
    events <- channelEvents
ChannelListFrozen ==
    /\ position = Frozen /\ entries = Frozen /\ roles = Frozen /\ holders = Frozen
    /\ channelLock = Frozen /\ channelReq = Frozen /\ channelEvents = Frozen

VARIABLES made, hidden, blocks, news, directLock, directReq, failed, directEvents
directVars == <<made, hidden, blocks, news, directLock, directReq, failed,
    directEvents>>
Direct == INSTANCE DirectMessages WITH
    Users <- Pair, Requests <- Reqs, lock <- directLock, req <- directReq,
    events <- directEvents
DirectFrozen ==
    /\ made = Frozen /\ hidden = Frozen /\ blocks = Frozen /\ news = Frozen
    /\ directLock = Frozen /\ directReq = Frozen /\ failed = Frozen
    /\ directEvents = Frozen

VARIABLES table, clock, rows, pending, scan, got, wanted, gone
pageVars == <<table, clock, rows, pending, scan, got, wanted, gone>>
Page == INSTANCE Listing WITH
    Ids <- {1, 2, 3}, Limit <- 1, MaxTime <- 2, MaxRemovals <- 1
PageFrozen ==
    /\ table = Frozen /\ clock = Frozen /\ rows = Frozen /\ pending = Frozen
    /\ scan = Frozen /\ got = Frozen /\ wanted = Frozen /\ gone = Frozen

ASSUME RecordsAssumption ==
    Account!Assumptions /\ ChannelList!Assumptions /\ Direct!Assumptions /\ Page!Assumptions

recordsVars == <<part, vars, accountVars, channelVars, directVars, pageVars>>

RecordsInit ==
    /\ part \in {"sessions", "accounts", "channels", "direct", "listing"}
    /\ Init
    /\ IF part = "accounts" THEN Account!Init ELSE AccountFrozen
    /\ IF part = "channels" THEN ChannelList!Init ELSE ChannelListFrozen
    /\ IF part = "direct" THEN Direct!Init ELSE DirectFrozen
    /\ IF part = "listing" THEN Page!Init ELSE PageFrozen

\* Bound: one request at a time revokes everything, while the others go on.
OneRevokesAll == \A r, q \in Reqs : {at[r], at[q]} \subseteq {"revoke", "apply"} => r = q

RecordsNext ==
    \/ part = "sessions" /\ Next /\ OneRevokesAll' /\ UNCHANGED <<part, accountVars,
            channelVars, directVars, pageVars>>
    \/ part = "accounts" /\ Account!Next /\ UNCHANGED <<part, vars,
            channelVars, directVars, pageVars>>
    \/ part = "channels" /\ ChannelList!Next /\ UNCHANGED <<part, vars,
            accountVars, directVars, pageVars>>
    \/ part = "direct" /\ Direct!Next /\ UNCHANGED <<part, vars, accountVars,
            channelVars, pageVars>>
    \/ part = "listing" /\ Page!Next /\ UNCHANGED <<part, vars, accountVars,
            channelVars, directVars>>

RecordsSpec == RecordsInit /\ [][RecordsNext]_recordsVars

\* Requests are interchangeable.
Symmetry == Permutations(Reqs)

-----------------------------------------------------------------------------
\* Sessions are of those who may log in now: a change of the password leaves
\* none that was opened with the old one, and a ban none of the account or of
\* accounts last seen at its address, except of a login under way; the owner is
\* never banned, and a user has one link that works at most, however requests
\* overlap.
LoginsAreRightful ==
    part = "accounts" =>
        /\ Account!TypeOK
        /\ Account!OldPasswordsEnd
        /\ Account!BansEndSessions
        /\ Account!OwnerIsNotBanned
        /\ Account!OneOpenLink

\* The three places that decide who reads a channel (of one user, of many, in a
\* search) agree, also after roles were deleted with entries and holders left.
\* And however creations, moves and deletions interleave, no two channels are at
\* one position; a move keeps the order of the channels it does not name, and
\* nothing else changes the order of channels at all.
ChannelsAreConsistent ==
    /\ [](part = "channels" =>
            /\ ChannelList!TypeOK
            /\ ChannelList!ReadRulesAgree
            /\ ChannelList!PositionsAreDistinct)
    /\ [][part = "channels" => ChannelList!OthersKeepTheirOrderStep]_recordsVars

\* Two users who open their conversation at the same time both get it; a new
\* message brings it back to the lists of both, also if one hides it while the
\* message is being sent, and what a list shows can be read; but a conversation
\* that is hidden comes back only by a message or because its own user opened
\* it.
ConversationsReappear ==
    /\ [](part = "direct" =>
            /\ Direct!TypeOK
            /\ Direct!OpensSucceed
            /\ Direct!NewsIsListed
            /\ Direct!ListedIsReadable)
    /\ [][part = "direct" => Direct!ReappearsForACauseStep]_recordsVars

\* Page by page the rows come in the order of the list, none twice, and none is
\* missed that was there from beginning to end, whatever is inserted and
\* deleted meanwhile and also where rows of one instant fall on different pages
\* (of the audit log rows of an instant that a purge has begun to remove may be
\* missed).
ScansAreExact ==
    part = "listing" => Page!TypeOK /\ Page!ScansAreOrdered /\ Page!ScansAreComplete
=============================================================================
