----------------------------- MODULE MCRealtime -----------------------------
(***************************************************************************)
(* The parts of the server of which the clients see every step: the hub of *)
(* the WebSocket connections (the module extended), and small instances of *)
(* the others: messages and their embeds, notifications, the peers of a    *)
(* room and their slots, what a forwarder makes of packets, and the choice *)
(* of the speakers. A behaviour is of one part, chosen at the start; the   *)
(* hub stays as it began and the variables of the others Frozen.           *)
(***************************************************************************)
EXTENDS Hub, Integers, TLC

CONSTANTS
    Links, Contents, MaxEmbeds, MaxPosts, MaxActive, Gone,      \* of Messages
    Messages, Viewers, Channel, Reads, Providers, OutboundMaxConc,
    MaxVersions,                                                \* of Embeds
    Members, Author, MaxMessages, PoolSize, MaxNoteEvents,      \* of Notifications
    Peers, Publishers, Ready, Kinds, SlotCount, MaxTracks,
    MaxPeerEvents,                                              \* of Sfu
    Senders, Buffer, Modulus, MaxPackets, MaxForwarders,        \* of Forwarder
    u1, m1, ch1, ch2, Frozen

\* Both connections are of one user, or one of each; users and connections are
\* interchangeable.
MCOwners == [Clients -> Users]
\* The two messages are in two channels.
MCChannel == [w \in Messages |-> IF w = m1 THEN ch1 ELSE ch2]
Symmetry == Permutations(Users) \cup Permutations(Clients)

VARIABLE part     \* the part this behaviour is of

VARIABLES row, orphans, customs, linked, revoked, messageReq, crawl, shown,
    messageSeen, announced, messageUnsure, failures
messageVars == <<row, orphans, customs, linked, revoked, messageReq, crawl, shown,
    messageSeen, announced, messageUnsure, failures>>
Message == INSTANCE Messages WITH
    MaxEvents <- MaxPosts, req <- messageReq, seen <- messageSeen,
    unsure <- messageUnsure
MessageFrozen ==
    /\ row = Frozen /\ orphans = Frozen /\ customs = Frozen /\ linked = Frozen
    /\ revoked = Frozen /\ messageReq = Frozen /\ crawl = Frozen /\ shown = Frozen
    /\ messageSeen = Frozen /\ announced = Frozen /\ messageUnsure = Frozen
    /\ failures = Frozen

VARIABLES provider, page, embed, fresh, links, embedSeen, embedReq, outbound, video,
    embedUnsure
embedVars == <<provider, page, embed, fresh, links, embedSeen, embedReq, outbound,
    video, embedUnsure>>
Embed == INSTANCE Embeds WITH
    seen <- embedSeen, req <- embedReq, unsure <- embedUnsure
EmbedFrozen ==
    /\ provider = Frozen /\ page = Frozen /\ embed = Frozen /\ fresh = Frozen
    /\ links = Frozen /\ embedSeen = Frozen /\ embedReq = Frozen
    /\ outbound = Frozen /\ video = Frozen /\ embedUnsure = Frozen

VARIABLES message, setting, readers, note, noteJobs, told, disp, lastRead, reading,
    noteEvents, silent
noteVars == <<message, setting, readers, note, noteJobs, told, disp, lastRead,
    reading, noteEvents, silent>>
Note == INSTANCE Notifications WITH
    Users <- Members, MaxEvents <- MaxNoteEvents, jobs <- noteJobs,
    events <- noteEvents
NoteFrozen ==
    /\ message = Frozen /\ setting = Frozen /\ readers = Frozen /\ note = Frozen
    /\ noteJobs = Frozen /\ told = Frozen /\ disp = Frozen /\ lastRead = Frozen
    /\ reading = Frozen /\ noteEvents = Frozen /\ silent = Frozen

VARIABLES room, closed, active, remote, flowing, fanouts, alive, ready, slots,
    pending, asked, sfuJobs, sfuEvents
sfuVars == <<room, closed, active, remote, flowing, fanouts, alive, ready, slots,
    pending, asked, sfuJobs, sfuEvents>>
Video == INSTANCE Sfu WITH
    MaxEvents <- MaxPeerEvents, jobs <- sfuJobs, events <- sfuEvents
VideoFrozen ==
    /\ room = Frozen /\ closed = Frozen /\ active = Frozen /\ remote = Frozen
    /\ flowing = Frozen /\ fanouts = Frozen /\ alive = Frozen /\ ready = Frozen
    /\ slots = Frozen /\ pending = Frozen /\ asked = Frozen /\ sfuJobs = Frozen
    /\ sfuEvents = Frozen

VARIABLES kind, made, forwarder, ended, bound, packets, packetMuted, putting, translator,
    numbered, written
packetVars == <<kind, made, forwarder, ended, bound, packets, packetMuted,
    putting, translator, numbered, written>>
Packets == INSTANCE Forwarder WITH
    Publishers <- Senders, muted <- packetMuted
PacketFrozen ==
    /\ kind = Frozen /\ made = Frozen /\ forwarder = Frozen /\ ended = Frozen
    /\ bound = Frozen
    /\ packets = Frozen /\ packetMuted = Frozen /\ putting = Frozen
    /\ translator = Frozen /\ numbered = Frozen /\ written = Frozen

VARIABLES present, speakerMuted, scores, age, lastTopK, speakerHeard, muting,
    choices, overlapped, speakerEvents
speakerVars == <<present, speakerMuted, scores, age, lastTopK, speakerHeard, muting,
    choices, overlapped, speakerEvents>>
Speakers == INSTANCE ActiveSpeakers WITH
    Users <- {1, 2, 3}, Listener <- 3, Levels <- {-30, -58, -62}, Places <- 1,
    MaxEvents <- 4, muted <- speakerMuted, heard <- speakerHeard,
    events <- speakerEvents
SpeakersFrozen ==
    /\ present = Frozen /\ speakerMuted = Frozen /\ scores = Frozen /\ age = Frozen
    /\ lastTopK = Frozen /\ speakerHeard = Frozen /\ muting = Frozen
    /\ choices = Frozen /\ overlapped = Frozen /\ speakerEvents = Frozen

ASSUME RealtimeAssumption ==
    /\ Message!Assumptions /\ Embed!Assumptions /\ Note!Assumptions
    /\ Video!Assumptions /\ Packets!Assumptions /\ Speakers!Assumptions

realtimeVars == <<part, vars, messageVars, embedVars, noteVars, sfuVars, packetVars,
    speakerVars>>

RealtimeInit ==
    /\ part \in {"hub", "messages", "embeds", "notifications", "sfu", "packets",
        "speakers"}
    /\ Init /\ (part # "hub" => userOf = [w \in Clients |-> u1])
    /\ IF part = "messages" THEN Message!Init ELSE MessageFrozen
    /\ IF part = "embeds" THEN Embed!Init ELSE EmbedFrozen
    /\ IF part = "notifications" THEN Note!Init ELSE NoteFrozen
    /\ IF part = "sfu" THEN Video!Init ELSE VideoFrozen
    /\ IF part = "packets" THEN Packets!Init ELSE PacketFrozen
    /\ IF part = "speakers" THEN Speakers!Init ELSE SpeakersFrozen

\* Bound: before the server is shut down one thing comes from outside, and no request.
StopsEarly == life = "up" \/ (events <= 1 /\ \A r \in Requests : req[r].at = "new")

\* Bound: one message is sent by a user; the other requests edit it, delete it or come
\* from a webhook.
OneIsSent ==
    \A q \in Message!Posts :
        messageReq[q].at = "store" /\ messageReq[q].from = "user" => q = 1

RealtimeNext ==
    \/ part = "hub" /\ Next /\ StopsEarly' /\ UNCHANGED <<part, messageVars, embedVars, noteVars,
            sfuVars, packetVars, speakerVars>>
    \/ part = "messages" /\ Message!Next /\ OneIsSent' /\ UNCHANGED <<part, vars, embedVars,
            noteVars, sfuVars, packetVars, speakerVars>>
    \/ part = "embeds" /\ Embed!Next /\ UNCHANGED <<part, vars, messageVars,
            noteVars, sfuVars, packetVars, speakerVars>>
    \/ part = "notifications" /\ Note!Next /\ UNCHANGED <<part, vars, messageVars,
            embedVars, sfuVars, packetVars, speakerVars>>
    \/ part = "sfu" /\ Video!Next /\ UNCHANGED <<part, vars, messageVars, embedVars,
            noteVars, packetVars, speakerVars>>
    \/ part = "packets" /\ Packets!Next /\ UNCHANGED <<part, vars, messageVars,
            embedVars, noteVars, sfuVars, speakerVars>>
    \/ part = "speakers" /\ Speakers!Next /\ UNCHANGED <<part, vars, messageVars,
            embedVars, noteVars, sfuVars, packetVars>>

RealtimeSpec == RealtimeInit /\ [][RealtimeNext]_realtimeVars

-----------------------------------------------------------------------------
\* A webhook may send a request again, also while the first is under way: all
\* that are answered are answered with one message, unless it was deleted,
\* readers are sent it once, and the attachment of a repeated request is on no
\* message. A message that was edited one request at a time has no link that is
\* not in its content and not more embeds than it may have; whoever reads along
\* knows its content and its embeds, or that it is gone; and only an edit that
\* brings its own list of embeds takes a custom embed away.
MessagesAgree ==
    /\ [](part = "messages" =>
            /\ Message!TypeOK
            /\ Message!RetriesAgree
            /\ Message!AnnouncedOnce
            /\ Message!LinksAreOfTheContent
            /\ Message!ReadersKnow)
    /\ [][part = "messages" => Message!TextEditsKeepCustomsStep]_realtimeVars

\* The semaphores of crawls and of videos count what is under way along every
\* path of every provider, so that none is lost for good; and the row of a URL
\* is shared: when a crawl renews it, the readers of every message that already
\* had it are told, unless another crawl was under way with it.
EmbedsAreServed ==
    part = "embeds" =>
        Embed!TypeOK /\ Embed!SlotsAreGivenBack /\ Embed!ReadersHaveTheRow

\* A notification and its push job are committed together, whatever fails
\* between them (CreatePushJobInTx); the author, and whoever has muted or
\* cannot read the channel all the while since the message was posted, gets
\* neither; and requests that mark the channel as read, which overlap and come
\* out of order, never move the position back, except from a message that was
\* deleted.
NotificationsAreRight ==
    /\ [](part = "notifications" =>
            Note!TypeOK /\ Note!NotificationsHaveJobs /\ Note!SilentUsersHearNothing)
    /\ [][part = "notifications" => Note!LastReadAdvancesStep]_realtimeVars

\* A subscriber never spends two slots on one publisher and kind, although its
\* reader, its renegotiation worker, the ticker and departures bind slots with
\* tracks and fanouts they resolved earlier; and a subscription that was
\* accepted is pending, being bound or has a slot until it is ended or refused.
\* (Here the slots are of video, which no ticker binds; the theorem about this
\* property is for any kinds.)
SlotsServeSubscriptions ==
    part = "sfu" => Video!SlotsServeSubscriptions

\* The numbers of a slot go on by one where it passes from one publisher to
\* another, although the old forwarder may still get some, and within a forwarder
\* by one or by what its queue lost, also after a pause. They are written after
\* the lock of the translator is let go, and so may change places: never two of
\* one forwarder, and at most one of every other forwarder comes late. And what a
\* forwarder writes of a video begins with a keyframe, whatever the queue lost.
StreamsContinue ==
    part = "packets" =>
        /\ Packets!TypeOK
        /\ Packets!SequenceContinues
        /\ Packets!WritesAreLateByOne
        /\ Packets!VideoStartsWithKeyframe

\* A tick replaces a speaker, and a tick or a departure the publisher a
\* subscriber is sent at that moment, only by somebody who talks and is louder
\* by the margin; while the publishers fit into the slots all are chosen. What
\* was chosen is set after the lock of the room, so that older choices may be
\* set last: a user who left is heard no longer than until such a choice is
\* followed by a new one, and else no longer than until the departure has set
\* its own. And a microphone that was turned off has no score, whatever packet
\* was being noted.
SpeakersAreChosenFairly ==
    /\ [](part = "speakers" => Speakers!TypeOK /\ Speakers!MutedHaveNoScore
            /\ Speakers!LeaversAreHeardNoLonger)
    /\ [][part = "speakers" =>
            /\ Speakers!IncumbentsKeepTheirPlaceStep
            /\ Speakers!AllAreHeardIfTheyFitStep]_realtimeVars
=============================================================================
