# Formal models of papo

papo is a chat server: a Go backend (HTTP API, WebSocket hub, WebRTC SFU for
voice, PostgreSQL), a second Go service, `papo-push`, that drains a table of
push jobs, and a Python process that judges images. This directory holds TLA+
models of the parts of it in which several actors meet, the TLC runs that check
them on small instances, and proofs about them checked by TLAPS.

`PROJECT.json` is the index: components, runs, the mutant that shows that each
property can fail, the source lines each definition stands for (`map`), the
hazards, the findings and the theorems.

1. Inventory - 2. Modules and runs - 3. The models, one by one - 4. Fairness -
5. What is proved - 6. Disagreements found - 7. Not covered, not modelled -
8. Plan

## 1. Inventory

State, operations and hard behaviours of each part; the last column says what
makes the part correct. Paths are below `src/backend/internal` where none is given.

| Component | State | Operations | Hard behaviours | Properties that make it correct |
|---|---|---|---|---|
| Push outbox and workers (`storage/push_*.go`, `src/papo-push/`) | `push_outbox` rows, `push_devices`, a batch of snapshots per worker | insert with the notification, claim (`FOR UPDATE SKIP LOCKED`, a lease in `next_attempt_at`), list devices, send, merge delivered tokens, disable tokens, complete, reschedule | several workers, leases that expire, crashes between the provider and the database, snapshots written back | one holder per row, duplicates only through faults and answers that got lost, uncounted attempts only through faults, every row settled and gone |
| Voice rooms (`webrtc/manager.go`, `room.go`, `websocket/`) | `Manager.rooms`, `userRooms`, `Room.peers`, grace timers, clients of the hub | join, leave, disconnect, user offline, PeerConnection failure, grace timer, `DestroyRoom`, `Shutdown` | five paths of removal, three mutexes never held together, timers that fired already, goroutines of client, hub and pion | seats and reservations agree, limits, no closed room in the map, no seat of a gone client, nobody loses a seat to another tab |
| SFU peers (`webrtc/peer.go`, `sfu.go`, `active_speaker.go`) | tracks, slots, subscriptions, fan-outs, queues of packets, sequence numbers, scores of speakers | offer, track, subscribe, tick, leave; distribute, forward, mute; choose | slots filled by five kinds of goroutine from tracks and fan-outs resolved before the lock; two forwarders of a slot; numbers mod 2^16; a set of speakers that has hysteresis | a slot per publisher and kind, no subscription lost, leavers forgotten, continuous numbers written nearly in order, keyframes first, stable and complete choice |
| Presence and hub (`websocket/hub.go`, `client.go`, `presence.go`) | clients, presence per user, auto-away, last activity | handshake, register, unregister, activity, auto-away tick, revocation tick, status requests, shutdown | two mutexes, a status computed in one critical section and sent in another, lists collected before they are used | counts agree, every change is told, revoked users are cut off, nothing open after shutdown |
| Session connections (`services/connections.go`, `storage/user_connections.go`) | `user_connections` (chains by `replaced_by`), its history, `banned`, `connection_violation` | login, check, rotate, follow the chain, log out, drop, revoke all, ban, archive, purge | concurrent refreshes of tabs, READ COMMITTED snapshots and row locks, archive cutting chains | no fork, no refresh refused while the session lives, reuse raised only for reuse |
| Accounts and the server (`services/auth.go`, `users.go`, `servers.go`) | passwords, bans, last addresses, reset links, the server's row | register, login, set and reset the password, ban (also by address), links, create and update the server | checks that precede the insertion of the session, whole rows written back | no session of an old password or a banned account, one open link |
| Messages (`services/messages.go`, `handlers/messages.go`, `webhooks.go`) | messages, attachments, embeds of a message, what readers were sent | create (idempotent for webhooks), edit, delete, custom embeds, crawl of links in the background | two deliveries of one request, edits during a crawl, failure half-way, events after the statement | one message per request, links of the content, readers up to date |
| Link previews (`services/embeds*.go`, `robots.go`) | cached row per URL, semaphores, token buckets | crawl along a chain of providers, upsert, link, renewal, access, video relay | many error paths that must give a slot back, a row shared by messages | slots given back, readers see the renewed row |
| Notifications (`services/notifications.go`) | notifications, settings, last read position, push jobs, connection pool | dispatch per message, read one, read a channel | recipients in a loop of transactions, settings and readers read before, pool of connections | row and job together, nothing for the silent, position advances |
| Pins, reactions, emojis | rows with limits | pin, unpin, react, unreact, create and delete an emoji, delete the message | counting before inserting, advisory locks, events with absolute counts | limits, readers up to date, no waiting for ever |
| Channels, roles, permissions | positions, JSON permissions, roles and holders | create, move, delete, permit, assign | several transactions per request, three implementations of one rule | distinct positions, order kept, the rules agree |
| Direct messages and blocks | pair row, hidden flags, blocks | open, hide, send, block | two users open at once, hide during a send | both get it, news reappear, what is listed is readable |
| Lists, search, audit log | rows ordered by instant and id, cursors | page, insert, delete, purge | rows of one instant, late commits, deletions between pages | in order, once, complete |
| Image moderation (`moderation`) | `attachments.moderation_*`, queue, in-flight set, supervisor state, Python process | upload, link to a message, enqueue, reconcile, claim, classify, fail, finish, delete the message, supervise | full queue, crash with rows "processing", stale lists and stale rows, dead process | in-flight exact, verdicts stand, attempts bounded, everything judged in the end |
| Media store and collector (`services/media.go`, `maintenance.go`) | blobs on disk with mtime, rows of `media`, references | publish, refer, release, collect rows, collect orphan files | disk and database not updated together, a collector that lists first and removes later, runs cut short | no blob of a referenced row lost, all garbage goes |
| Push supervisor (`push`, `src/backend/cmd/main.go`) | process, restart counter, back-off, phases of main | start, health, exit, restart, give up, stop | exits that race a stop, orphans of an earlier backend | one child, bounded starts, the loop comes to rest |
| HTTP layer, configuration, utilities, stress tool, Python worker, deployment | none shared | - | - | not modelled: no state of their own, or not in this repository's control |

How they meet: a message creates attachments (media store, moderation),
notifications and push jobs (outbox); moderation deletes messages; the hub calls
the voice manager when connections end (`SetOnClientOffline`,
`SetOnUserOffline`), and `services.DeleteChannel` calls `DestroyRoom`; revoking
connections disconnects clients of the hub; bans, resets and a new server password
revoke sessions; the maintenance routine runs the media collector, the archive of
connections and the audit purge one after the other; the supervisor keeps
`papo-push` running. These meeting points are in the models where an order
matters: `VoiceRooms` has the hub and the deletion of channels, `Notifications`
the push job, `Messages` the attachment and the crawl, `Hub` the revocation,
`MediaStore` the references, `Supervisor` the phases of main.

## 2. Modules and runs

| Module | Stands for | Runs | Theorems in |
|---|---|---|---|
| `PushOutbox`, `MCPushOutbox` | outbox, devices, workers | `push_outbox`, `workers` | `PushOutbox_proofs` |
| `PushDelivery` | what the outbox promises, without workers | `push_outbox` (refinement) | `PushOutbox_proofs` |
| `VoiceRooms`, `MCVoiceRooms` | rooms, reservations, hub, timers | `voice`, `settle`, `voice_audience` | `VoiceRooms_proofs` |
| `Sfu` | tracks, subscriptions, slots | `realtime` (video), `workers` (audio) | `Sfu_proofs`, `Realtime_proofs` |
| `Forwarder` | packets of one slot | `realtime` | `Realtime_proofs` |
| `ActiveSpeakers` | scores, speakers, audio sets | `realtime` | - |
| `Hub` | connections and presence | `realtime`, `settle` | `Hub_proofs` |
| `Messages` | messages, webhooks, their embeds | `realtime` | `Realtime_proofs` |
| `Embeds` | the embed of a URL | `realtime` | `Realtime_proofs` |
| `Notifications` | dispatches, reading | `realtime`, `notifications_pool` | `Realtime_proofs` |
| `Marks` | pins, reactions, emojis | `settle` | `Marks_proofs` |
| `Sessions`, `MCSessions` | connections of one user | `records`, `sessions_revoke_all` | `Records_proofs` |
| `Accounts`, `MCAccounts` | passwords, bans, links, server | `records`, `server_password` | `Records_proofs` |
| `Channels` | positions, roles, permissions | `records` | `Records_proofs` |
| `DirectMessages` | a conversation of two | `records` | `Records_proofs` |
| `Listing` | pages of all lists | `records` | - |
| `Moderation`, `MCModeration` | queue, worker, reconciler, supervisor | `workers`, `moderation_blocked` | `Workers_proofs` |
| `MediaStore`, `MCMediaStore` | blobs, rows, collector | `workers`, `media_reuse` | `Workers_proofs` |
| `Supervisor` | papo-push processes and main | `workers` | `Workers_proofs` |

An action is one step that nothing can interleave with: a critical section, an
SQL statement or transaction, a call of the provider. Operators carry the names
of the functions they stand for. An operator whose comment begins with "Variant"
is a wrong version of its neighbour, used only to show that a property can fail.

Five runs check several components at a time. Their modules choose at the start,
in the variable `part`, the component this behaviour is of; they share no state.
One component is the module the MC module extends, with its own names and
constants: `MCVoice` extends `MCVoiceRooms` and so `VoiceRooms`, `MCRecords`
`Sessions`, `MCRealtime` `Hub`, `MCWorkers` `Moderation` and `MCSettle` `Marks`.
The run then checks the very definitions the theorems of
that component state, and TLC evaluates the assumptions they rest on. The others
are instances (`Name == INSTANCE ...`), whose assumptions the MC module
assumes again. In `MCRecords`, `MCRealtime` and, but for the outbox and the audio slots, `MCWorkers`
their constants are constants of the MC module: the cfg gives them small values, and
the theorems hold for all. A property `part = "x" => P` is P of that instance. The
variables of the parts a behaviour is not of stay as they began, or have one fixed
value (`...Frozen`), which is chosen so that the formulas TLC evaluates in every part,
the liveness ones among them, have a value. So a
run explores the sum of the state spaces, not their product, and shows of each
component what a run of its own would.

| Run | Question |
|---|---|
| `push_outbox` | If a claim outlives its batch, is the outbox at-least-once, with duplicates only by faults and lost answers, and lost counts only by faults? |
| `voice` | Do seats, reservations, timers, rooms and connections agree, however joins and removals overlap? |
| `records` | Does the database stay consistent when requests overlap on sessions, accounts, channels and conversations, and are pages exact? |
| `realtime` | Is what connected clients are told and sent right, in whatever order locks, statements and broadcasts come? |
| `workers` | Do the background workers get everything done, with expiring claims, crashes and failing statements, and no more than that? And do the audio slots and the supervisor come to rest? |
| `settle` | Do the limits on pins and reactions hold, requests get their locks, joins and empty rooms come to an end, revoked users get cut off, and users come back from away? |
| `voice_audience`, `sessions_revoke_all`, `moderation_blocked`, `media_reuse`, `server_password`, `notifications_pool` | Disagreements of code and comment, see section 6. |

Deadlock is checked in `push_outbox` and `sessions_revoke_all`. Elsewhere the
system may really stop, as when all clients are gone or the bounds on outside
events are used up; what must not be stuck is stated by the liveness properties.

## 3. The models, one by one

### PushOutbox, PushDelivery

Variables are the columns (`outbox` reduces `next_attempt_at` to due or
waiting), the `push_devices` rows (`owner`, `enabled`), and for each worker the
batch of snapshots it reserved, the job it handles and the result it holds.
`accepted`, `refused` and `tries` are history. `DueAgain` is time: a back-off or
a claim that ends. A call of the provider may deliver without the worker hearing so: it
fails after the relay has delivered (time-out, connection lost, an answer that does not
decode, `relay.go:47`, `:77`), or the target is called retryable because its own answer
got lost behind the relay. `unheard` counts such calls, up to `MaxUnheard`.
`ClaimOutlivesBatch` is the assumption the comment of
`claimInterval` makes and no code enforces: with TRUE a row held by a worker
does not fall due. A `Fault` is a crash (`Crash` empties every worker) or a
statement that returns an error; `MaxFaults` bounds them.

* `OneHolder`: no row in two workers' hands.
* `DuplicatesNeedFaults`: a device gets the push of a job once, plus once per fault and
  per call that delivered without the worker hearing so. The code cannot do better, as
  the provider is given no key of the job; what the property excludes is a second push
  after a delivery that was heard of and recorded.
* `AttemptsBounded`: attempts really made stay within PUSH_MAX_ATTEMPTS plus faults.
* `OnlySettledJobsLeave`: a row is deleted when all listed devices were served or
  refused, or its attempts are used up.
* `ImplementsDelivery`: the outbox implements `PushDelivery`, at-least-once delivery
  stated without workers, claims, batches and faults: attempts are opened for the
  devices known at the moment and may be let go of at any time, and only one that
  leaves no device waiting, or no attempt, settles the job. The mapping takes a
  row to pending or settled and every job in a worker's hands to an open attempt.
* `PushJobsLeave` (`workers`): liveness, without the assumption, with a fault.

Bounds: two workers, two tokens, a job of good and one of bad payload, two
attempts, one fault, one unheard call. Two workers and one expiry are what it takes to hold a row
twice; two tokens what it takes to serve a job in part; two attempts give one retry.
In `workers` one job, one token and two workers, as liveness does without symmetry, and
no unheard call: to the worker it is a call that failed, and the row leaves the same way.

Without the assumption `OneHolder` fails, which is why it is the assumption of
the theorems: FCM sends have no deadline, and PUSH_BATCH_SIZE and the timeouts
of the relay are configured without regard to the fifteen minutes.

### VoiceRooms

`rooms`, `userRooms`, `seat`, `closed` are the maps of the manager and its rooms;
`home` and `room` tie instances to channels and peers to instances, because
`removePeer` compares pointers, not user names. `pc`, `chan`, `target` say where
each `ReadPump` stands in `Join`; `hub` what the hub handles; `removals` the calls
of `removePeer` and the loops of `destroy` under way, by whom and how far;
`timer` and `fired` the grace timers and the callbacks that started and wait for
the locks. `seen` is what the audience was told. Permission is the channel's
existence.

* `ReservationsMatchSeats`: seats and reservations, kept under different locks by
  five paths, agree up to a removal that is about to finish; VOICE_MAX_ROOM_PEERS
  and VOICE_MAX_ROOMS_PER_USER hold.
* `RoomsAreTended`: closing and unmapping an empty room is one step, hence the
  retry loop of `Join` ends; `cancelCleanup` runs after the joiner released the
  room's lock and still never leaves an empty room without a timer.
* `GoneClientsHoldNoSeat`: the hub's copy of `userRooms` misses nothing, since the
  unregister is sent by the `ReadPump` that also runs the join.
* `TabsKeepTheirSeats` is `SeatsEndForACause` for a user with two tabs: a late
  callback or another tab never takes a seat away.
* `VoiceSettles` (`settle`): joins end and empty rooms close.

Bounds, all with two joins at most: two users, one connection each, one channel
and a room of two places, with deletion or shutdown (`DeletedOrStopped`: not both);
a user with two tabs and two channels; in `settle` two users and one place. Four
room instances (`MaxRooms`) are never all used: a join makes one, and one more per
retry.

### Sfu, Forwarder, ActiveSpeakers

`Sfu` has, per peer, the kinds of its last offer, its latest track of a kind, the
reader (fan-out) of a kind, its slots with owner, source and whether the fan-out
still lives, and its pending subscriptions; per goroutine (reader of the client,
renegotiation worker, OnTrack, removal, ticker) what it resolved and has yet to
do. No lock spans two peers: reading the track, getting the fan-out and binding
the slot are three steps.

* `SlotsServeSubscriptions`: never two slots for one publisher and kind; an accepted
  subscription is pending, under way or has a slot until it ends or is refused.
* `AudioForgetsLeavers` (`workers`): a tick may bind a leaver again from a snapshot
  taken before; a later one forgets it.

Video: two peers, two slots, so that one publisher could take both, six events. No ticker
runs there, as only audio has one: TLC meets it in the audio instance, of which only the
liveness is checked, and `SlotsServeSubscriptions` with both kinds is what the theorem
says. Audio: two peers, one slot, three events, for liveness.

`Forwarder` is one slot and the packets through it: the reader of a track puts a
packet into the queue of the bound forwarder or drops the oldest and marks it
(`distribute`), the forwarder drops what is muted or waits for a keyframe, asks the
translator of the slot for a number (`GetNumber`) and writes (`WriteRTP`). Binding the
slot anew ends the old forwarder without waiting for it, and both share the
translator. Only the translation is under its lock (`sfu.go:245`, `:247`): `numbered` is
the order in which numbers were given, `written` the order of the writes. Two resets of
the translator that follow each other within one decision (an overflow, and at once the
keyframe) are one step: a number that another forwarder gets between them goes on by
one, as after any reset; a failing `WriteRTP` is not modelled. Numbers are modulo 4
instead of 2^16, so that they wrap within a run. Whether the slot is one of audio or
of video is chosen at the start (`kind`).

* `StreamsContinue`: as given, numbers go on by one where another publisher takes over,
  and within a forwarder by one or by what its queue lost, also after a pause. On the
  wire they may change places, so that the comment at `sfu.go:80` does not hold there: but
  never two of one forwarder, and at most one of every other forwarder comes late. The
  video that a forwarder writes begins with a keyframe.

Bounds: two publishers with two packets each, two bindings, a queue of
one: it overflows at the second packet, and a binding may meet a packet in the
old queue, in the hands of the old forwarder or in those of the reader.

`ActiveSpeakers` has scores, the time since the last audible packet, the speakers
chosen last and the audio set of one listener. `Tick` and `RemovePeer` choose with the
hysteresis of `stableSelectLocked`, and `Tick` lets the scores decay, under `Room.mu`;
`setAudioSet` sets the listener's choice after it (`room.go:381`, `:584`). `choices` are
those not set yet: one of the ticker and one of each departure at most, in any order.

* `SpeakersAreChosenFairly`: a choice replaces nobody but by somebody who talks now and
  is louder by the margin, and nobody who paused within the hangover; while all fit, all
  are chosen; a muted microphone has no score, although muting sets the flag and clears
  the scores in two steps. An older choice may be set last, and so bring back a user who
  left, against the comment at `room.go:593`: until a later choice is set and no older
  one is left. A user who left while no choice was waiting is heard no longer once the
  departure has set its own.

Bounds: three users, one place, three levels (loud, audible and below
audioActivityThreshold), four events between which any number of ticks and of
silences fit.

### Hub

`Run` is one goroutine that registers, unregisters, looks for idle users and cuts
revoked ones; `ReadPump` of each client reports activity and unregisters; HTTP
handlers change a status. `clients` and `entry` (the presence) are under two
mutexes; `heard` holds, per client and user, the statuses sent since the user's
effective status last changed.

* `PresenceIsTold` has three parts. `PresenceCountsClients`: connections counted
  and clients agree up to the one in Run's hands. `EveryChangeIsTold`: when nothing
  is under way everybody was sent the present status of everybody.
  `ShutdownLeavesNoneOpen`: a handshake that overlaps the shutdown is closed or
  refused.
* `ConnectionsSettle` (`settle`): a user whose last session ended loses all
  connections, those in a handshake too; an active user is not away for long.

Bounds: two clients, of one user or of two; two events from outside and one
request, of which one and none if the server is shut down (`StopsEarly`). Two clients of one user show the counting, two users the telling, and
two events are what it takes to change what a step has read before. The order in
which one client receives two events is not modelled; `heard` asks only that the
right one is among them.

### Messages, Embeds

`Messages` runs requests 1 .. MaxEvents, two at a time, each a statement per step,
and the crawl of each as a goroutine. A content is the set of its links. Readers
are one channel: `shown`, `seen` are what they were sent last.

`MessagesAgree` is two properties:

* `RetriesAgree`: a webhook's repeated request, also at the same time, is answered
  with one message, announced once; the second attachment is on no message.
* `ReadersKnow`: messages handled one request at a time have only links of the
  content, within the limit, and readers know content and embeds; only an edit
  with its own list takes a custom embed away.

Bounds: three requests or failures, two at a time: a creation, its repetition or
edit, a deletion; one message is sent by a user (`OneIsSent`), others by a webhook.
Messages of which requests overlapped are in `unsure` and exempt from
`ReadersKnow`, since two edits with embeds at once do end with both sets.

`Embeds` is one URL: the chain of providers with its fall-backs, each fetch with a
slot of `outboundSem`, the shared row with its freshness, the update events, and
a viewer who reads or plays the video under `embedVideoSem`. The fetch of `robots.txt`
(`robots.go:113`) takes no slot, though the comment at `embeds.go:84` counts it among what
`OUTBOUND_MAX_CONCURRENT` limits; in the model it is a choice of `FetchRefused`, and what
the property counts are the slots. An upsert that fails on the way of oEmbed falls back
to the page, as every other error there does (`FallBack`).

* `EmbedsAreServed`: both semaphores count exactly what is under way, on every path;
  a renewed row is told to the readers of all messages that have it, unless their
  crawls overlap.

Bounds: two messages in two channels of which the viewer reads one, a viewer, one
slot, a page that changes once, all six providers.

### Notifications

Per message a dispatch: candidates by setting, readers, then a transaction per
user with the notification and its push job (`CreatePushJobInTx`), and the events
at the end. A transaction that failed keeps its connection until the dispatch
returns, as the deferred rollback does.

* `NotificationsAreRight`: row and job together; the author, whoever had the channel
  muted all the while and whoever could not read it all the while gets nothing; the
  position read last never goes back, except from a message that was deleted. `silent`
  keeps the reason, for the settings and the readers are read one after the other:
  see section 7.
* `DispatchesEnd` is what a comment says and `notifications_pool` refutes: a dispatch
  waits for ever once failed transactions keep every connection of the pool, its own ones.

Bounds: two users, two messages, two events, a pool of three, of which failures of a
dispatch keep one at most. In `notifications_pool` three recipients of one message, which
is deleted before its dispatch, and a pool of two; the code's pool has a hundred
(`storage/db.go:53`), which `@everyone` exceeds on a server of more members.

### Marks

Pins and reactions take an advisory lock, count, insert and publish after the
commit; removals take none. `MarksAreRight`: the limits hold, and when requests for
a message came one after the other readers know its pins and counts.
`RequestsEnd`: no request waits for a lock for ever. Bounds: two users, two
messages, one custom and one Unicode emoji, all limits 1, so that the second of two
always exceeds them; three requests.

### Sessions

One user's rows, in the order of their creation. `status` holds what the verdict
depends on (`replaced_at` null, within or after the grace period, archived,
purged), `by` is `replaced_by`, `locker` the row lock of a rotation. A statement
that revokes all rows has two steps, its snapshot and its effect after the locks
it waits for are free, as READ COMMITTED works. `family`, `dropped`, `ended` are
history: which rows stem from one login, and which logins were revoked alone or
by a statement that revoked all.

* `OneActivePerLogin`: refreshes that race never fork a session.
* `DroppedStaysDropped`: what was revoked alone has no active successor.
* `HonestClientsGoOn`: a refresh that lost the race is served the tip of the chain
  and is refused only if the session was revoked; the violation flag is raised
  only for a token replaced by rotation.

Bounds: three rows, so that a chain has a middle, and two concurrent requests, of
which one at a time revokes everything (`OneRevokesAll`).

### Accounts

Passwords are versions. A login checks ban and password and inserts the session
later; a ban of the account bans accounts last seen at its address; links to set a
password are made under an advisory lock and spent by use; the server's row is
read whole and written whole. `LoginsAreRightful`: a change of the password leaves
no session of the old one; a ban none of those it bans, except of a login under
way (`late`); the owner is never banned; one link of a user works at most.
Bounds: the owner and a user who manages the server, two addresses, two links, two
requests at once, six in all.

### Channels, DirectMessages, Listing

`Channels`: every request is several transactions; creating, moving and deleting
take the advisory lock of the positions, permissions are written without it.
`ChannelsAreConsistent`: no two channels are at one position; only a move changes
the order, of the channel it names; and (`ReadRulesAgree`) the check for one user, the
list of readers and the condition of the search decide alike, also after a role
was deleted with its entry written back. Three channels, so that a move passes
over one; one role; two requests at once, six in all.

`DirectMessages`: `ConversationsReappear`: two who open at the same time both get the
row; a message brings it back to both lists also if one hides it meanwhile; what is
listed can be read; and it comes back only for a cause. Two users, two requests at
once, six in all.

`Listing`: a row is stamped when its transaction begins and seen when it commits, its
id is random. Seven lists with their orders and cursors are read page by page.
`ScansAreExact`: rows in order, none twice, none missed that was there throughout.
Three rows, two instants and pages of one: every pair of rows of one instant falls on
two pages. What the scan owes is what was committed when it began; a row committed
later with an earlier stamp may be missed by one who polls in ascending order.

### Moderation

Columns of `attachments`, the queue and its in-flight set, the list the
reconciler works through, the worker's step with the row it read, and the
supervisor. A fault is a database error, a death of the Python process or a
restart of the server, which keeps the database only. `GoesStale` is the age of
five minutes; the worker's timeout is much shorter, so it does not happen to the
row it holds.

* `VerdictsAreFinal`: the in-flight set is the queue plus the job at hand, each
  once; an attachment is given up after exactly MaxAttempts failures; an outdated
  list, a retry or a crash changes no final state.
* `EveryAttachmentIsJudged`: in the end, over full queues, crashes and dead
  processes.

Bounds: two
attachments (one of them no image) of two messages, a queue of one and batches of
one, so that it is full; two attempts; one fault.

### MediaStore

Per hash the age of the file and of the row and the set of references; per
request its step; the collector's phase, its list and the hash at hand. Ages are
"fresh" and "old" (older than `mediaGracePeriod`); `Age` does not happen during a
request for the same content, which would have to last an hour. `reused` records
contents published again when file or row was old. `OnlyGarbageGoes`: a referenced
blob is missing only for such contents; row and file of unreferenced contents go,
also after a run cut short. Bounds: three requests for one content, one run cut
short.

### Supervisor

The phases of `main`, the loop of `push.Manager`, and processes that start, answer,
are signalled, killed and gone; process numbers are used again. Times are choices.
`ProcessesAreBounded`: never two children of one supervisor; at most
FCM_RELAY_RESTART_MAX starts in a row that failed within a minute. `RelaySettles`:
from its loop the supervisor reaches a healthy child, gives up, or ends with the
backend. Bounds:
three processes, two restarts, two starts of the backend, so that an orphan of the
first meets the second.

## 4. Fairness

Liveness is stated only of what the code schedules. Clients, networks, providers,
administrators and outside events are never fair.

| Assumed | Because |
|---|---|
| WF of each goroutine's next step (`WorkerStep`, `ReadPump`, `Join`, `Reconciler`, `Tick`, `AssignStep`, `Run`, ...) | the Go scheduler runs goroutines that can run; tickers fire again and again |
| WF of timers and of time (`TimerStep`, `DueAgain`, `GoesStale`, `Age`) | time passes; a timer that fired has a goroutine |
| WF of the end of a killed process (`Exit` after SIGKILL) | the kernel ends it |
| SF of steps that need a mutex or a connection of the pool (`Accept`, `DispatchStep`) | Go's mutex turns to starvation mode after a millisecond, PostgreSQL and `database/sql` queue their waiters |
| SF of the hub's two ticks | `select` chooses at random among what is ready, so that a ticker is not put off for ever by registrations |

The specification of an MC module (`WorkersSpec`, `SettleSpec`) repeats the conjuncts of
the module's own, under `part = ...`.

A send to the provider is taken to return: the relay's client has a time-out, while
messages that papo-push itself sends to FCM have no deadline of their own, so that
`PushJobsLeave` rests on the FCM client's. A request for pins or reactions needs weak
fairness only: finitely many others come before it for its lock.

## 5. What is proved

The theorems are about the specification their run checks (`Spec` of the module
extended; `RecordsSpec`, `RealtimeSpec` and `WorkersSpec` for the parts that are
instances; `Spec` of `Sfu` in `Sfu_proofs`), for every value of the constants that
the assumptions admit: any number of rows, requests, connections or processes, any
limits, any number of faults. A theorem that names a property of a run states the
same definition the run checks. What a run bounds for all its parts (`StopsEarly`,
`OneIsSent`) stays in `RealtimeSpec`, but no proof uses it: the lemmas are about the
steps of the component (`MessageNextKeeps` about `Next` of `Messages`), and the hub's
theorems about `Spec` of `Hub`.

| Module | Theorem | Says |
|---|---|---|
| `PushOutbox_proofs` | `TypeCorrect` | `TypeOK` |
| | `ReservationIsExclusive` | `OneHolder`, if a claim outlives its batch |
| | `NoDuplicateWithoutFault` | `DuplicatesNeedFaults`, under the same assumption, for any number of faults and unheard calls |
| | `AttemptsAreBounded` | `AttemptsBounded`, under the same assumption |
| `PushOutbox_proofs` | `OnlySettledLeave` | `OnlySettledJobsLeave`, without that assumption |
| | `OutboxDelivers` | `ImplementsDelivery`: the refinement, without that assumption |
| `VoiceRooms_proofs` | `TypeCorrect` | `TypeOK` |
| | `SeatsAndReservationsAgree` | `ReservationsMatchSeats` |
| | `NoRoomIsForgotten` | `RoomsAreTended` |
| | `TheGoneHaveLeft` | `GoneClientsHoldNoSeat` |
| | `SeatsEndForACause` | the action property, which `TabsKeepTheirSeats` checks of two tabs |
| `Records_proofs` | `TypeCorrect` | `TypeOK` of the sessions |
| | `SessionsDoNotFork` | `OneActivePerLogin` |
| | `RevokedDoesNotLiveOn` | `DroppedStaysDropped` |
| | `HonestClientsAreServed` | `HonestClientsGoOn`, an action property |
| | `SessionsAreRightful` | `LoginsAreRightful` of the accounts: changes and bans end the sessions they see; logins under way are exempt |
| | `ConversationsComeBack` | `ConversationsReappear` of direct messages, invariants and an action property |
| | `ChannelsStayInOrder` | `ChannelsAreConsistent`: positions distinct (gaps may remain), order kept, rules agree on one state |
| `Sfu_proofs` | `SlotsServeThoseWhoAsk` | the invariant of the slots, about `Spec` of `Sfu` |
| `Realtime_proofs` | `SlotsServeThoseWhoAsk` | `SlotsServeSubscriptions`, the same in `RealtimeSpec` |
| | `NotificationsStayRight` | `NotificationsAreRight`, invariants and an action property |
| | `StreamsGoOn` | `StreamsContinue`: numbers as given, how late they are written, keyframes |
| | `PreviewsAreServed` | `EmbedsAreServed` |
| | `MessagesStayRight` | `MessagesAgree`, invariants and an action property |
| `Workers_proofs` | `TypeCorrect` | `TypeOK` of the moderation |
| | `JudgedOnce` | `VerdictsAreFinal`: two invariants and an action property |
| | `OneAtATimeAndNotForEver` | `ProcessesAreBounded` of the supervisor |
| | `ReferencedBlobsSurvive` | the safety half of `OnlyGarbageGoes` |
| `Hub_proofs` | `TypeCorrect` | `TypeOK` |
| | `PresenceAlwaysTold` | `PresenceIsTold` |
| `Marks_proofs` | `MarksStayRight` | `MarksAreRight` |

Each proof module defines the inductive invariant (`IInv`, or the named parts in
the case of the outbox), shows that every action keeps each of its parts, and draws
the properties from it. Why the properties alone are not inductive:

* Outbox. That a held row is not "due" keeps the next claim away from it
  (`ExclusiveInv`). The invariants about counts need that the snapshot a worker
  writes back is not outdated, which exclusivity gives (`CountInv`, `TriesInv`).
  `SettleInv` needs no exclusivity: a snapshot may be outdated, but what it says is
  about the past and stays true (`SnapshotsStayTrue`), which is why a row may be
  deleted by either of two workers. Every action maps to a step of `PushDelivery`
  or a stutter, from `SettleInv`; with exclusivity, attempts at a job exclude each
  other.
* Voice rooms. A reservation is held by exactly one join under way, seat or removal
  that is about to give it back (`ReservationsAreHeld`), which makes of the seats
  and reservations, kept under different locks, one thing. Who may still act
  decides whether a state is harmless: a join that has reserved (`JoinersStand`), a
  `ReadPump` that waits for its removal (`LeaversWait`) or for the hub
  (`HubIsAwaited`), a removal under way (`RemovalsHaveACause`). An empty room in the
  map has somebody to close it (`EmptyRoomsAreScheduled`), for which the seat of a
  join that has yet to stop the timer must last (`NewSeatsStay`); and the hub's copy
  of a user's rooms has every room the connection sits in (`HubMissesNothing`).
* Sessions. A rotation that is about to link a successor holds the lock of an
  active row (`RotationsHoldTheRow`), so that a chain has one end (`ChainsAreWhole`);
  one that follows the chain stays within the login (`WalksStayInTheFamily`); a
  token is called reused only if rotation replaced it (`ReuseIsReal`).
* Accounts. A login under way is of an account that exists (`LoginsAreOfAccounts`) and,
  unless a ban came between its check and its insertion, of none that is banned
  (`LoginsAreOfNoBanned`). Whoever makes a link holds the lock of its user and has
  seen each link of theirs that is open (`LinksAreLocked`).
* Direct messages. Only who holds the lock of the pair is about to insert its row
  (`OpensAreLocked`), and before the row nothing is hidden or sent (`NothingBefore`).
* Channels. Who changes positions holds the lock and has read them as they are
  (`PlacesAreLocked`); a new channel is nobody else's (`NewChannelsAreNew`); there is a
  greatest position (`PositionsAreBounded`, which holds for infinitely many channels
  too, as only finitely many exist), after which a channel is added; who holds a role holds one that exists (`HeldRolesExist`).
* Peers and slots. Each goroutine that is about to bind a slot does so for a
  subscription asked for (`JobsAreSound`); each subscription that was accepted is
  `Served`: it waits, is in the hands of the worker or the client's reader, or has a
  slot (`SubscriptionsAreServed`). Two slots of one kind and subscriber have different
  owners (`SlotsAreDistinct`), since the last of the three critical sections looks at
  the slots again.
* Notifications. Whoever is silent for a reason is so by the present setting or
  permission (`SilenceIsNow`); so a list just made has nobody who is silent for the
  reason the list was made by, and `silent` only shrinks while it is worked through
  (`Dispatches`).
* Packets of a slot. The translator holds the last number given and, unless it was
  reset, the publisher and offset it was given with (`TranslatorKnowsTheLast`); a
  forwarder that numbered nothing still waits for a keyframe or is about to number one
  (`NewWaitForKeyframe`), and what it has yet to write is the one it numbered last
  (`OnlyTheLastIsUnwritten`), which bounds how late a write can be. That distances stay
  as they were although numbers wrap is arithmetic modulo any number above one
  (`SameOffset`, `NewOffset`).
* Embeds. Of crawls that overlap every message is in `unsure` (`CrawlsAreSure`); a
  crawl alone knows the row as it is and which readers have an older one
  (`LoneCrawlKnowsTheRow`); when none runs, readers have the row (`ReadersAgree`). That
  slots are given back is a count of those under way, by cardinalities.
* Messages. A request knows where the message it works on came from, until that is gone
  (`Walks`, `Origin`), so that all that are answered name the one row with the key
  (`OneKeyed`). A message not in `unsure` has one request, or its crawl, at work
  (`Alone`); at each step that one knows the row, its embeds and what readers were sent
  (`Requested`, `Crawled`), and when nobody is at work they agree (`Settled`).
* Moderation. The attempts the worker read are still those of the row, since it
  alone counts them (`RowIsCurrent`), and what it claimed is "processing" or deleted
  until it lets go (`ClaimIsHeld`), though the reconciler lists it again.
* Hub. `ChangesAreOwed`: if an open connection was not sent the present status of
  a user, somebody is under way who will send it: the hub (`HubOwes`), the
  `ReadPump` of a connection of that user (`PumpOwes`) or a request (`RequestOwes`);
  each has yet to read the status or holds the present one. `EveryChangeIsTold` is
  the case in which nobody is under way. Whoever overtakes another in one critical
  section leaves it a stale status to send, but owes the new one itself.
* Marks. What was counted under a lock still fits when it is inserted
  (`PinsFit`, `TypesFit`), for the lock is held from the count to the insert
  (`LocksAreHeld`) and removals, which take none, only make room. Readers are up to
  date but for what the one request for the message has yet to tell (`PinsKnown`,
  `CountsKnown`, `OneByOne`).
* Media store. What the collector lists or holds is old (`GarbageIsOld`), and of a
  content that was not published again later the blob is as old as the row and young
  while a request works on it (`AgesAgree`): so it is never what the collector holds.
* Supervisor. Whoever lives and is no orphan is the process `Run` started last, and
  between two runs there is none (`ChildIsKnown`); each start since a run last
  passed the threshold was counted, but for the one that runs (`StartsAreCounted`).

What is assumed of the constants: that limits are natural numbers, positive where
the configuration refuses zero; that the sets whose elements are counted are finite
(users, connections and channels of `VoiceRooms`, connections of `Hub`, users,
messages and emojis of `Marks`, messages and viewers of `Embeds`, the links of a
content in `Messages`); that numbers of packets wrap at two or more; that `None`, `Gone`
and the names of the goroutines are no users, rows or requests, and links no requests. Each is an `ASSUME` of the component's module, evaluated by
TLC in the run of the MC module that extends it, or an operator `Assumptions` that the
MC module assumes of its instance (`RecordsAssumption`, `RealtimeAssumption`,
`WorkersAssumption`) and the theorem of `Sfu_proofs` has as hypothesis. `ClaimOutlivesBatch` is TRUE or
FALSE; the theorems that need it say so.

Only model-checked:

* liveness, since temporal proofs under fairness need ENABLED, which is out of the
  prover's reach: `VoiceSettles`, `AudioForgetsLeavers`, `RelaySettles`,
  `EveryAttachmentIsJudged`, `PushJobsLeave`, `OnlyGarbageGoes`, `ConnectionsSettle`,
  `RequestsEnd`;
* `SpeakersAreChosenFairly` and `ScansAreExact`, statements about sorted data: the
  choice of speakers and the page after a cursor are built by going through the data in
  order, and what they compute for every input is proved by induction over it, which
  the provers cannot do.

No module uses RECURSIVE operators.

## 6. Disagreements found

Each run that expects a violation ends with a counterexample; PROJECT.json quotes the
text and names the line.

* `voice_audience`: `voice_leave` of a seat may follow the announcement of the next.
* `sessions_revoke_all`: the successor a rotation inserts while the revocation waits
  for its row is not revoked.
* `moderation_blocked`: an image judged from a row read before its message existed
  leaves the message.
* `media_reuse`: old content published again during a collection loses its file.
* `server_password`: two overlapping updates of the server put the old password back.
* `notifications_pool`: a dispatch whose insertions fail for more recipients than the pool
  has connections waits for itself for ever, under `context.Background()`.

Others the models reach. They are stated in the modules as what a comment says,
and no run checks them:

* `EntriesHaveRoles` (`Channels`; `storage/roles.go:137`): a permission written by a
  request that looked the role up before its deletion comes back.
* `PositionsAreContiguous` (`Channels`; `storage/channels.go:219`): a deletion leaves a
  gap.
* `BlockedIsHidden` (`DirectMessages`; `storage/user_blocks.go:25`): an opening or a
  message that passed the check of blocks shows the conversation again.
* `LinkedIsFound` (`Embeds`; `services/embeds.go:1142`): the channel checked is one,
  any, of those that have the embed (`LIMIT 1`), so that a reader of another is refused.
* `EveryBindingContinues`, `NumbersAreWrittenInOrder`, `NoPartialFrame` (`Forwarder`;
  `webrtc/sfu.go:80`, `:210`): an old forwarder that still sends takes the translator back,
  and its packets come between; a write may come after one with a later number; the
  packet put between the drop and its mark is sent in mid-frame.
* `webrtc/room.go:593` (`ActiveSpeakers`): the audio set a tick chose before a departure is
  set after that of the departure, and the one who left is in it.
* `services/embeds.go:84` (`Embeds`): `robots.txt` is fetched without a slot.
* `SlotsFollowTracks`, `LeaversHoldNoSlot` (`Sfu`; `webrtc/peer.go:668`, `:851`): a
  goroutine with an older track replaces the newer reader; a video slot is bound to a
  publisher that left meanwhile.
* `WorkerIsTold` (`Supervisor`; `cmd/main.go:202`, `:220`): `e.Start` returns as soon as
  the shutdown begins, and `utils.Fatal` ends the process before `push.Shutdown`.

## 7. Not covered, not modelled

Behaviours read in the code that no property excludes: a notification of somebody
who at no moment both could read the channel and had not muted it, since
`DispatchMessageNotifications` reads the settings before the readers (someone who
cannot read mutes after the first and becomes a reader before the second); a join that overlaps
`Shutdown` or the deletion of its channel; a grace period that ends during a refresh;
a token that is disabled, or moves to another user, while a push for it is under way;
the count of emojis made before the insert without a lock; the limit of channels;
the absolute counts of overlapping `react_update`s; an ascending scan of the audit log
whose cursor row is purged; an orphan `papo-push` that answers the health check meant for
the next; a temporary token given before the server's password changed; a session that
a login under way inserts after the ban or the change of password it did not see; who wins
when an edit and a crawl, or two edits with embeds, touch one message at once; a rule of
who reads a channel that looks roles and entries up one after the other, with a change in
between (in `Channels` each rule sees one state). The join, the login, the edit and the
rule are hazards with a note; the others are left to the reader of this list.

Not modelled, and why:

* Routing, validation, configuration: no state; what handlers change is in the actions.
* Profiles, pictures, settings of users, names and topics of channels, the creation of
  webhooks and the text search: single statements.
* The parsing of pages and feeds, translation of URLs, media utilities, SDP, codecs, ICE and
  bandwidth estimation: functions on bytes, or pion's. A large part of
  `services/embeds*.go`, `handlers/` and `utils/` is of this kind.
* Camera and screen indicators of a room: flags that are set and broadcast.
* The Python process, FCM and its relay: seen only through their answers.
* The stress tool and deployment: not the system.

## 8. Plan

Done: every component of section 1 but the last has a module, a run and a mutant for
each property; the outbox has its abstract specification; every safety property the
runs check is proved but those listed in section 5. Left, in order of worth:

1. Abstract specifications: a set of sessions per login for `Sessions`, up to the finding;
   a set of seats for `VoiceRooms`; a presence register for `Hub`.
2. Compositions: `Messages` with `Moderation` and `MediaStore`; `Notifications` with
   `PushOutbox`; `Hub` with `VoiceRooms` through the unregister, which `VoiceRooms` now
   contains in part.
3. The order of events per connection in `Hub`, with the queue of `Send` and its overflow.
