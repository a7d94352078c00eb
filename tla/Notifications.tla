----------------------------- MODULE Notifications -----------------------------
(***************************************************************************)
(* Notifications of the messages of one channel.                           *)
(*                                                                         *)
(* A goroutine per message finds who is to be notified, then writes, one   *)
(* user and one transaction after the other, a notification with its push  *)
(* job, and at the end sends the events.  Meanwhile messages are deleted,  *)
(* users change their settings and mark the channel as read.               *)
(*                                                                         *)
(* All statements take a connection of one pool (MaxOpenConns); an open    *)
(* transaction keeps its own, also when it has failed, until it is         *)
(* committed or rolled back.  Texts and previews are left out.  MessageIds   *)
(* are numbered in the order (created_at, id).                             *)
(***************************************************************************)
EXTENDS Naturals, FiniteSets

CONSTANTS
    Users, Author,
    MaxMessages,    \* bound: messages posted
    PoolSize,       \* MaxOpenConns
    MaxEvents,      \* bound: deletions, changed settings and permissions, requests to
                    \* mark as read, failed statements
    None

\* Assumed by the modules that instantiate this one.
Assumptions ==
    /\ Author \in Users
    /\ {MaxMessages, MaxEvents} \subseteq Nat /\ PoolSize \in Nat \ {0}
    /\ None \notin Users

MessageIds == 1 .. MaxMessages
Settings == {"off", "only_mentions", "all"}
Reasons == {"author", "muted", "barred"}

VARIABLES
    message,    \* per message: "none", "live", "gone"
    setting,    \* notification_settings in the channel, per user
    readers,    \* users who may read the channel
    note,       \* rows of notifications: per message and user, "none", "unread", "read"
    jobs,       \* rows put into push_outbox
    told,       \* new_notification events sent
    disp,       \* per message: its dispatch
    lastRead,   \* user_channel_state: the message read last, or 0
    reading,    \* per user: its request to mark the channel as read
    events,
    silent      \* history: per message, who must hear nothing of it, and why: its
                \* author, and whoever ever since it was posted had turned the
                \* notifications off or could not read the channel

rowVars == <<message, note, jobs, lastRead>>
vars == <<rowVars, setting, readers, told, disp, reading, events, silent>>

Dispatch == [at : {"idle", "candidates", "readers", "loop", "insert", "commit", "done"},
             triggered : SUBSET Users, all : SUBSET Users, todo : SUBSET Users,
             user : Users \cup {None}, open : SUBSET Users, deliver : SUBSET Users]

TypeOK ==
    /\ message \in [MessageIds -> {"none", "live", "gone"}]
    /\ setting \in [Users -> Settings] /\ readers \subseteq Users
    /\ note \in [MessageIds -> [Users -> {"none", "unread", "read"}]]
    /\ jobs \subseteq MessageIds \X Users /\ told \subseteq MessageIds \X Users
    /\ disp \in [MessageIds -> Dispatch]
    /\ lastRead \in [Users -> 0 .. MaxMessages]
    /\ reading \in [Users -> [at : {"idle", "touch", "mark"}, upTo : 0 .. MaxMessages]]
    /\ events \in 0 .. MaxEvents
    /\ silent \in [MessageIds -> SUBSET (Users \X Reasons)]

Idle == [at |-> "idle", triggered |-> {}, all |-> {}, todo |-> {}, user |-> None,
         open |-> {}, deliver |-> {}]
NotReading == [at |-> "idle", upTo |-> 0]

Init ==
    /\ message = [m \in MessageIds |-> "none"]
    /\ setting = [u \in Users |-> "only_mentions"] /\ readers = Users
    /\ note = [m \in MessageIds |-> [u \in Users |-> "none"]]
    /\ jobs = {} /\ told = {}
    /\ disp = [m \in MessageIds |-> Idle]
    /\ lastRead = [u \in Users |-> 0]
    /\ reading = [u \in Users |-> NotReading]
    /\ events = 0
    /\ silent = [m \in MessageIds |-> {}]

(***************************************************************************)
(* The pool.                                                               *)
(***************************************************************************)
Transactions == UNION {{m} \X disp[m].open : m \in MessageIds}

ConnectionFree == Cardinality(Transactions) < PoolSize

\* Bound: a statement fails (a timeout, a lost connection).
Fails == events < MaxEvents /\ events' = events + 1

(***************************************************************************)
(* DispatchMessageNotifications.                                           *)
(***************************************************************************)
\* Those a message mentions or answers, or all of them if its author may use
\* @everyone.
Triggered(mentions, everyone) == IF everyone THEN Users ELSE mentions

PublishCreatedMessage(m) ==
    /\ message[m] = "none" /\ \A k \in 1 .. m - 1 : message[k] # "none"
    /\ message' = [message EXCEPT ![m] = "live"]
    /\ \E mentions \in SUBSET (Users \ {Author}), everyone \in BOOLEAN :
          disp' = [disp EXCEPT ![m] = [Idle EXCEPT !.at = "candidates",
                                                   !.triggered = Triggered(mentions, everyone)]]
    /\ silent' = [silent EXCEPT ![m] =
          {<<Author, "author">>} \cup ({u \in Users : setting[u] = "off"} \X {"muted"})
                                 \cup ((Users \ readers) \X {"barred"})]
    /\ UNCHANGED <<note, jobs, lastRead, setting, readers, told, reading, events>>

ListChannelNotificationCandidates(m) ==
    /\ disp[m].at = "candidates" /\ ConnectionFree
    /\ disp' = [disp EXCEPT ![m].at = "readers",
                            ![m].todo = {u \in Users : setting[u] # "off"},
                            ![m].all = {u \in Users : setting[u] = "all"}]
    /\ UNCHANGED <<rowVars, setting, readers, told, reading, events, silent>>

ToNotify(m) == (disp[m].todo \cap (disp[m].triggered \cup disp[m].all)) \ {Author}

ChannelReaders(m) ==
    /\ disp[m].at = "readers" /\ ConnectionFree
    /\ disp' = [disp EXCEPT ![m].at = "loop", ![m].todo = ToNotify(m) \cap readers]
    /\ UNCHANGED <<rowVars, setting, readers, told, reading, events, silent>>

BeginTx(m) ==
    /\ disp[m].at = "loop" /\ ConnectionFree
    /\ \E u \in disp[m].todo \cap disp[m].triggered :
          disp' = [disp EXCEPT ![m].at = "insert", ![m].user = u, ![m].todo = @ \ {u},
                               ![m].open = @ \cup {u}]
    /\ UNCHANGED <<rowVars, setting, readers, told, reading, events, silent>>

\* The row refers to the message: the insertion fails once it is gone.
CreateNotificationInTx(m) ==
    /\ disp[m].at = "insert"
    /\ disp' = [disp EXCEPT ![m].at = IF message[m] = "live" THEN "commit" ELSE "loop"]
    /\ UNCHANGED <<rowVars, setting, readers, told, reading, events, silent>>

\* Variant: the notification stays although its job could not be written.
CreatePushJobInTxIgnored(m) ==
    LET u == disp[m].user IN
    /\ disp[m].at = "commit"
    /\ note' = [note EXCEPT ![m][u] = IF @ = "none" THEN "unread" ELSE @]
    /\ disp' = [disp EXCEPT ![m].at = "loop", ![m].open = @ \ {u}, ![m].deliver = @ \cup {u}]
    /\ \/ jobs' = jobs \cup {<<m, u>>} /\ events' = events
       \/ Fails /\ jobs' = jobs
    /\ UNCHANGED <<message, lastRead, setting, readers, told, reading, silent>>

\* The notification and its job are committed, or neither.
CreatePushJobInTx(m) ==
    LET u == disp[m].user IN
    /\ disp[m].at = "commit"
    /\ \/ /\ note' = [note EXCEPT ![m][u] = IF @ = "none" THEN "unread" ELSE @]
          /\ jobs' = jobs \cup {<<m, u>>}
          /\ disp' = [disp EXCEPT ![m].at = "loop", ![m].open = @ \ {u},
                                  ![m].deliver = @ \cup {u}]
          /\ events' = events
       \/ Fails /\ disp' = [disp EXCEPT ![m].at = "loop"] /\ UNCHANGED <<note, jobs>>
    /\ UNCHANGED <<message, lastRead, setting, readers, told, reading, silent>>

\* "all" without a trigger: a job and an event, no row.
CreatePushJob(m) ==
    /\ disp[m].at = "loop" /\ ConnectionFree
    /\ \E u \in disp[m].todo \ disp[m].triggered :
          /\ jobs' = jobs \cup {<<m, u>>}
          /\ disp' = [disp EXCEPT ![m].todo = @ \ {u}, ![m].deliver = @ \cup {u}]
    /\ UNCHANGED <<message, note, lastRead, setting, readers, told, reading, events, silent>>

\* The function returns: its deferred rollbacks run, and the events are sent.
SendNotifications(m) ==
    /\ disp[m].at = "loop" /\ disp[m].todo = {}
    /\ told' = told \cup {<<m, u>> : u \in disp[m].deliver}
    /\ disp' = [disp EXCEPT ![m] = [Idle EXCEPT !.at = "done"]]
    /\ UNCHANGED <<rowVars, setting, readers, reading, events, silent>>

DispatchStep(m) ==
    \/ ListChannelNotificationCandidates(m) \/ ChannelReaders(m) \/ BeginTx(m)
    \/ CreateNotificationInTx(m) \/ CreatePushJobInTx(m) \/ CreatePushJob(m)
    \/ SendNotifications(m)

(***************************************************************************)
(* Marking as read.                                                        *)
(***************************************************************************)
MarkChannelRead(u, m) ==
    /\ reading[u].at = "idle" /\ ConnectionFree
    /\ message[m] = "live" /\ u \in readers
    /\ reading' = [reading EXCEPT ![u] = [at |-> "touch", upTo |-> m]]
    /\ UNCHANGED <<rowVars, setting, readers, told, disp, silent>>

\* The position only moves forwards, or away from a message that is gone.
TouchLastReadMessage(u) ==
    LET m == reading[u].upTo IN
    /\ reading[u].at = "touch" /\ ConnectionFree
    /\ lastRead' = [lastRead EXCEPT ![u] =
          IF @ = 0 \/ message[@] = "gone" \/ @ < m THEN m ELSE @]
    /\ reading' = [reading EXCEPT ![u].at = "mark"]
    /\ UNCHANGED <<message, note, jobs, setting, readers, told, disp, events, silent>>

Read(n) == IF n = "unread" THEN "read" ELSE n

\* Best effort: a failure leaves the rows for the next time.
MarkChannelNotificationsReadUpTo(u) ==
    /\ reading[u].at = "mark" /\ ConnectionFree
    /\ \/ /\ note' = [m \in MessageIds |-> [note[m] EXCEPT ![u] =
                       IF m <= reading[u].upTo THEN Read(@) ELSE @]]
          /\ events' = events
       \/ Fails /\ note' = note
    /\ reading' = [reading EXCEPT ![u] = NotReading]
    /\ UNCHANGED <<message, jobs, lastRead, setting, readers, told, disp, silent>>

RowsRead(u, M) == [m \in MessageIds |-> [note[m] EXCEPT ![u] = IF m \in M THEN Read(@) ELSE @]]

MarkUserNotificationsRead(u, M) ==
    /\ ConnectionFree
    /\ \E m \in M : note[m][u] # "none"
    /\ note' = RowsRead(u, M)
    /\ UNCHANGED <<message, jobs, lastRead, setting, readers, told, disp, reading, silent>>

(***************************************************************************)
(* The rest of the server.                                                 *)
(***************************************************************************)
Unsilence(u, why) == [m \in MessageIds |-> silent[m] \ {<<u, why>>}]

UpsertChannelUserSetting(u, s) == setting' = [setting EXCEPT ![u] = s]

UpdateChannelUserSetting(u, s) ==
    /\ setting[u] # s /\ ConnectionFree
    /\ UpsertChannelUserSetting(u, s)
    /\ silent' = IF s # "off" THEN Unsilence(u, "muted") ELSE silent
    /\ UNCHANGED <<rowVars, readers, told, disp, reading>>

PermissionsChange(u) ==
    /\ readers' = IF u \in readers THEN readers \ {u} ELSE readers \cup {u}
    /\ silent' = IF u \in readers' THEN Unsilence(u, "barred") ELSE silent
    /\ UNCHANGED <<rowVars, setting, told, disp, reading>>

\* Waits for a transaction that has inserted a row for the message; the rows
\* go with it.
DeleteMessage(m) ==
    /\ message[m] = "live" /\ ConnectionFree
    /\ disp[m].at # "commit"
    /\ message' = [message EXCEPT ![m] = "gone"]
    /\ note' = [note EXCEPT ![m] = [u \in Users |-> "none"]]
    /\ UNCHANGED <<jobs, lastRead, setting, readers, told, disp, reading, silent>>

\* Requests of a user, for itself.
UpdateChannelUserSettingHandler(u) == \E s \in Settings : UpdateChannelUserSetting(u, s)
MarkChannelReadHandler(u) == \E m \in MessageIds : MarkChannelRead(u, m)
ReadNotificationHandler(u) == \E M \in SUBSET MessageIds : MarkUserNotificationsRead(u, M)

Outside ==
    /\ Fails
    /\ \/ \E m \in MessageIds : DeleteMessage(m)
       \/ \E u \in Users :
             \/ PermissionsChange(u) \/ UpdateChannelUserSettingHandler(u)
             \/ MarkChannelReadHandler(u) \/ ReadNotificationHandler(u)

ReadStep(u) == TouchLastReadMessage(u) \/ MarkChannelNotificationsReadUpTo(u)

Next ==
    \/ \E m \in MessageIds : PublishCreatedMessage(m) \/ DispatchStep(m)
    \/ \E u \in Users : ReadStep(u)
    \/ Outside

Spec == Init /\ [][Next]_vars

\* Goroutines run, and a dispatch that waits for a connection gets one in its turn.
FairSpec ==
    /\ Spec
    /\ \A m \in MessageIds : SF_vars(DispatchStep(m))
    /\ \A u \in Users : WF_vars(ReadStep(u))

(***************************************************************************)
(* Properties.                                                             *)
(***************************************************************************)
\* Push never depends on the worker being there: a notification and its job are
\* committed together, whatever fails between them (CreatePushJobInTx).
NotificationsHaveJobs ==
    \A m \in MessageIds, u \in Users : note[m][u] # "none" => <<m, u>> \in jobs

\* The author, and whoever had muted the channel all the while since the message
\* was posted, or could not read it all the while, neither gets a notification
\* nor a push.  (Who could not read it until it was muted, may: the settings and
\* the readers are read one after the other.)
SilentUsersHearNothing ==
    \A m \in MessageIds : \A sw \in silent[m] :
        note[m][sw[1]] = "none" /\ <<m, sw[1]>> \notin jobs \cup told

\* Requests that mark the channel as read may overlap and come out of order:
\* the position never goes back, except from a message that was deleted.
LastReadAdvancesStep ==
    \A u \in Users :
       lastRead'[u] # lastRead[u] =>
           lastRead[u] < lastRead'[u] \/ message[lastRead[u]] = "gone"
LastReadAdvances == [][LastReadAdvancesStep]_vars

\* What a comment says and the model refutes: a user for whom the writing fails
\* is skipped and the dispatch goes on to its end (`falhas individuais sao
\* logadas e puladas').  The transaction that failed keeps its connection until
\* the function returns, which may so wait for a connection it holds itself.
DispatchesEnd == \A m \in MessageIds : disp[m].at # "idle" ~> disp[m].at = "done"
=============================================================================
