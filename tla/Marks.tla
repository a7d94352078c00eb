------------------------------- MODULE Marks -------------------------------
(***************************************************************************)
(* Pinned messages of a channel, reactions and custom emojis: limits that  *)
(* span rows, kept by an advisory lock held to the end of the transaction, *)
(* and the events that carry the result to the readers.  Each user sends   *)
(* one request at a time; a refusal for lack of permission does nothing    *)
(* and is left out.                                                        *)
(***************************************************************************)
EXTENDS Naturals, FiniteSets

CONSTANTS
    Users, Messages,
    Customs,        \* ids a custom emoji may get
    Unicodes,       \* emojis that are no row of the database
    MaxPins,        \* maxPinnedPerChannel
    MaxTypes,       \* maxReactionTypesPerMessage
    MaxEmojis,      \* maxEmojis
    MaxEvents,      \* bound: requests and failures
    None

Emojis == Customs \cup Unicodes

Assumptions ==
    /\ {MaxPins, MaxTypes, MaxEmojis, MaxEvents} \subseteq Nat
    /\ IsFiniteSet(Users) /\ IsFiniteSet(Messages) /\ IsFiniteSet(Emojis)
    /\ None \notin Users \cup Messages \cup Emojis /\ "channel" \notin Messages

ASSUME MarksAssumption == Assumptions

VARIABLES
    live,       \* messages that exist
    emoji,      \* per custom emoji: "free" (no such row yet), "live", "gone"
    pinned,     \* pinned_messages
    reacted,    \* message_reactions: <<message, user, emoji>>
    lock,       \* advisory locks
    req,        \* per user: the request
    pinShown,   \* what readers were told last
    countShown,
    unsure,     \* history: messages whose requests overlapped, or failed after the change
    events

rowVars == <<live, emoji, pinned, reacted>>
shownVars == <<pinShown, countShown>>
vars == <<rowVars, lock, req, shownVars, unsure, events>>

Keys == Messages \cup {"channel"}
Request == [at : {"idle", "lock", "look", "insert", "remove", "count", "tell", "store"},
            op : {"pin", "unpin", "react", "unreact", "emoji"},
            message : Messages \cup {None}, emoji : Emojis \cup {None},
            count : 0 .. Cardinality(Users)]
Idle == [at |-> "idle", op |-> "pin", message |-> None, emoji |-> None, count |-> 0]

TypeOK ==
    /\ live \subseteq Messages /\ emoji \in [Customs -> {"free", "live", "gone"}]
    /\ pinned \subseteq live
    /\ reacted \subseteq live \X Users \X Emojis
    /\ \A row \in reacted : row[3] \in Customs => emoji[row[3]] = "live"
    /\ lock \in [Keys -> Users \cup {None}]
    /\ req \in [Users -> Request]
    /\ pinShown \subseteq Messages
    /\ countShown \in [Messages -> [Emojis -> 0 .. Cardinality(Users)]]
    /\ unsure \subseteq Messages /\ events \in 0 .. MaxEvents

Init ==
    /\ live = Messages /\ emoji = [e \in Customs |-> "free"]
    /\ pinned = {} /\ reacted = {}
    /\ lock = [k \in Keys |-> None] /\ req = [u \in Users |-> Idle]
    /\ pinShown = {} /\ countShown = [m \in Messages |-> [e \in Emojis |-> 0]]
    /\ unsure = {} /\ events = 0

Exists(e) == e \in Customs => emoji[e] = "live"
LiveEmojis == {e \in Customs : emoji[e] = "live"}
Count(m, e) == Cardinality({u \in Users : <<m, u, e>> \in reacted})
Types(m) == {e \in Emojis : Count(m, e) > 0}

At(u, op, step) == req[u].op = op /\ req[u].at = step
Go(u, step) == req' = [req EXCEPT ![u].at = step]
Finish(u) == req' = [req EXCEPT ![u] = Idle]
Release(u) == lock' = [k \in Keys |-> IF lock[k] = u THEN None ELSE lock[k]]

(***************************************************************************)
(* Handlers: the message must be there, and the emoji.                     *)
(***************************************************************************)
Busy(m) == \E u \in Users : req[u].at # "idle" /\ req[u].message = m

Begin(u, step, op, m, e) ==
    /\ req[u].at = "idle" /\ events < MaxEvents /\ events' = events + 1
    /\ req' = [req EXCEPT ![u] = [at |-> step, op |-> op, message |-> m, emoji |-> e,
                                  count |-> 0]]
    /\ unsure' = IF m # None /\ Busy(m) THEN unsure \cup {m} ELSE unsure
    /\ UNCHANGED <<rowVars, lock, shownVars>>

GetChannelForMessage(m) == m \in live

PinMessageHandler(u, m) == GetChannelForMessage(m) /\ Begin(u, "lock", "pin", m, None)
UnpinMessageHandler(u, m) == GetChannelForMessage(m) /\ Begin(u, "remove", "unpin", m, None)
AddReactionHandler(u, m, e) ==
    GetChannelForMessage(m) /\ Exists(e) /\ Begin(u, "lock", "react", m, e)
RemoveReactionHandler(u, m, e) ==
    GetChannelForMessage(m) /\ Exists(e) /\ Begin(u, "remove", "unreact", m, e)

\* The emojis are counted before the image is stored.
CreateEmojiHandler(u) ==
    Cardinality(LiveEmojis) < MaxEmojis /\ Begin(u, "store", "emoji", None, None)

(***************************************************************************)
(* Pins.                                                                   *)
(***************************************************************************)
\* Variant: one lock per message.
LockPinPerMessage(u) ==
    /\ At(u, "pin", "lock") /\ lock[req[u].message] = None
    /\ lock' = [lock EXCEPT ![req[u].message] = u] /\ Go(u, "look")
    /\ UNCHANGED <<rowVars, shownVars, unsure>>

LockPin(u) ==
    /\ At(u, "pin", "lock") /\ lock["channel"] = None
    /\ lock' = [lock EXCEPT !["channel"] = u] /\ Go(u, "look")
    /\ UNCHANGED <<rowVars, shownVars, unsure>>

\* A message pinned before, or one too many, ends the transaction.
LookPin(u) ==
    /\ At(u, "pin", "look")
    /\ IF req[u].message \in pinned \/ Cardinality(pinned) >= MaxPins
       THEN Finish(u) /\ Release(u)
       ELSE Go(u, "insert") /\ lock' = lock
    /\ UNCHANGED <<rowVars, shownVars, unsure>>

\* Fails if the message was deleted meanwhile.
InsertPin(u) ==
    /\ At(u, "pin", "insert") /\ Release(u)
    /\ LET m == req[u].message
       IN IF m \in live THEN pinned' = pinned \cup {m} /\ Go(u, "tell")
          ELSE pinned' = pinned /\ Finish(u)
    /\ UNCHANGED <<live, emoji, reacted, shownVars, unsure>>

PinMessage(u) == LockPin(u) \/ LookPin(u) \/ InsertPin(u)

UnpinMessage(u) ==
    /\ At(u, "unpin", "remove")
    /\ pinned' = pinned \ {req[u].message}
    /\ IF req[u].message \in pinned THEN Go(u, "tell") ELSE Finish(u)
    /\ UNCHANGED <<live, emoji, reacted, lock, shownVars, unsure>>

TellPin(u) ==
    /\ req[u].at = "tell" /\ req[u].op \in {"pin", "unpin"} /\ Finish(u)
    /\ pinShown' = IF req[u].op = "pin" THEN pinShown \cup {req[u].message}
                   ELSE pinShown \ {req[u].message}
    /\ UNCHANGED <<rowVars, lock, countShown, unsure>>

(***************************************************************************)
(* Reactions.                                                              *)
(***************************************************************************)
LockReaction(u) ==
    /\ At(u, "react", "lock") /\ lock[req[u].message] = None
    /\ lock' = [lock EXCEPT ![req[u].message] = u] /\ Go(u, "look")
    /\ UNCHANGED <<rowVars, shownVars, unsure>>

\* Variant: the transaction of a repeated reaction stays open.
LookReactionHolds(u) ==
    /\ At(u, "react", "look")
    /\ LET m == req[u].message
           e == req[u].emoji
       IN \/ /\ <<m, u, e>> \in reacted
             /\ req' = [req EXCEPT ![u].count = Count(m, e), ![u].at = "tell"]
             /\ lock' = lock
          \/ /\ <<m, u, e>> \notin reacted
             /\ IF e \notin Types(m) /\ Cardinality(Types(m)) >= MaxTypes
                THEN Finish(u) /\ Release(u)
                ELSE Go(u, "insert") /\ lock' = lock
    /\ UNCHANGED <<rowVars, shownVars, unsure>>

\* A repeated reaction is told again; a new type must fit under the limit.
LookReaction(u) ==
    /\ At(u, "react", "look")
    /\ LET m == req[u].message
           e == req[u].emoji
       IN \/ /\ <<m, u, e>> \in reacted
             /\ req' = [req EXCEPT ![u].count = Count(m, e), ![u].at = "tell"]
             /\ Release(u)
          \/ /\ <<m, u, e>> \notin reacted
             /\ IF e \notin Types(m) /\ Cardinality(Types(m)) >= MaxTypes
                THEN Finish(u) /\ Release(u)
                ELSE Go(u, "insert") /\ lock' = lock
    /\ UNCHANGED <<rowVars, shownVars, unsure>>

\* The row, its count and the commit; fails if the message or the emoji is gone.
InsertReaction(u) ==
    /\ At(u, "react", "insert") /\ Release(u)
    /\ LET m == req[u].message
           e == req[u].emoji
       IN IF m \in live /\ Exists(e)
          THEN /\ reacted' = reacted \cup {<<m, u, e>>}
               /\ req' = [req EXCEPT ![u].count = Count(m, e) + 1, ![u].at = "tell"]
          ELSE reacted' = reacted /\ Finish(u)
    /\ UNCHANGED <<live, emoji, pinned, shownVars, unsure>>

AddReaction(u) == LockReaction(u) \/ LookReaction(u) \/ InsertReaction(u)

\* Takes no lock; the count is a statement of its own.
RemoveReaction(u) ==
    /\ At(u, "unreact", "remove")
    /\ LET row == <<req[u].message, u, req[u].emoji>>
       IN /\ reacted' = reacted \ {row}
          /\ IF row \in reacted THEN Go(u, "count") ELSE Finish(u)
    /\ UNCHANGED <<live, emoji, pinned, lock, shownVars, unsure>>

CountReactionType(u) ==
    /\ At(u, "unreact", "count")
    /\ req' = [req EXCEPT ![u].count = Count(req[u].message, req[u].emoji), ![u].at = "tell"]
    /\ UNCHANGED <<rowVars, lock, shownVars, unsure>>

BroadcastReactUpdate(u) ==
    /\ req[u].at = "tell" /\ req[u].op \in {"react", "unreact"} /\ Finish(u)
    /\ countShown' = [countShown EXCEPT ![req[u].message][req[u].emoji] = req[u].count]
    /\ UNCHANGED <<rowVars, lock, pinShown, unsure>>

(***************************************************************************)
(* Emojis and messages come and go; what refers to them goes with them.    *)
(***************************************************************************)
\* The image is stored and the row inserted, unless its name is taken.
CreateEmoji(u) ==
    /\ At(u, "emoji", "store") /\ Finish(u)
    /\ \/ emoji' = emoji
       \/ \E e \in Customs : emoji[e] = "free" /\ emoji' = [emoji EXCEPT ![e] = "live"]
    /\ UNCHANGED <<live, pinned, reacted, lock, shownVars, unsure>>

Event == events < MaxEvents /\ events' = events + 1

DeleteEmoji(e) ==
    /\ emoji' = [emoji EXCEPT ![e] = "gone"]
    /\ reacted' = {r \in reacted : r[3] # e}

DeleteEmojiHandler(e) ==
    /\ emoji[e] = "live" /\ Event
    /\ DeleteEmoji(e)
    /\ UNCHANGED <<live, pinned, lock, req, shownVars, unsure>>

DeleteMessage(m) ==
    /\ m \in live /\ Event
    /\ live' = live \ {m} /\ pinned' = pinned \ {m}
    /\ reacted' = {r \in reacted : r[1] # m}
    /\ UNCHANGED <<emoji, lock, req, shownVars, unsure>>

\* A statement fails or the client goes away: what was not committed is
\* rolled back, what was is told to nobody.
RequestFails(u) ==
    /\ req[u].at # "idle" /\ Event /\ Finish(u) /\ Release(u)
    /\ unsure' = IF req[u].at \in {"count", "tell"} THEN unsure \cup {req[u].message} ELSE unsure
    /\ UNCHANGED <<rowVars, shownVars>>

Handler(u) ==
    \/ \E m \in Messages :
          \/ PinMessageHandler(u, m) \/ UnpinMessageHandler(u, m)
          \/ \E e \in Emojis : AddReactionHandler(u, m, e) \/ RemoveReactionHandler(u, m, e)
    \/ CreateEmojiHandler(u)

RequestStep(u) ==
    /\ \/ PinMessage(u) \/ UnpinMessage(u) \/ TellPin(u)
       \/ AddReaction(u) \/ RemoveReaction(u) \/ CountReactionType(u) \/ BroadcastReactUpdate(u)
       \/ CreateEmoji(u)
    /\ events' = events

Next ==
    \/ \E u \in Users : Handler(u) \/ RequestStep(u) \/ RequestFails(u)
    \/ \E e \in Customs : DeleteEmojiHandler(e)
    \/ \E m \in Messages : DeleteMessage(m)

Spec == Init /\ [][Next]_vars

\* Requests go on; those that wait for a lock wait for finitely many others
\* (MaxEvents).
FairSpec == Spec /\ \A u \in Users : WF_vars(RequestStep(u))

(***************************************************************************)
(* Properties.                                                             *)
(***************************************************************************)
\* Users that pin different messages at the same time do not pin more than a
\* channel may have.
PinsWithinLimit == Cardinality(pinned) <= MaxPins

\* Users that react with different emojis at the same time do not exceed the
\* number of types, though reactions are removed without the lock.
TypesWithinLimit == \A m \in Messages : Cardinality(Types(m)) <= MaxTypes

\* When requests for a message came one after the other, readers know whether
\* it is pinned, and how many reacted with each emoji there is.
ReadersKnow ==
    \A m \in live \ unsure : ~Busy(m) =>
        /\ m \in pinShown <=> m \in pinned
        /\ \A e \in Emojis : Exists(e) => countShown[m][e] = Count(m, e)

\* Rows refer to what exists, the limits hold and the readers know.
MarksAreRight == TypeOK /\ PinsWithinLimit /\ TypesWithinLimit /\ ReadersKnow

\* No request is kept waiting for a lock for ever.
RequestsEnd == \A u \in Users : req[u].at # "idle" ~> req[u].at = "idle"
=============================================================================
