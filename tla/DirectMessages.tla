--------------------------- MODULE DirectMessages ---------------------------
(***************************************************************************)
(* The direct conversation of two users: made when one of them opens it,   *)
(* hidden by each for himself, shown again by a message, and closed to     *)
(* both while one blocks the other.                                        *)
(***************************************************************************)
EXTENDS Naturals, FiniteSets

CONSTANTS
    Users,          \* the two
    Requests,
    MaxEvents,      \* bound: requests that begin
    None

\* Assumed by the modules that instantiate this one.
Assumptions == Cardinality(Users) = 2 /\ MaxEvents \in Nat /\ None \notin Requests

VARIABLES
    made,       \* the rows of the pair: channels of type dm
    hidden,     \* the users whose list hides it
    blocks,     \* user_blocks, by who blocks
    news,       \* history: users with a message they did not hide
    lock,       \* who holds the advisory lock of the pair
    req,        \* the requests that are under way
    failed,     \* history: a unique constraint refused a conversation
    events

vars == <<made, hidden, blocks, news, lock, req, failed, events>>

NoRequest == [op |-> "idle", by |-> None]
Request == {NoRequest}
           \cup [op : {"open", "look", "insert", "show", "send", "reopen"}, by : Users]

TypeOK ==
    /\ made \in 0 .. 1 /\ hidden \subseteq Users /\ blocks \subseteq Users
    /\ news \subseteq Users /\ lock \in Requests \cup {None} /\ failed \in BOOLEAN
    /\ req \in [Requests -> Request] /\ events \in 0 .. MaxEvents

Init ==
    /\ made = 0 /\ hidden = {} /\ blocks = {} /\ news = {} /\ lock = None
    /\ req = [r \in Requests |-> NoRequest] /\ failed = FALSE /\ events = 0

Begin(r) == req[r] = NoRequest /\ events < MaxEvents /\ events' = events + 1
Enter(r, op) == req' = [req EXCEPT ![r].op = op]
Answer(r) == req' = [req EXCEPT ![r] = NoRequest]

(***************************************************************************)
(* Who has access.                                                         *)
(***************************************************************************)
UsersBlocked == blocks # {}

\* Access of one user: reading, sending, getting the conversation.
DirectConversationAccess(u) == made = 1 /\ ~UsersBlocked

\* Of many: broadcasts and notifications.
DirectConversationReaders == IF made = 1 /\ ~UsersBlocked THEN Users ELSE {}

\* Whether it is in the list of u.
ListDirectConversations(u) == made = 1 /\ u \notin hidden /\ ~UsersBlocked

(***************************************************************************)
(* Opening: the block is looked up first, then everything happens in one   *)
(* transaction under the lock of the pair.                                 *)
(***************************************************************************)
PairIsFree == lock = None

OpenDirectConversation(r, u) ==
    /\ Begin(r) /\ ~UsersBlocked
    /\ req' = [req EXCEPT ![r] = [op |-> "open", by |-> u]]
    /\ UNCHANGED <<made, hidden, blocks, news, lock, failed>>

LockPair(r) ==
    /\ req[r].op = "open" /\ PairIsFree
    /\ lock' = r /\ Enter(r, "look")
    /\ UNCHANGED <<made, hidden, blocks, news, failed, events>>

LookUpPair(r) ==
    /\ req[r].op = "look"
    /\ Enter(r, IF made = 1 THEN "show" ELSE "insert")
    /\ UNCHANGED <<made, hidden, blocks, news, lock, failed, events>>

\* It is hidden from the other until there is a message.
CreateDirectConversation(r) ==
    /\ req[r].op = "insert"
    /\ IF made = 1 THEN failed' = TRUE /\ UNCHANGED <<made, hidden>>
       ELSE made' = 1 /\ hidden' = Users \ {req[r].by} /\ UNCHANGED failed
    /\ lock' = None /\ Answer(r)
    /\ UNCHANGED <<blocks, news, events>>

ShowDirectConversation(r) ==
    /\ req[r].op = "show"
    /\ hidden' = hidden \ {req[r].by}
    /\ lock' = None /\ Answer(r)
    /\ UNCHANGED <<made, blocks, news, failed, events>>

HideDirectConversation(r, u) ==
    /\ Begin(r) /\ made = 1
    /\ hidden' = hidden \cup {u} /\ news' = news \ {u}
    /\ UNCHANGED <<made, blocks, lock, req, failed>>

(***************************************************************************)
(* A message: access, the row, and then the list of both.  The last step   *)
(* may fail, which is only logged.                                         *)
(***************************************************************************)
SendMessage(r, u) ==
    /\ Begin(r) /\ DirectConversationAccess(u)
    /\ req' = [req EXCEPT ![r] = [op |-> "send", by |-> u]]
    /\ UNCHANGED <<made, hidden, blocks, news, lock, failed>>

\* Variant: the conversation is shown first.
InsertMessageLast(r) ==
    /\ \/ req[r].op = "send" /\ hidden' = {} /\ Enter(r, "reopen") /\ UNCHANGED news
       \/ req[r].op = "reopen" /\ news' = Users /\ Answer(r) /\ UNCHANGED hidden
    /\ UNCHANGED <<made, blocks, lock, failed, events>>

InsertMessage(r) ==
    /\ \/ req[r].op = "send" /\ news' = Users /\ Enter(r, "reopen") /\ UNCHANGED hidden
       \/ req[r].op = "reopen" /\ hidden' = {} /\ Answer(r) /\ UNCHANGED news
    /\ UNCHANGED <<made, blocks, lock, failed, events>>

ShowFails(r) ==
    /\ req[r].op = "reopen" /\ Answer(r)
    /\ news' = {}
    /\ UNCHANGED <<made, hidden, blocks, lock, failed, events>>

(***************************************************************************)
(* Blocks.                                                                 *)
(***************************************************************************)
BlockUser(r, u) ==
    /\ Begin(r)
    /\ blocks' = blocks \cup {u}
    /\ hidden' = IF made = 1 THEN Users ELSE hidden
    /\ news' = {}
    /\ UNCHANGED <<made, lock, req, failed>>

UnblockUser(r, u) ==
    /\ Begin(r) /\ u \in blocks
    /\ blocks' = blocks \ {u}
    /\ UNCHANGED <<made, hidden, news, lock, req, failed>>

Next ==
    \E r \in Requests :
        \/ LockPair(r) \/ LookUpPair(r) \/ CreateDirectConversation(r)
        \/ ShowDirectConversation(r) \/ InsertMessage(r) \/ ShowFails(r)
        \/ \E u \in Users :
              \/ OpenDirectConversation(r, u) \/ HideDirectConversation(r, u)
              \/ SendMessage(r, u) \/ BlockUser(r, u) \/ UnblockUser(r, u)

Spec == Init /\ [][Next]_vars

(***************************************************************************)
(* Properties.                                                             *)
(***************************************************************************)
\* Two users who open their conversation at the same time both get it: the
\* unique constraint on the pair never refuses one of them.
OpensSucceed == ~failed

\* A new message brings the conversation back to the lists of both, also if one
\* of them hides it while the message is being sent.
NewsIsListed ==
    (\A r \in Requests : req[r].op # "reopen") => \A u \in news : u \notin hidden

\* A conversation that is hidden comes back by a message or because its own
\* user opened it.
ReappearsForACauseStep ==
    \A u \in hidden \ hidden' : \E r \in Requests :
      req[r].op = "reopen" \/ (req[r].op = "show" /\ req[r].by = u)
ReappearsForACause == [][ReappearsForACauseStep]_vars

\* What a list shows can be opened, and its events reach the user.
ListedIsReadable ==
    \A u \in Users : ListDirectConversations(u)
        => DirectConversationAccess(u) /\ u \in DirectConversationReaders

\* What a comment says and the model refutes: a block hides the conversation from
\* both, "ao bloquear, qualquer DM existente entre os usuários é escondida para
\* ambos" (a message or an opening that passed the check of blocks before shows it
\* again).
BlockedIsHidden == made = 1 /\ UsersBlocked => hidden = Users
=============================================================================
