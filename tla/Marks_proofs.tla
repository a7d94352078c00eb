----------------------------- MODULE Marks_proofs -----------------------------
(***************************************************************************)
(* Proofs about Marks, for any number of users, messages and emojis and    *)
(* any limits: the advisory locks keep the pins of a channel and the types *)
(* of reactions of a message within their limits, and readers know of a    *)
(* message whose requests came one after the other what the rows say.      *)
(***************************************************************************)
EXTENDS Marks, FiniteSetTheorems, TLAPS

USE MarksAssumption

-----------------------------------------------------------------------------
(***************************************************************************)
(* The inductive invariant.                                                *)
(***************************************************************************)
Serves(u, m) == req[u].at # "idle" /\ req[u].message = m

\* What a request is about, and the steps it has.
Shaped(q) ==
    /\ q.at # "idle" /\ q.op \in {"pin", "unpin"} =>
           q.message \in Messages /\ q.at \in {"lock", "look", "insert", "remove", "tell"}
    /\ q.op \in {"react", "unreact"} =>
           /\ q.message \in Messages /\ q.emoji \in Emojis
           /\ q.at \in {"lock", "look", "insert", "remove", "count", "tell"}
    /\ q.op = "emoji" => q.at = "store" /\ q.message = None
RequestsAreShaped == \A u \in Users : Shaped(req[u])

\* Whoever has looked at the rows holds the lock until the end of its transaction.
LocksAreHeld ==
    \A u \in Users : req[u].at \in {"look", "insert"} =>
        \/ req[u].op = "pin" /\ lock["channel"] = u
        \/ req[u].op = "react" /\ lock[req[u].message] = u

\* What was counted under the lock still fits.
PinsFit ==
    \A u \in Users : At(u, "pin", "insert") =>
        Cardinality(pinned \cup {req[u].message}) <= MaxPins
TypesFit ==
    \A u \in Users, m \in Messages, e \in Emojis :
        At(u, "react", "insert") /\ req[u].message = m /\ req[u].emoji = e =>
            <<m, u, e>> \notin reacted /\ Cardinality(Types(m) \cup {e}) <= MaxTypes

\* Nobody speaks of an emoji before it is created.
FreeAreUnknown ==
    \A e \in Customs : emoji[e] = "free" =>
        /\ \A m \in Messages : countShown[m][e] = 0
        /\ \A u \in Users : req[u].emoji # e

OneByOne ==
    \A m \in live \ unsure, u \in Users, w \in Users : Serves(u, m) /\ Serves(w, m) => u = w

\* Either readers know whether a message is pinned, or somebody is about to tell them.
TellsPin(u, m) == req[u].at = "tell" /\ req[u].op \in {"pin", "unpin"} /\ req[u].message = m
PinKnown(m) ==
    /\ \A u \in Users : TellsPin(u, m) => (m \in pinned <=> req[u].op = "pin")
    /\ (\A u \in Users : ~TellsPin(u, m)) => (m \in pinShown <=> m \in pinned)
PinsKnown == \A m \in live \ unsure : PinKnown(m)

\* The same of the number of reactions.
TellsCount(u, m, e) ==
    /\ req[u].op \in {"react", "unreact"} /\ req[u].at \in {"count", "tell"}
    /\ req[u].message = m /\ req[u].emoji = e
CountKnown(m, e) ==
    /\ \A u \in Users : TellsCount(u, m, e) /\ req[u].at = "tell" => req[u].count = Count(m, e)
    /\ (\A u \in Users : ~TellsCount(u, m, e)) => countShown[m][e] = Count(m, e)
CountsKnown == \A m \in live \ unsure, e \in Emojis : Exists(e) => CountKnown(m, e)

IInv ==
    /\ TypeOK
    /\ RequestsAreShaped
    /\ LocksAreHeld
    /\ PinsFit /\ PinsWithinLimit
    /\ TypesFit /\ TypesWithinLimit
    /\ FreeAreUnknown
    /\ OneByOne
    /\ PinsKnown
    /\ CountsKnown

-----------------------------------------------------------------------------
(***************************************************************************)
(* Constants and counts.                                                   *)
(***************************************************************************)
LEMMA Constants ==
    /\ IsFiniteSet(Users) /\ IsFiniteSet(Messages) /\ IsFiniteSet(Emojis)
    /\ MaxPins \in Nat /\ MaxTypes \in Nat /\ MaxEmojis \in Nat /\ MaxEvents \in Nat
    /\ None \notin Users /\ None \notin Messages /\ None \notin Emojis
    /\ "channel" \notin Messages /\ Customs \subseteq Emojis
    /\ Cardinality(Users) \in Nat
<1>1. Cardinality(Users) \in Nat
  BY FS_CardinalityType DEF Assumptions
<1>2. QED
  BY <1>1 DEF Assumptions, Emojis

Who(m, e) == {u \in Users : <<m, u, e>> \in reacted}

\* A count is of users, and positive if somebody reacted.
LEMMA CountIs ==
    ASSUME NEW m, NEW e
    PROVE  /\ IsFiniteSet(Who(m, e)) /\ Count(m, e) = Cardinality(Who(m, e))
           /\ Count(m, e) \in 0 .. Cardinality(Users)
           /\ Count(m, e) > 0 <=> \E u \in Users : <<m, u, e>> \in reacted
<1>1. IsFiniteSet(Who(m, e)) /\ Cardinality(Who(m, e)) <= Cardinality(Users)
  BY Constants, FS_Subset DEF Who
<1>2. Cardinality(Who(m, e)) \in Nat /\ (Cardinality(Who(m, e)) = 0 <=> Who(m, e) = {})
  BY <1>1, FS_CardinalityType, FS_EmptySet
<1>3. Count(m, e) = Cardinality(Who(m, e))
  BY DEF Count, Who
<1>4. Who(m, e) # {} <=> \E u \in Users : <<m, u, e>> \in reacted
  BY DEF Who
<1>5. QED
  BY <1>1, <1>2, <1>3, <1>4, Constants

LEMMA SomeAreCounted ==
    ASSUME NEW S \in SUBSET Users
    PROVE  Cardinality(S) > 0 <=> \E u \in Users : u \in S
<1>1. IsFiniteSet(S)
  BY Constants, FS_Subset
<1>2. Cardinality(S) \in Nat /\ (Cardinality(S) = 0 <=> S = {})
  BY <1>1, FS_CardinalityType, FS_EmptySet
<1>3. QED
  BY <1>2

LEMMA TypesAre ==
    ASSUME NEW m
    PROVE  /\ Types(m) = {e \in Emojis : \E u \in Users : <<m, u, e>> \in reacted}
           /\ Types(m)' = {e \in Emojis : \E u \in Users : <<m, u, e>> \in reacted'}
           /\ IsFiniteSet(Types(m)) /\ Cardinality(Types(m)) \in Nat
<1>1. Types(m) = {e \in Emojis : \E u \in Users : <<m, u, e>> \in reacted}
  BY CountIs DEF Types
<1>2. \A e : Cardinality({u \in Users : <<m, u, e>> \in reacted'}) > 0
                 <=> \E u \in Users : <<m, u, e>> \in reacted'
  <2>1. SUFFICES ASSUME NEW e
                 PROVE  Cardinality({u \in Users : <<m, u, e>> \in reacted'}) > 0
                            <=> \E u \in Users : <<m, u, e>> \in reacted'
    OBVIOUS
  <2> DEFINE S == {u \in Users : <<m, u, e>> \in reacted'}
  <2>2. S \in SUBSET Users /\ \A u \in Users : u \in S <=> <<m, u, e>> \in reacted'
    OBVIOUS
  <2> HIDE DEF S
  <2>3. Cardinality(S) > 0 <=> \E u \in Users : <<m, u, e>> \in reacted'
    BY <2>2, SomeAreCounted
  <2>4. QED
    BY <2>3 DEF S
<1>3. Types(m)' = {e \in Emojis : \E u \in Users : <<m, u, e>> \in reacted'}
  BY <1>2 DEF Types, Count
<1>4. IsFiniteSet(Types(m)) /\ Cardinality(Types(m)) \in Nat
  BY <1>1, Constants, FS_Subset, FS_CardinalityType
<1>5. QED
  BY <1>1, <1>3, <1>4

\* A count changes with the rows of its message and its emoji only.
LEMMA CountStays ==
    ASSUME NEW m, NEW e, \A u \in Users : <<m, u, e>> \in reacted' <=> <<m, u, e>> \in reacted
    PROVE  Count(m, e)' = Count(m, e)
<1>1. {u \in Users : <<m, u, e>> \in reacted'} = {u \in Users : <<m, u, e>> \in reacted}
  OBVIOUS
<1>2. QED
  BY <1>1 DEF Count

\* A set within a limit keeps to it when it shrinks.
LEMMA Shrinks ==
    ASSUME NEW S, IsFiniteSet(S), NEW T \in SUBSET S, NEW n \in Nat, Cardinality(S) <= n
    PROVE  Cardinality(T) <= n
<1>1. Cardinality(T) <= Cardinality(S) /\ Cardinality(S) \in Nat /\ Cardinality(T) \in Nat
  BY FS_Subset, FS_CardinalityType
<1>2. QED
  BY <1>1

LEMMA Grows ==
    ASSUME NEW S, IsFiniteSet(S), NEW x, NEW n \in Nat,
           (x \in S /\ Cardinality(S) <= n) \/ Cardinality(S) < n
    PROVE  Cardinality(S \cup {x}) <= n
<1>1. /\ Cardinality(S) \in Nat
      /\ Cardinality(S \cup {x}) = IF x \in S THEN Cardinality(S) ELSE Cardinality(S) + 1
  BY FS_CardinalityType, FS_AddElement
<1>2. QED
  BY <1>1

-----------------------------------------------------------------------------
(***************************************************************************)
(* Typing, and what a step of a user does to the requests and the locks.   *)
(***************************************************************************)
USE DEF rowVars, shownVars

Steps == {"idle", "lock", "look", "insert", "remove", "count", "tell", "store"}

LEMMA RequestTyped ==
    ASSUME TypeOK
    PROVE  /\ req \in [Users -> Request] /\ Idle \in Request /\ Shaped(Idle)
           /\ lock \in [Keys -> Users \cup {None}]
BY Constants DEF TypeOK, Request, Idle, Shaped

LEMMA RequestFields ==
    ASSUME NEW q \in Request, NEW at \in Steps, NEW n \in 0 .. Cardinality(Users)
    PROVE  /\ [q EXCEPT !.at = at] \in Request /\ [q EXCEPT !.at = at].at = at
           /\ [q EXCEPT !.at = at].op = q.op /\ [q EXCEPT !.at = at].message = q.message
           /\ [q EXCEPT !.at = at].emoji = q.emoji
           /\ [q EXCEPT !.count = n, !.at = at] \in Request
           /\ [q EXCEPT !.count = n, !.at = at].at = at
           /\ [q EXCEPT !.count = n, !.at = at].op = q.op
           /\ [q EXCEPT !.count = n, !.at = at].message = q.message
           /\ [q EXCEPT !.count = n, !.at = at].emoji = q.emoji
BY DEF Request, Steps

\* What a handler begins.
Begun(q) ==
    /\ q \in Request /\ Shaped(q) /\ q.at \in {"lock", "remove", "store"}
    /\ q.message # None => q.message \in live
    /\ q.emoji # None => q.emoji \in Emojis /\ Exists(q.emoji)

Begins(u, q) ==
    /\ req[u].at = "idle" /\ events < MaxEvents /\ events' = events + 1
    /\ req' = [req EXCEPT ![u] = q]
    /\ unsure' = IF q.message # None /\ Busy(q.message) THEN unsure \cup {q.message} ELSE unsure
    /\ UNCHANGED <<rowVars, lock, shownVars>>

LEMMA HandlerBegins ==
    ASSUME TypeOK, NEW u \in Users, Handler(u)
    PROVE  \E q : Begun(q) /\ Begins(u, q)
<1>1. ASSUME NEW step \in Steps, NEW op \in {"pin", "unpin", "react", "unreact", "emoji"},
             NEW m \in live \cup {None}, NEW e \in Emojis \cup {None},
             Begin(u, step, op, m, e), e # None => Exists(e),
             Shaped([at |-> step, op |-> op, message |-> m, emoji |-> e, count |-> 0]),
             step \in {"lock", "remove", "store"}
      PROVE  \E q : Begun(q) /\ Begins(u, q)
  <2> DEFINE q == [at |-> step, op |-> op, message |-> m, emoji |-> e, count |-> 0]
  <2>1. q \in Request
    BY Constants DEF TypeOK, Request, Steps
  <2>2. /\ q.at = step /\ q.message = m /\ q.emoji = e /\ Shaped(q)
        /\ req[u].at = "idle" /\ events < MaxEvents /\ events' = events + 1
        /\ req' = [req EXCEPT ![u] = q]
        /\ unsure' = IF m # None /\ Busy(m) THEN unsure \cup {m} ELSE unsure
        /\ UNCHANGED <<rowVars, lock, shownVars>>
    BY <1>1 DEF Begin
  <2> HIDE DEF q
  <2>3. Begun(q) /\ Begins(u, q)
    BY <1>1, <2>1, <2>2 DEF Begun, Begins
  <2>4. QED
    BY <2>3
<1>2. live \subseteq Messages /\ None \notin Messages
  BY Constants DEF TypeOK
<1>3. ASSUME NEW m \in Messages, PinMessageHandler(u, m) PROVE \E q : Begun(q) /\ Begins(u, q)
  <2>1. Shaped([at |-> "lock", op |-> "pin", message |-> m, emoji |-> None, count |-> 0])
    BY DEF Shaped
  <2>2. QED
    BY <1>1, <1>3, <2>1 DEF PinMessageHandler, GetChannelForMessage, Steps
<1>4. ASSUME NEW m \in Messages, UnpinMessageHandler(u, m) PROVE \E q : Begun(q) /\ Begins(u, q)
  <2>1. Shaped([at |-> "remove", op |-> "unpin", message |-> m, emoji |-> None, count |-> 0])
    BY DEF Shaped
  <2>2. QED
    BY <1>1, <1>4, <2>1 DEF UnpinMessageHandler, GetChannelForMessage, Steps
<1>5. ASSUME NEW m \in Messages, NEW e \in Emojis, AddReactionHandler(u, m, e)
      PROVE  \E q : Begun(q) /\ Begins(u, q)
  <2>1. Shaped([at |-> "lock", op |-> "react", message |-> m, emoji |-> e, count |-> 0])
    BY DEF Shaped
  <2>2. QED
    BY <1>1, <1>5, <2>1 DEF AddReactionHandler, GetChannelForMessage, Steps
<1>6. ASSUME NEW m \in Messages, NEW e \in Emojis, RemoveReactionHandler(u, m, e)
      PROVE  \E q : Begun(q) /\ Begins(u, q)
  <2>1. Shaped([at |-> "remove", op |-> "unreact", message |-> m, emoji |-> e, count |-> 0])
    BY DEF Shaped
  <2>2. QED
    BY <1>1, <1>6, <2>1 DEF RemoveReactionHandler, GetChannelForMessage, Steps
<1>7. CASE CreateEmojiHandler(u)
  <2>1. Shaped([at |-> "store", op |-> "emoji", message |-> None, emoji |-> None, count |-> 0])
    BY DEF Shaped
  <2>2. QED
    BY <1>1, <1>7, <2>1 DEF CreateEmojiHandler, Steps
<1>8. QED
  BY <1>3, <1>4, <1>5, <1>6, <1>7 DEF Handler

UserStep(u) == Handler(u) \/ RequestStep(u) \/ RequestFails(u)

\* A step of a user changes its request, to one of its kind.
LEMMA RequestMoves ==
    ASSUME TypeOK, RequestsAreShaped, TypesFit, NEW u \in Users, UserStep(u)
    PROVE  \E q \in Request : Shaped(q) /\ req' = [req EXCEPT ![u] = q]
<1>1. req[u] \in Request /\ Shaped(req[u]) /\ Idle \in Request /\ Shaped(Idle)
  BY RequestTyped DEF RequestsAreShaped
<1>2. CASE Finish(u)
  BY <1>1, <1>2 DEF Finish
<1>3. ASSUME NEW at \in Steps, Go(u, at), Shaped([req[u] EXCEPT !.at = at])
      PROVE  \E q \in Request : Shaped(q) /\ req' = [req EXCEPT ![u] = q]
  <2>1. [req[u] EXCEPT !.at = at] \in Request
    <3>1. 0 \in 0 .. Cardinality(Users)
      BY Constants
    <3>2. QED
      BY <1>1, <1>3, <3>1, RequestFields
  <2>2. req' = [req EXCEPT ![u] = [req[u] EXCEPT !.at = at]]
    BY <1>3 DEF Go
  <2>3. QED
    BY <1>3, <2>1, <2>2
<1>4. ASSUME NEW at \in Steps, NEW n \in 0 .. Cardinality(Users),
             req' = [req EXCEPT ![u].count = n, ![u].at = at],
             Shaped([req[u] EXCEPT !.count = n, !.at = at])
      PROVE  \E q \in Request : Shaped(q) /\ req' = [req EXCEPT ![u] = q]
  <2>1. [req[u] EXCEPT !.count = n, !.at = at] \in Request
    BY <1>1, <1>4, RequestFields
  <2>2. req' = [req EXCEPT ![u] = [req[u] EXCEPT !.count = n, !.at = at]]
    BY <1>4, RequestTyped
  <2>3. QED
    BY <1>4, <2>1, <2>2
<1>5. CASE Handler(u)
  BY <1>5, HandlerBegins DEF Begun, Begins
<1>6. CASE RequestFails(u) \/ TellPin(u) \/ BroadcastReactUpdate(u) \/ CreateEmoji(u)
  BY <1>2, <1>6 DEF RequestFails, TellPin, BroadcastReactUpdate, CreateEmoji
<1>7. CASE LockPin(u) \/ LockReaction(u)
  <2>1. Go(u, "look") /\ Shaped([req[u] EXCEPT !.at = "look"])
    BY <1>1, <1>7 DEF LockPin, LockReaction, At, Shaped, Request
  <2>2. QED
    BY <1>3, <2>1 DEF Steps
<1>8. CASE LookPin(u)
  <2>1. Shaped([req[u] EXCEPT !.at = "insert"])
    BY <1>1, <1>8 DEF LookPin, At, Shaped, Request
  <2>2. QED
    BY <1>2, <1>3, <1>8, <2>1 DEF LookPin, Steps
<1>9. CASE InsertPin(u) \/ UnpinMessage(u)
  <2>1. Shaped([req[u] EXCEPT !.at = "tell"])
    BY <1>1, <1>9 DEF InsertPin, UnpinMessage, At, Shaped, Request
  <2>2. QED
    BY <1>2, <1>3, <1>9, <2>1 DEF InsertPin, UnpinMessage, Steps
<1>10. ASSUME NEW n \in 0 .. Cardinality(Users), req[u].op \in {"react", "unreact"}
       PROVE  Shaped([req[u] EXCEPT !.count = n, !.at = "tell"])
  BY <1>1, <1>10 DEF Shaped, Request
<1>11. CASE LookReaction(u)
  <2>1. Shaped([req[u] EXCEPT !.at = "insert"]) /\ req[u].op \in {"react", "unreact"}
    BY <1>1, <1>11 DEF LookReaction, At, Shaped, Request
  <2>2. Count(req[u].message, req[u].emoji) \in 0 .. Cardinality(Users)
    BY CountIs
  <2>3. \/ Finish(u) \/ Go(u, "insert")
        \/ req' = [req EXCEPT ![u].count = Count(req[u].message, req[u].emoji), ![u].at = "tell"]
    BY <1>11 DEF LookReaction
  <2>4. QED
    BY <1>2, <1>3, <1>4, <1>10, <2>1, <2>2, <2>3 DEF Steps
<1>12. CASE InsertReaction(u)
  <2>1. req[u].op = "react" /\ <<req[u].message, u, req[u].emoji>> \notin reacted
    BY <1>1, <1>12 DEF InsertReaction, At, TypesFit, Shaped
  <2>2. Count(req[u].message, req[u].emoji) + 1 \in 0 .. Cardinality(Users)
    <3> DEFINE W == Who(req[u].message, req[u].emoji)
    <3>1. W \cup {u} \subseteq Users /\ u \notin W
      BY <2>1 DEF Who
    <3>2. IsFiniteSet(W) /\ Count(req[u].message, req[u].emoji) = Cardinality(W)
      BY CountIs
    <3> HIDE DEF W
    <3>3. Cardinality(W \cup {u}) = Cardinality(W) + 1 /\ Cardinality(W) \in Nat
      BY <3>1, <3>2, FS_AddElement, FS_CardinalityType
    <3>4. Cardinality(W \cup {u}) <= Cardinality(Users)
      BY <3>1, Constants, FS_Subset
    <3>5. QED
      BY <3>2, <3>3, <3>4, Constants
  <2>3. \/ Finish(u)
        \/ req' = [req EXCEPT ![u].count = Count(req[u].message, req[u].emoji) + 1, ![u].at = "tell"]
    BY <1>12 DEF InsertReaction
  <2>4. QED
    BY <1>2, <1>4, <1>10, <2>1, <2>2, <2>3 DEF Steps
<1>13. CASE RemoveReaction(u)
  <2>1. Shaped([req[u] EXCEPT !.at = "count"])
    BY <1>1, <1>13 DEF RemoveReaction, At, Shaped, Request
  <2>2. QED
    BY <1>2, <1>3, <1>13, <2>1 DEF RemoveReaction, Steps
<1>14. CASE CountReactionType(u)
  <2>1. /\ req[u].op = "unreact"
        /\ req' = [req EXCEPT ![u].count = Count(req[u].message, req[u].emoji), ![u].at = "tell"]
    BY <1>14 DEF CountReactionType, At
  <2>2. QED
    BY <1>4, <1>10, <2>1, CountIs DEF Steps
<1>15. QED
  BY <1>5, <1>6, <1>7, <1>8, <1>9, <1>11, <1>12, <1>13, <1>14
     DEF UserStep, RequestStep, PinMessage, AddReaction

\* Only the requests of the user move, each to one of its kind.
LEMMA RequestsMove ==
    ASSUME TypeOK, RequestsAreShaped, TypesFit, NEW u \in Users, UserStep(u)
    PROVE  /\ req' \in [Users -> Request] /\ \A w \in Users : Shaped(req'[w])
           /\ \A w \in Users \ {u} : req'[w] = req[w]
<1>1. PICK q \in Request : Shaped(q) /\ req' = [req EXCEPT ![u] = q]
  BY RequestMoves
<1>2. QED
  BY <1>1, RequestTyped DEF RequestsAreShaped

\* Nobody takes a lock from its holder.
LEMMA LocksMove ==
    ASSUME TypeOK, RequestsAreShaped, NEW u \in Users, UserStep(u)
    PROVE  /\ lock' \in [Keys -> Users \cup {None}]
           /\ \A k \in Keys, w \in Users \ {u} : lock[k] = w => lock'[k] = w
<1>1. lock \in [Keys -> Users \cup {None}]
  BY RequestTyped
<1>2. CASE Release(u)
  BY <1>1, <1>2 DEF Release
<1>3. CASE lock' = lock
  BY <1>1, <1>3
<1>4. CASE LockPin(u)
  <2>1. lock' = [lock EXCEPT !["channel"] = u] /\ lock["channel"] = None /\ "channel" \in Keys
    BY <1>4 DEF LockPin, Keys
  <2>2. QED
    BY <1>1, <2>1, Constants
<1>5. CASE LockReaction(u)
  <2>1. req[u].op = "react" /\ Shaped(req[u])
    BY <1>5 DEF LockReaction, At, RequestsAreShaped
  <2>2. req[u].message \in Keys
    BY <2>1 DEF Shaped, Keys
  <2>3. lock' = [lock EXCEPT ![req[u].message] = u] /\ lock[req[u].message] = None
    BY <1>5 DEF LockReaction
  <2>4. QED
    BY <1>1, <2>2, <2>3, Constants
<1>6. CASE Handler(u)
  BY <1>3, <1>6, HandlerBegins DEF Begins
<1>7. QED
  BY <1>2, <1>3, <1>4, <1>5, <1>6
     DEF UserStep, RequestStep, PinMessage, AddReaction, LookPin, InsertPin, UnpinMessage, TellPin,
         LookReaction, InsertReaction, RemoveReaction, CountReactionType, BroadcastReactUpdate,
         CreateEmoji, RequestFails

\* The rows: what there is of them, and how they change.
Rows ==
    /\ live \subseteq Messages /\ emoji \in [Customs -> {"free", "live", "gone"}]
    /\ pinned \subseteq live
    /\ reacted \subseteq live \X Users \X Emojis
    /\ \A row \in reacted : row[3] \in Customs => emoji[row[3]] = "live"

LEMMA RowsMove ==
    ASSUME TypeOK, RequestsAreShaped, [Next]_vars
    PROVE  /\ Rows' /\ live' \subseteq live
           /\ \/ pinned' \subseteq pinned
              \/ \E u \in Users : InsertPin(u) /\ pinned' = pinned \cup {req[u].message}
           /\ \/ reacted' \subseteq reacted
              \/ \E u \in Users :
                    /\ InsertReaction(u)
                    /\ reacted' = reacted \cup {<<req[u].message, u, req[u].emoji>>}
           /\ \A e \in Customs : emoji'[e] = "free" => emoji[e] = "free"
<1>1. Rows
  BY DEF TypeOK, Rows
<1>2. CASE UNCHANGED rowVars
  BY <1>1, <1>2 DEF Rows
<1>3. ASSUME NEW u \in Users, InsertPin(u)
      PROVE  /\ UNCHANGED <<live, emoji, reacted>>
             /\ Rows' /\ (pinned' = pinned \/ pinned' = pinned \cup {req[u].message})
  BY <1>1, <1>3 DEF InsertPin, Rows
<1>4. ASSUME NEW u \in Users, UnpinMessage(u)
      PROVE  UNCHANGED <<live, emoji, reacted>> /\ Rows' /\ pinned' \subseteq pinned
  BY <1>1, <1>4 DEF UnpinMessage, Rows
<1>5. ASSUME NEW u \in Users, InsertReaction(u)
      PROVE  /\ UNCHANGED <<live, emoji, pinned>> /\ Rows'
             /\ \/ reacted' = reacted
                \/ reacted' = reacted \cup {<<req[u].message, u, req[u].emoji>>}
  <2> DEFINE m == req[u].message
             e == req[u].emoji
  <2>1. Shaped(req[u]) /\ req[u].op = "react"
    BY <1>5 DEF InsertReaction, At, RequestsAreShaped
  <2>2. e \in Emojis
    BY <2>1 DEF Shaped
  <2>3. UNCHANGED <<live, emoji, pinned>>
    BY <1>5 DEF InsertReaction
  <2>4. CASE m \in live /\ Exists(e)
    <3>1. reacted' = reacted \cup {<<m, u, e>>}
      BY <1>5, <2>4 DEF InsertReaction
    <3>2. <<m, u, e>> \in live \X Users \X Emojis /\ <<m, u, e>>[3] = e
      BY <2>2, <2>4
    <3>3. e \in Customs => emoji[e] = "live"
      BY <2>4 DEF Exists
    <3> HIDE DEF m, e
    <3>4. Rows'
      BY <1>1, <2>3, <3>1, <3>2, <3>3 DEF Rows
    <3>5. QED
      BY <2>3, <3>1, <3>4 DEF m, e
  <2>5. CASE ~(m \in live /\ Exists(e))
    BY <1>1, <1>5, <2>3, <2>5 DEF InsertReaction, Rows
  <2>6. QED
    BY <2>4, <2>5
<1>6. ASSUME NEW u \in Users, RemoveReaction(u)
      PROVE  UNCHANGED <<live, emoji, pinned>> /\ Rows' /\ reacted' \subseteq reacted
  BY <1>1, <1>6 DEF RemoveReaction, Rows
<1>7. ASSUME NEW u \in Users, CreateEmoji(u)
      PROVE  /\ UNCHANGED <<live, pinned, reacted>> /\ Rows'
             /\ \A e \in Customs : emoji'[e] = "free" => emoji[e] = "free"
  BY <1>1, <1>7 DEF CreateEmoji, Rows
<1>8. ASSUME NEW d \in Customs, DeleteEmojiHandler(d)
      PROVE  /\ UNCHANGED <<live, pinned>> /\ Rows' /\ reacted' \subseteq reacted
             /\ \A e \in Customs : emoji'[e] = "free" => emoji[e] = "free"
  BY <1>1, <1>8 DEF DeleteEmojiHandler, DeleteEmoji, Rows
<1>9. ASSUME NEW d \in Messages, DeleteMessage(d)
      PROVE  /\ emoji' = emoji /\ Rows' /\ live' \subseteq live
             /\ pinned' \subseteq pinned /\ reacted' \subseteq reacted
  <2>1. /\ emoji' = emoji /\ live' = live \ {d} /\ pinned' = pinned \ {d}
        /\ reacted' = {r \in reacted : r[1] # d}
    BY <1>9 DEF DeleteMessage
  <2>2. reacted' \subseteq live' \X Users \X Emojis
    <3>1. SUFFICES ASSUME NEW r \in reacted, r[1] # d PROVE r \in (live \ {d}) \X Users \X Emojis
      BY <2>1
    <3>2. r \in live \X Users \X Emojis
      BY <1>1 DEF Rows
    <3>3. QED
      BY <3>1, <3>2
  <2>3. QED
    BY <1>1, <2>1, <2>2 DEF Rows
<1>10. ASSUME NEW u \in Users, Handler(u) PROVE UNCHANGED rowVars
  BY <1>10, HandlerBegins DEF Begins
<1>11. ASSUME NEW u \in Users, UserStep(u)
       PROVE  \/ UNCHANGED rowVars \/ InsertPin(u) \/ UnpinMessage(u) \/ InsertReaction(u)
              \/ RemoveReaction(u) \/ CreateEmoji(u)
  BY <1>10, <1>11
     DEF UserStep, RequestStep, PinMessage, AddReaction, LockPin, LookPin, TellPin, LockReaction,
         LookReaction, CountReactionType, BroadcastReactUpdate, RequestFails
<1>12. CASE UNCHANGED vars
  BY <1>2, <1>12 DEF vars
<1>13. CASE \E u \in Users : UserStep(u)
  BY <1>2, <1>3, <1>4, <1>5, <1>6, <1>7, <1>11, <1>13
<1>14. QED
  BY <1>8, <1>9, <1>12, <1>13 DEF Next, UserStep

ShownTyped ==
    /\ pinShown \subseteq Messages /\ unsure \subseteq Messages /\ events \in 0 .. MaxEvents
    /\ countShown \in [Messages -> [Emojis -> 0 .. Cardinality(Users)]]

LEMMA TypeStep ==
    ASSUME TypeOK, RequestsAreShaped, TypesFit, [Next]_vars
    PROVE  TypeOK' /\ RequestsAreShaped'
<1>1. Rows'
  BY RowsMove
<1>2. /\ req' \in [Users -> Request] /\ lock' \in [Keys -> Users \cup {None}]
      /\ RequestsAreShaped'
  <2>1. CASE \E u \in Users : UserStep(u)
    BY <2>1, RequestsMove, LocksMove DEF RequestsAreShaped
  <2>2. CASE UNCHANGED <<req, lock>>
    BY <2>2, RequestTyped DEF RequestsAreShaped
  <2>3. QED
    BY <2>1, <2>2 DEF Next, UserStep, DeleteEmojiHandler, DeleteMessage, vars
<1>3. ShownTyped'
  <2> USE DEF ShownTyped
  <2>1. /\ pinShown \subseteq Messages /\ unsure \subseteq Messages /\ events \in 0 .. MaxEvents
        /\ countShown \in [Messages -> [Emojis -> 0 .. Cardinality(Users)]] /\ live \subseteq Messages
    BY DEF TypeOK
  <2>2. Event => events' \in 0 .. MaxEvents
    BY <2>1, Constants DEF Event
  <2>3. CASE UNCHANGED <<shownVars, unsure>> /\ (events' = events \/ Event)
    BY <2>1, <2>2, <2>3
  <2>4. ASSUME NEW u \in Users, Handler(u)
               PROVE  ShownTyped'
    <3>1. PICK q : Begun(q) /\ Begins(u, q)
      BY <2>4, HandlerBegins
    <3>2. /\ Event /\ UNCHANGED shownVars
          /\ unsure' = unsure \/ (unsure' = unsure \cup {q.message} /\ q.message # None)
      BY <3>1 DEF Begins, Event
    <3>3. q.message # None => q.message \in Messages
      BY <2>1, <3>1 DEF Begun
    <3>4. QED
      BY <2>1, <2>2, <3>2, <3>3
  <2>5. ASSUME NEW u \in Users, TellPin(u), events' = events
               PROVE  ShownTyped'
    <3>1. req[u].at = "tell" /\ req[u].op \in {"pin", "unpin"} /\ Shaped(req[u])
      BY <2>5 DEF TellPin, RequestsAreShaped
    <3>2. req[u].message \in Messages
      BY <3>1 DEF Shaped
    <3>3. /\ UNCHANGED <<countShown, unsure>>
          /\ pinShown' = pinShown \cup {req[u].message} \/ pinShown' = pinShown \ {req[u].message}
      BY <2>5 DEF TellPin
    <3>4. QED
      BY <2>1, <2>5, <3>2, <3>3
  <2>6. ASSUME NEW u \in Users, BroadcastReactUpdate(u), events' = events
               PROVE  ShownTyped'
    <3>1. req[u].op \in {"react", "unreact"} /\ Shaped(req[u])
      BY <2>6 DEF BroadcastReactUpdate, RequestsAreShaped
    <3>2. /\ req[u].message \in Messages /\ req[u].emoji \in Emojis
          /\ req[u].count \in 0 .. Cardinality(Users)
      BY <3>1, RequestTyped DEF Shaped, Request
    <3>3. /\ UNCHANGED <<pinShown, unsure>>
          /\ countShown' = [countShown EXCEPT ![req[u].message][req[u].emoji] = req[u].count]
      BY <2>6 DEF BroadcastReactUpdate
    <3>4. QED
      BY <2>1, <2>6, <3>2, <3>3
  <2>7. ASSUME NEW u \in Users, RequestFails(u)
               PROVE  ShownTyped'
    <3>1. Shaped(req[u])
      BY DEF RequestsAreShaped
    <3>2. req[u].at \in {"count", "tell"} => req[u].message \in Messages
      <4>1. req[u].op \in {"pin", "unpin", "react", "unreact", "emoji"}
        BY RequestTyped DEF Request
      <4>2. QED
        BY <3>1, <4>1 DEF Shaped
    <3>3. Event /\ UNCHANGED shownVars /\ (unsure' = unsure \/ (req[u].at \in {"count", "tell"}
              /\ unsure' = unsure \cup {req[u].message}))
      BY <2>7 DEF RequestFails
    <3>4. QED
      BY <2>1, <2>2, <3>2, <3>3
  <2>8. CASE UNCHANGED vars
    BY <2>3, <2>8 DEF vars
  <2>9. CASE \/ \E e \in Customs : DeleteEmojiHandler(e)
             \/ \E m \in Messages : DeleteMessage(m)
    BY <2>3, <2>9 DEF DeleteEmojiHandler, DeleteMessage
  <2>10. ASSUME NEW u \in Users, RequestStep(u)
               PROVE  ShownTyped'
    <3>1. events' = events
      BY <2>10 DEF RequestStep
    <3>2. TellPin(u) \/ BroadcastReactUpdate(u) \/ UNCHANGED <<shownVars, unsure>>
      BY <2>10
         DEF RequestStep, PinMessage, AddReaction, LockPin, LookPin, InsertPin, UnpinMessage,
             LockReaction, LookReaction, InsertReaction, RemoveReaction, CountReactionType, CreateEmoji
    <3>3. QED
      BY <2>3, <2>5, <2>6, <3>1, <3>2
  <2>11. QED
    BY <2>4, <2>7, <2>8, <2>9, <2>10 DEF Next
<1>4. QED
  BY <1>1, <1>2, <1>3 DEF TypeOK, Rows, ShownTyped

-----------------------------------------------------------------------------
(***************************************************************************)
(* The limits.                                                             *)
(***************************************************************************)
\* Who looks at the rows, or is about to insert one, did so before or just took
\* the lock; and who inserts one for the first time has just looked.
LEMMA LooksFrom ==
    ASSUME TypeOK, RequestsAreShaped, TypesFit, [Next]_vars, NEW w \in Users
    PROVE  /\ req'[w].at \in {"look", "insert"} =>
                 req'[w] = req[w] \/ LockPin(w) \/ LockReaction(w) \/ LookPin(w) \/ LookReaction(w)
           /\ req'[w].at = "insert" => req'[w] = req[w] \/ LookPin(w) \/ LookReaction(w)
<1>1. req \in [Users -> Request]
  BY RequestTyped
<1>2. ASSUME NEW u \in Users, UserStep(u), u # w PROVE req'[w] = req[w]
  BY <1>2, RequestsMove
<1>3. CASE Handler(w)
  <2>1. PICK q : Begun(q) /\ Begins(w, q)
    BY <1>3, HandlerBegins
  <2>2. req'[w].at \in {"lock", "remove", "store"}
    BY <1>1, <2>1 DEF Begun, Begins
  <2>3. QED
    BY <2>2
<1>4. CASE \/ RequestFails(w) \/ UnpinMessage(w) \/ InsertPin(w) \/ TellPin(w) \/ InsertReaction(w)
           \/ RemoveReaction(w) \/ CountReactionType(w) \/ BroadcastReactUpdate(w) \/ CreateEmoji(w)
  <2>1. req'[w].at \in {"idle", "tell", "count"}
    BY <1>1, <1>4
       DEF RequestFails, UnpinMessage, InsertPin, TellPin, InsertReaction, RemoveReaction,
           CountReactionType, BroadcastReactUpdate, CreateEmoji, Finish, Go, Idle, Request
  <2>2. QED
    BY <2>1
<1>5. CASE LockPin(w) \/ LockReaction(w)
  <2>1. req'[w].at = "look"
    BY <1>1, <1>5 DEF LockPin, LockReaction, Go, Request
  <2>2. QED
    BY <1>5, <2>1
<1>6. CASE req' = req
  BY <1>6
<1>7. QED
  BY <1>2, <1>3, <1>4, <1>5, <1>6
     DEF Next, UserStep, RequestStep, PinMessage, AddReaction, DeleteEmojiHandler, DeleteMessage, vars

LEMMA LocksStep ==
    ASSUME TypeOK, RequestsAreShaped, TypesFit, LocksAreHeld, [Next]_vars
    PROVE  LocksAreHeld'
<1>1. /\ req \in [Users -> Request] /\ lock \in [Keys -> Users \cup {None}] /\ "channel" \in Keys
      /\ \A u \in Users : req[u].op = "react" => req[u].message \in Keys
  BY RequestTyped DEF RequestsAreShaped, Shaped, Keys
<1> SUFFICES ASSUME NEW w \in Users, req'[w].at \in {"look", "insert"}
             PROVE  \/ req'[w].op = "pin" /\ lock'["channel"] = w
                    \/ req'[w].op = "react" /\ lock'[req'[w].message] = w
  BY DEF LocksAreHeld
<1>2. CASE LockPin(w)
  BY <1>1, <1>2 DEF LockPin, At, Go, Request
<1>3. CASE LockReaction(w)
  BY <1>1, <1>3 DEF LockReaction, At, Go, Request
<1>4. CASE LookPin(w)
  <2>1. req[w].op = "pin" /\ lock["channel"] = w
    BY <1>4 DEF LookPin, At, LocksAreHeld
  <2>2. Go(w, "insert") /\ lock' = lock
    BY <1>1, <1>4 DEF LookPin, Finish, Idle
  <2>3. QED
    BY <1>1, <2>1, <2>2 DEF Go, Request
<1>5. CASE LookReaction(w)
  <2>1. req[w].op = "react" /\ lock[req[w].message] = w
    BY <1>5 DEF LookReaction, At, LocksAreHeld
  <2>2. Go(w, "insert") /\ lock' = lock
    BY <1>1, <1>5 DEF LookReaction, Finish, Idle, Request
  <2>3. QED
    BY <1>1, <2>1, <2>2 DEF Go, Request
<1>6. ASSUME req'[w] = req[w], NEW u \in Users, UserStep(u), u # w
      PROVE  \/ req'[w].op = "pin" /\ lock'["channel"] = w
             \/ req'[w].op = "react" /\ lock'[req'[w].message] = w
  BY <1>1, <1>6, LocksMove DEF LocksAreHeld
<1>7. CASE req'[w] = req[w] /\ lock' = lock
  BY <1>7 DEF LocksAreHeld
<1>8. ASSUME UserStep(w), req'[w] = req[w] PROVE lock' = lock
  <2>1. req[w].at \in {"look", "insert"}
    BY <1>8
  <2>2. ~Handler(w)
    <3>1. SUFFICES ASSUME Handler(w) PROVE FALSE
      OBVIOUS
    <3>2. PICK q : Begins(w, q)
      BY <3>1, HandlerBegins
    <3>3. QED
      BY <2>1, <3>2 DEF Begins
  <2>3. ~RequestFails(w)
    BY <1>1, <2>1, <1>8 DEF RequestFails, Finish, Idle
  <2>4. QED
    BY <1>1, <1>8, <2>1, <2>2, <2>3
       DEF UserStep, RequestStep, PinMessage, AddReaction, LockPin, LookPin, InsertPin, UnpinMessage,
           TellPin, LockReaction, LookReaction, InsertReaction, RemoveReaction, CountReactionType,
           BroadcastReactUpdate, CreateEmoji, At, Finish, Go, Idle, Request
<1>9. CASE req'[w] = req[w]
  <2>1. CASE \E u \in Users : UserStep(u)
    BY <1>6, <1>7, <1>8, <1>9, <2>1
  <2>2. CASE lock' = lock
    BY <1>7, <1>9, <2>2
  <2>3. QED
    BY <2>1, <2>2 DEF Next, UserStep, DeleteEmojiHandler, DeleteMessage, vars
<1>10. QED
  BY <1>2, <1>3, <1>4, <1>5, <1>9, LooksFrom

\* The number of pins: one user inserts at a time, as it counted.
LEMMA PinsStep ==
    ASSUME TypeOK, RequestsAreShaped, TypesFit, LocksAreHeld, PinsFit, PinsWithinLimit, [Next]_vars
    PROVE  PinsFit' /\ PinsWithinLimit'
<1>1. IsFiniteSet(pinned)
  BY Constants, FS_Subset DEF TypeOK
<1>2. req \in [Users -> Request]
  BY RequestTyped
<1>3. PinsWithinLimit'
  <2>1. CASE pinned' \subseteq pinned
    BY <1>1, <2>1, Constants, Shrinks DEF PinsWithinLimit
  <2>2. ASSUME NEW u \in Users, InsertPin(u), pinned' = pinned \cup {req[u].message}
        PROVE  PinsWithinLimit'
    BY <2>2 DEF InsertPin, PinsFit, PinsWithinLimit
  <2>3. QED
    BY <2>1, <2>2, RowsMove
<1>4. ASSUME NEW w \in Users, At(w, "pin", "insert")'
      PROVE  Cardinality(pinned' \cup {req'[w].message}) <= MaxPins
  <2>1. req'[w].op = "pin" /\ req'[w].at = "insert"
    BY <1>4 DEF At
  <2>2. CASE LookPin(w)
    <3>1. pinned' = pinned /\ Go(w, "insert")
      BY <1>2, <2>1, <2>2 DEF LookPin, Finish, Idle
    <3>2. req[w].message \notin pinned /\ ~(Cardinality(pinned) >= MaxPins)
      BY <1>2, <2>1, <2>2 DEF LookPin, Finish, Idle
    <3>3. req'[w].message = req[w].message
      BY <1>2, <3>1 DEF Go, Request
    <3>4. Cardinality(pinned) < MaxPins
      BY <1>1, <3>2, Constants, FS_CardinalityType
    <3>5. Cardinality(pinned \cup {req[w].message}) <= MaxPins
      BY <1>1, <3>4, Constants, Grows
    <3>6. QED
      BY <3>1, <3>3, <3>5
  <2>3. CASE req'[w] = req[w]
    <3>1. At(w, "pin", "insert") /\ Cardinality(pinned \cup {req[w].message}) <= MaxPins
      BY <2>1, <2>3 DEF At, PinsFit
    <3>2. CASE pinned' \subseteq pinned
      <4>1. IsFiniteSet(pinned \cup {req[w].message})
        BY <1>1, FS_AddElement
      <4>2. pinned' \cup {req[w].message} \in SUBSET (pinned \cup {req[w].message})
        BY <3>2
      <4>3. QED
        BY <2>3, <3>1, <4>1, <4>2, Constants, Shrinks
    <3>3. ASSUME NEW u \in Users, InsertPin(u) PROVE FALSE
      <4>1. lock["channel"] = u /\ lock["channel"] = w
        BY <3>1, <3>3 DEF InsertPin, At, LocksAreHeld
      <4>2. req'[w].at \in {"tell", "idle"}
        BY <1>2, <3>3, <4>1 DEF InsertPin, Finish, Go, Idle, Request
      <4>3. QED
        BY <2>1, <4>2
    <3>4. QED
      BY <3>2, <3>3, RowsMove
  <2>4. ~LookReaction(w)
    BY <1>2, <2>1 DEF LookReaction, At, Finish, Go, Idle, Request
  <2>5. QED
    BY <2>1, <2>2, <2>3, <2>4, LooksFrom
<1>5. QED
  BY <1>3, <1>4 DEF PinsFit

\* The types of reactions of a message: whoever removes one without the lock
\* only makes room.
LEMMA TypesStep ==
    ASSUME TypeOK, RequestsAreShaped, LocksAreHeld, TypesFit, TypesWithinLimit, [Next]_vars
    PROVE  TypesFit' /\ TypesWithinLimit'
<1>1. req \in [Users -> Request] /\ MaxTypes \in Nat
  BY RequestTyped, Constants
<1>2. \A m : IsFiniteSet(Types(m)) /\ Cardinality(Types(m)) \in Nat
  BY TypesAre
<1>3. reacted' \subseteq reacted => \A m : Types(m)' \subseteq Types(m)
  <2>1. SUFFICES ASSUME reacted' \subseteq reacted, NEW m PROVE Types(m)' \subseteq Types(m)
    OBVIOUS
  <2>2. QED
    BY <2>1, TypesAre
<1>4. ASSUME NEW u \in Users, reacted' = reacted \cup {<<req[u].message, u, req[u].emoji>>}
      PROVE  \A m : Types(m)' \subseteq IF m = req[u].message THEN Types(m) \cup {req[u].emoji}
                                        ELSE Types(m)
  <2>1. SUFFICES ASSUME NEW m
                 PROVE  Types(m)' \subseteq IF m = req[u].message THEN Types(m) \cup {req[u].emoji}
                                            ELSE Types(m)
    OBVIOUS
  <2>2. QED
    BY <1>4, TypesAre
<1>5. TypesWithinLimit'
  <2>1. ASSUME NEW m \in Messages PROVE Cardinality(Types(m)') <= MaxTypes
    <3>1. Cardinality(Types(m)) <= MaxTypes
      BY DEF TypesWithinLimit
    <3>2. CASE Types(m)' \subseteq Types(m)
      BY <1>1, <1>2, <3>1, <3>2, Shrinks
    <3>3. ASSUME NEW u \in Users, InsertReaction(u), m = req[u].message,
                 Types(m)' \subseteq Types(m) \cup {req[u].emoji}
          PROVE  Cardinality(Types(m)') <= MaxTypes
      <4>1. Cardinality(Types(m) \cup {req[u].emoji}) <= MaxTypes
        BY <3>3 DEF InsertReaction, At, TypesFit, RequestsAreShaped, Shaped
      <4>2. IsFiniteSet(Types(m) \cup {req[u].emoji})
        BY <1>2, FS_AddElement
      <4>3. QED
        BY <1>1, <3>3, <4>1, <4>2, Shrinks
    <3>4. QED
      BY <1>3, <1>4, <3>2, <3>3, RowsMove
  <2>2. QED
    BY <2>1 DEF TypesWithinLimit
<1>6. ASSUME NEW w \in Users, NEW m \in Messages, NEW e \in Emojis, At(w, "react", "insert")',
             req'[w].message = m, req'[w].emoji = e
      PROVE  <<m, w, e>> \notin reacted' /\ Cardinality(Types(m)' \cup {e}) <= MaxTypes
  <2>1. req'[w].op = "react" /\ req'[w].at = "insert"
    BY <1>6 DEF At
  <2>2. IsFiniteSet(Types(m)) /\ IsFiniteSet(Types(m) \cup {e}) /\ Cardinality(Types(m)) \in Nat
    BY <1>2, FS_AddElement
  <2>3. CASE LookReaction(w)
    <3>1. /\ reacted' = reacted /\ Go(w, "insert")
          /\ <<req[w].message, w, req[w].emoji>> \notin reacted
          /\ \/ req[w].emoji \in Types(req[w].message)
             \/ ~(Cardinality(Types(req[w].message)) >= MaxTypes)
      BY <1>1, <2>1, <2>3 DEF LookReaction, Finish, Idle, Request
    <3>2. req[w].message = m /\ req[w].emoji = e
      BY <1>1, <1>6, <3>1 DEF Go, Request
    <3>3. \/ e \in Types(m) /\ Cardinality(Types(m)) <= MaxTypes
          \/ Cardinality(Types(m)) < MaxTypes
      BY <1>1, <2>2, <3>1, <3>2 DEF TypesWithinLimit
    <3>4. Cardinality(Types(m) \cup {e}) <= MaxTypes
      BY <1>1, <2>2, <3>3, Grows
    <3>5. Types(m)' = Types(m)
      BY <3>1, TypesAre
    <3>6. QED
      BY <3>1, <3>2, <3>4, <3>5
  <2>4. CASE req'[w] = req[w]
    <3>1. /\ At(w, "react", "insert") /\ req[w].message = m /\ req[w].emoji = e
          /\ <<m, w, e>> \notin reacted /\ Cardinality(Types(m) \cup {e}) <= MaxTypes
      BY <1>6, <2>1, <2>4 DEF At, TypesFit
    <3>2. ASSUME Types(m)' \subseteq Types(m), <<m, w, e>> \notin reacted'
          PROVE  <<m, w, e>> \notin reacted' /\ Cardinality(Types(m)' \cup {e}) <= MaxTypes
      <4>1. Types(m)' \cup {e} \in SUBSET (Types(m) \cup {e})
        BY <3>2
      <4>2. QED
        BY <1>1, <2>2, <3>1, <3>2, <4>1, Shrinks
    <3>3. CASE reacted' \subseteq reacted
      BY <1>3, <3>1, <3>2, <3>3
    <3>4. ASSUME NEW u \in Users, InsertReaction(u),
                 reacted' = reacted \cup {<<req[u].message, u, req[u].emoji>>}
          PROVE  Types(m)' \subseteq Types(m) /\ <<m, w, e>> \notin reacted'
      <4>1. u # w
        <5>1. req'[u].at \in {"tell", "idle"}
          BY <1>1, <3>4 DEF InsertReaction, Finish, Idle, Request
        <5>2. QED
          BY <2>1, <5>1
      <4>2. lock[req[u].message] = u /\ lock[m] = w
        BY <3>1, <3>4 DEF InsertReaction, At, LocksAreHeld
      <4>3. QED
        BY <1>4, <3>1, <3>4, <4>1, <4>2
    <3>5. QED
      BY <3>2, <3>3, <3>4, RowsMove
  <2>5. ~LookPin(w)
    BY <1>1, <2>1 DEF LookPin, At, Finish, Go, Idle, Request
  <2>6. QED
    BY <2>1, <2>3, <2>4, <2>5, LooksFrom
<1>7. QED
  BY <1>5, <1>6 DEF TypesFit

-----------------------------------------------------------------------------
(***************************************************************************)
(* What readers know.                                                      *)
(***************************************************************************)
LEMMA FreeStep ==
    ASSUME TypeOK, RequestsAreShaped, TypesFit, FreeAreUnknown, [Next]_vars
    PROVE  FreeAreUnknown'
<1>1. /\ req \in [Users -> Request] /\ None \notin Customs
      /\ countShown \in [Messages -> [Emojis -> 0 .. Cardinality(Users)]]
  BY RequestTyped, Constants DEF TypeOK
<1> SUFFICES ASSUME NEW e \in Customs, emoji'[e] = "free"
             PROVE  /\ \A m \in Messages : countShown'[m][e] = 0
                    /\ \A w \in Users : req'[w].emoji # e
  BY DEF FreeAreUnknown
<1>2. emoji[e] = "free"
  BY RowsMove
<1>3. /\ \A m \in Messages : countShown[m][e] = 0
      /\ \A w \in Users : req[w].emoji # e
  BY <1>2 DEF FreeAreUnknown
<1>4. ASSUME NEW m \in Messages PROVE countShown'[m][e] = 0
  <2>1. ASSUME NEW u \in Users, BroadcastReactUpdate(u) PROVE countShown'[m][e] = 0
    <3>1. req[u].emoji # e /\ Shaped(req[u]) /\ req[u].op \in {"react", "unreact"}
      BY <1>3, <2>1 DEF BroadcastReactUpdate, RequestsAreShaped
    <3>2. countShown' = [countShown EXCEPT ![req[u].message][req[u].emoji] = req[u].count]
      BY <2>1 DEF BroadcastReactUpdate
    <3>3. QED
      BY <1>1, <1>3, <3>1, <3>2, Constants DEF Shaped
  <2>2. CASE countShown' = countShown
    BY <1>3, <2>2
  <2>3. ASSUME NEW u \in Users, Handler(u) PROVE countShown' = countShown
    BY <2>3, HandlerBegins DEF Begins
  <2>4. QED
    BY <2>1, <2>2, <2>3
       DEF Next, RequestStep, PinMessage, AddReaction, LockPin, LookPin, InsertPin, UnpinMessage,
           TellPin, LockReaction, LookReaction, InsertReaction, RemoveReaction, CountReactionType,
           CreateEmoji, RequestFails, DeleteEmojiHandler, DeleteMessage, vars
<1>5. ASSUME NEW w \in Users PROVE req'[w].emoji # e
  <2>1. ASSUME NEW u \in Users, Handler(u) PROVE req'[w].emoji # e
    <3>1. PICK q : Begun(q) /\ Begins(u, q)
      BY <2>1, HandlerBegins
    <3>2. q.emoji # e
      BY <1>1, <1>2, <3>1 DEF Begun, Exists
    <3>3. QED
      BY <1>1, <1>3, <3>1, <3>2 DEF Begins
  <2>2. ASSUME NEW u \in Users, RequestStep(u) \/ RequestFails(u) PROVE req'[w].emoji # e
    <3>1. req'[w].emoji \in {req[w].emoji, None}
      BY <1>1, <2>2
         DEF RequestStep, PinMessage, AddReaction, LockPin, LookPin, InsertPin, UnpinMessage,
             TellPin, LockReaction, LookReaction, InsertReaction, RemoveReaction, CountReactionType,
             BroadcastReactUpdate, CreateEmoji, RequestFails, Finish, Go, Idle, Request
    <3>2. QED
      BY <1>1, <1>3, <3>1
  <2>3. CASE req' = req
    BY <1>3, <2>3
  <2>4. QED
    BY <2>1, <2>2, <2>3 DEF Next, DeleteEmojiHandler, DeleteMessage, vars
<1>6. QED
  BY <1>4, <1>5

\* What is sure has been, and only a request that begins serves a message anew.
LEMMA SureWas ==
    ASSUME TypeOK, RequestsAreShaped, TypesFit, [Next]_vars, NEW m \in live' \ unsure'
    PROVE  m \in live \ unsure /\ m \in Messages
<1>1. m \in live /\ m \in Messages
  BY RowsMove DEF TypeOK
<1>2. unsure \subseteq unsure'
  <2>1. ASSUME NEW u \in Users, Handler(u) PROVE unsure \subseteq unsure'
    BY <2>1, HandlerBegins DEF Begins
  <2>2. QED
    BY <2>1
       DEF Next, RequestStep, PinMessage, AddReaction, LockPin, LookPin, InsertPin, UnpinMessage,
           TellPin, LockReaction, LookReaction, InsertReaction, RemoveReaction, CountReactionType,
           BroadcastReactUpdate, CreateEmoji, RequestFails, DeleteEmojiHandler, DeleteMessage, vars
<1>3. QED
  BY <1>1, <1>2

\* The message and the emoji of a request stay until it ends.
LEMMA GoesOnOrEnds ==
    ASSUME TypeOK, NEW u \in Users, RequestStep(u) \/ RequestFails(u)
    PROVE  \/ req'[u].at = "idle" /\ req'[u].op = "pin" /\ req'[u].message = None
           \/ /\ req[u].at # "idle" /\ req'[u].op = req[u].op
              /\ req'[u].message = req[u].message /\ req'[u].emoji = req[u].emoji
BY RequestTyped
   DEF RequestStep, PinMessage, AddReaction, LockPin, LookPin, InsertPin, UnpinMessage,
       TellPin, LockReaction, LookReaction, InsertReaction, RemoveReaction, CountReactionType,
       BroadcastReactUpdate, CreateEmoji, RequestFails, At, Finish, Go, Idle, Request

LEMMA OneByOneStep ==
    ASSUME TypeOK, RequestsAreShaped, TypesFit, OneByOne, [Next]_vars
    PROVE  OneByOne'
<1>1. req \in [Users -> Request] /\ None \notin Messages
  BY RequestTyped, Constants
<1> SUFFICES ASSUME NEW m \in live' \ unsure', NEW v \in Users, NEW w \in Users,
                    req'[v].at # "idle", req'[v].message = m,
                    req'[w].at # "idle", req'[w].message = m
             PROVE  v = w
  BY DEF OneByOne, Serves
<1>2. m \in live \ unsure /\ m \in Messages
  BY SureWas
<1>3. CASE Serves(v, m) /\ Serves(w, m)
  BY <1>2, <1>3 DEF OneByOne
<1>4. ASSUME NEW u \in Users, RequestStep(u) \/ RequestFails(u) PROVE v = w
  <2>1. \A x \in Users \ {u} : req'[x] = req[x]
    BY <1>4, RequestsMove DEF UserStep
  <2>2. QED
    BY <1>1, <1>2, <1>3, <1>4, <2>1, GoesOnOrEnds DEF Serves
<1>5. ASSUME NEW u \in Users, Handler(u) PROVE v = w
  <2>1. \A x \in Users \ {u} : req'[x] = req[x]
    BY <1>5, RequestsMove DEF UserStep
  <2>2. PICK q : Begun(q) /\ Begins(u, q)
    BY <1>5, HandlerBegins
  <2>3. req'[u] = q
    BY <1>1, <2>2 DEF Begins
  <2>4. CASE q.message = m
    <3>1. ~Busy(m)
      BY <1>1, <1>2, <2>2, <2>4 DEF Begins
    <3>2. \A x \in Users \ {u} : ~Serves(x, m)
      BY <3>1 DEF Busy, Serves
    <3>3. QED
      BY <2>1, <3>2 DEF Serves
  <2>5. CASE q.message # m
    BY <1>3, <2>1, <2>3, <2>5 DEF Serves
  <2>6. QED
    BY <2>4, <2>5
<1>6. CASE req' = req
  BY <1>3, <1>6 DEF Serves
<1>7. QED
  BY <1>4, <1>5, <1>6 DEF Next, DeleteEmojiHandler, DeleteMessage, vars

\* Who tells of a pin serves its message alone, as nobody else does.
LEMMA PinsKnownStep ==
    ASSUME TypeOK, RequestsAreShaped, TypesFit, OneByOne, PinsKnown, [Next]_vars
    PROVE  PinsKnown'
<1>1. req \in [Users -> Request] /\ None \notin Messages
  BY RequestTyped, Constants
<1> SUFFICES ASSUME NEW m \in live' \ unsure' PROVE PinKnown(m)'
  BY DEF PinsKnown
<1>2. m \in live \ unsure /\ m \in Messages /\ PinKnown(m)
  BY SureWas DEF PinsKnown
<1>3. ASSUME m \in pinned' <=> m \in pinned, m \in pinShown' <=> m \in pinShown,
             \A w \in Users : /\ TellsPin(w, m)' <=> TellsPin(w, m)
                              /\ TellsPin(w, m) => req'[w].op = req[w].op
      PROVE  PinKnown(m)'
  BY <1>2, <1>3 DEF PinKnown
<1>4. CASE UNCHANGED <<req, pinShown>> /\ (m \in pinned' <=> m \in pinned)
  BY <1>3, <1>4 DEF TellsPin
<1>5. ASSUME NEW u \in Users, UserStep(u) PROVE PinKnown(m)'
  <2>1. \A w \in Users \ {u} : req'[w] = req[w]
    BY <1>5, RequestsMove
  <2>2. ASSUME ~TellsPin(u, m), ~TellsPin(u, m)', m \in pinned' <=> m \in pinned,
               m \in pinShown' <=> m \in pinShown
        PROVE  PinKnown(m)'
    BY <1>3, <2>1, <2>2 DEF TellsPin
  <2>3. Serves(u, m) => \A w \in Users \ {u} : ~TellsPin(w, m)'
    BY <1>2, <2>1 DEF OneByOne, Serves, TellsPin
  <2>4. CASE Handler(u)
    <3>1. PICK q : Begun(q) /\ Begins(u, q)
      BY <2>4, HandlerBegins
    <3>2. /\ req'[u].at \in {"lock", "remove", "store"} /\ req[u].at = "idle"
          /\ pinned' = pinned /\ pinShown' = pinShown
      BY <1>1, <3>1 DEF Begun, Begins
    <3>3. QED
      BY <2>2, <3>2 DEF TellsPin
  <2>5. CASE InsertPin(u)
    <3>1. /\ req[u].op = "pin" /\ req[u].at = "insert" /\ pinShown' = pinShown
      BY <2>5 DEF InsertPin, At
    <3>2. CASE req[u].message = m
      <4>1. /\ m \in pinned' /\ req'[u].at = "tell" /\ req'[u].op = "pin" /\ req'[u].message = m
        BY <1>1, <1>2, <2>5, <3>1, <3>2 DEF InsertPin, Go, Request
      <4>2. \A w \in Users \ {u} : ~TellsPin(w, m)'
        BY <2>3, <3>1, <3>2 DEF Serves
      <4>3. QED
        BY <4>1, <4>2 DEF PinKnown, TellsPin
    <3>3. CASE req[u].message # m
      <4>1. m \in pinned' <=> m \in pinned
        BY <2>5, <3>3 DEF InsertPin
      <4>2. req'[u].message # m
        BY <1>1, <1>2, <2>5, <3>3 DEF InsertPin, Go, Finish, Idle, Request
      <4>3. QED
        BY <2>2, <3>1, <3>3, <4>1, <4>2 DEF TellsPin
    <3>4. QED
      BY <3>2, <3>3
  <2>6. CASE UnpinMessage(u)
    <3>1. /\ req[u].op = "unpin" /\ req[u].at = "remove" /\ pinShown' = pinShown
          /\ pinned' = pinned \ {req[u].message}
      BY <2>6 DEF UnpinMessage, At
    <3>2. CASE req[u].message = m /\ m \in pinned
      <4>1. /\ m \notin pinned' /\ req'[u].at = "tell" /\ req'[u].op = "unpin" /\ req'[u].message = m
        BY <1>1, <2>6, <3>1, <3>2 DEF UnpinMessage, Go, Request
      <4>2. \A w \in Users \ {u} : ~TellsPin(w, m)'
        BY <2>3, <3>1, <3>2 DEF Serves
      <4>3. QED
        BY <4>1, <4>2 DEF PinKnown, TellsPin
    <3>3. CASE ~(req[u].message = m /\ m \in pinned)
      <4>1. m \in pinned' <=> m \in pinned
        BY <3>1, <3>3
      <4>2. req'[u].message # m
        BY <1>1, <1>2, <2>6, <3>3 DEF UnpinMessage, Go, Finish, Idle, Request
      <4>3. QED
        BY <2>2, <3>1, <4>1, <4>2 DEF TellsPin
    <3>4. QED
      BY <3>2, <3>3
  <2>7. CASE TellPin(u)
    <3>1. /\ req[u].at = "tell" /\ req[u].op \in {"pin", "unpin"} /\ pinned' = pinned
          /\ req'[u].at = "idle"
          /\ pinShown' = IF req[u].op = "pin" THEN pinShown \cup {req[u].message}
                         ELSE pinShown \ {req[u].message}
      BY <1>1, <2>7 DEF TellPin, Finish, Idle
    <3>2. CASE req[u].message = m
      <4>1. m \in pinned <=> req[u].op = "pin"
        BY <1>2, <3>1, <3>2 DEF PinKnown, TellsPin
      <4>2. m \in pinShown' <=> m \in pinned'
        BY <3>1, <3>2, <4>1
      <4>3. \A w \in Users : ~TellsPin(w, m)'
        BY <2>3, <3>1, <3>2 DEF Serves, TellsPin
      <4>4. QED
        BY <4>2, <4>3 DEF PinKnown
    <3>3. CASE req[u].message # m
      BY <2>2, <3>1, <3>3 DEF TellsPin
    <3>4. QED
      BY <3>2, <3>3
  <2>8. CASE RequestFails(u)
    <3>1. /\ UNCHANGED <<pinned, pinShown>> /\ req'[u].at = "idle"
          /\ req[u].at = "tell" /\ req[u].message = m => m \in unsure'
      BY <1>1, <2>8 DEF RequestFails, Finish, Idle
    <3>2. QED
      BY <2>2, <3>1 DEF TellsPin
  <2>9. CASE \/ LockPin(u) \/ LookPin(u) \/ CreateEmoji(u)
             \/ LockReaction(u) \/ LookReaction(u) \/ InsertReaction(u)
             \/ RemoveReaction(u) \/ CountReactionType(u) \/ BroadcastReactUpdate(u)
    <3>1. /\ UNCHANGED <<pinned, pinShown>>
          /\ req[u].at = "tell" => req[u].op \notin {"pin", "unpin"}
      BY <2>9
         DEF LockPin, LookPin, CreateEmoji, LockReaction, LookReaction, InsertReaction,
             RemoveReaction, CountReactionType, BroadcastReactUpdate, At
    <3>2. req'[u].at = "tell" => req'[u].op \notin {"pin", "unpin"}
      BY <1>1, <2>9
         DEF LockPin, LookPin, CreateEmoji, LockReaction, LookReaction, InsertReaction,
             RemoveReaction, CountReactionType, BroadcastReactUpdate, At, Finish, Go, Idle, Request
    <3>3. QED
      BY <2>2, <3>1, <3>2 DEF TellsPin
  <2>10. QED
    BY <1>5, <2>4, <2>5, <2>6, <2>7, <2>8, <2>9
       DEF UserStep, RequestStep, PinMessage, AddReaction
<1>6. CASE \E e \in Customs : DeleteEmojiHandler(e)
  BY <1>4, <1>6 DEF DeleteEmojiHandler
<1>7. ASSUME NEW d \in Messages, DeleteMessage(d) PROVE PinKnown(m)'
  BY <1>4, <1>7 DEF DeleteMessage
<1>8. CASE UNCHANGED vars
  BY <1>4, <1>8 DEF vars
<1>9. QED
  BY <1>5, <1>6, <1>7, <1>8 DEF Next, UserStep

\* Nobody reacted with an emoji that is free.
LEMMA FreeHaveNone ==
    ASSUME TypeOK, NEW e \in Customs, emoji[e] = "free", NEW m
    PROVE  Count(m, e) = 0
<1>1. ASSUME NEW w \in Users, <<m, w, e>> \in reacted PROVE FALSE
  <2>1. <<m, w, e>>[3] \in Customs => emoji[<<m, w, e>>[3]] = "live"
    BY <1>1 DEF TypeOK
  <2>2. QED
    BY <2>1
<1>2. ~(Count(m, e) > 0) /\ Count(m, e) \in 0 .. Cardinality(Users)
  BY <1>1, CountIs
<1>3. QED
  BY <1>2, Constants

\* A step of a user that serves another message, or changes another emoji's row,
\* leaves the count of this one.
LEMMA CountsKnownStep ==
    ASSUME TypeOK, RequestsAreShaped, TypesFit, FreeAreUnknown, OneByOne, CountsKnown, [Next]_vars
    PROVE  CountsKnown'
<1>1. /\ req \in [Users -> Request] /\ None \notin Messages
      /\ countShown \in [Messages -> [Emojis -> 0 .. Cardinality(Users)]]
  BY RequestTyped, Constants DEF TypeOK
<1> SUFFICES ASSUME NEW m \in live' \ unsure', NEW e \in Emojis, e \in Customs => emoji'[e] = "live"
             PROVE  CountKnown(m, e)'
  BY DEF CountsKnown, Exists
<1>2. m \in live \ unsure /\ m \in Messages
  BY SureWas
<1>3. ASSUME Exists(e), Count(m, e)' = Count(m, e), countShown'[m][e] = countShown[m][e],
             \A w \in Users : /\ TellsCount(w, m, e)' <=> TellsCount(w, m, e)
                              /\ TellsCount(w, m, e) => req'[w] = req[w]
      PROVE  CountKnown(m, e)'
  <2>1. CountKnown(m, e)
    BY <1>2, <1>3 DEF CountsKnown
  <2>2. ASSUME NEW w \in Users, TellsCount(w, m, e)', req'[w].at = "tell"
        PROVE  req'[w].count = Count(m, e)'
    BY <1>3, <2>1, <2>2 DEF CountKnown
  <2>3. ASSUME \A w \in Users : ~TellsCount(w, m, e)' PROVE countShown'[m][e] = Count(m, e)'
    BY <1>3, <2>1, <2>3 DEF CountKnown
  <2>4. QED
    BY <2>2, <2>3 DEF CountKnown
<1>4. CASE ~Exists(e)
  <2>1. PICK u \in Users : CreateEmoji(u)
    <3>1. emoji' # emoji /\ ~\E d \in Customs : DeleteEmojiHandler(d)
      BY <1>4 DEF Exists, DeleteEmojiHandler, DeleteEmoji, TypeOK
    <3>2. \A u \in Users : Handler(u) => emoji' = emoji
      BY HandlerBegins DEF Begins
    <3>3. QED
      BY <3>1, <3>2
         DEF Next, RequestStep, PinMessage, AddReaction, LockPin, LookPin, InsertPin, UnpinMessage,
             TellPin, LockReaction, LookReaction, InsertReaction, RemoveReaction, CountReactionType,
             BroadcastReactUpdate, RequestFails, DeleteMessage, vars
  <2>2. /\ UNCHANGED <<reacted, countShown>> /\ e \in Customs /\ emoji[e] = "free"
        /\ req' = [req EXCEPT ![u] = Idle]
    BY <1>4, <2>1 DEF CreateEmoji, Finish, Exists, TypeOK
  <2>3. Count(m, e)' = 0 /\ countShown'[m][e] = 0
    <3>1. Count(m, e)' = Count(m, e)
      BY <2>2, CountStays
    <3>2. QED
      BY <1>2, <2>2, <3>1, FreeHaveNone DEF FreeAreUnknown
  <2>4. \A w \in Users : ~TellsCount(w, m, e)'
    BY <1>1, <2>2, Constants DEF TellsCount, FreeAreUnknown, Idle
  <2>5. QED
    BY <2>3, <2>4 DEF CountKnown
<1>5. CASE Exists(e) /\ UNCHANGED <<req, countShown>> /\ Count(m, e)' = Count(m, e)
  BY <1>3, <1>5 DEF TellsCount
<1>6. ASSUME Exists(e), NEW u \in Users, UserStep(u) PROVE CountKnown(m, e)'
  <2>1. \A w \in Users \ {u} : req'[w] = req[w]
    BY <1>6, RequestsMove
  <2>2. ASSUME ~TellsCount(u, m, e), ~TellsCount(u, m, e)', Count(m, e)' = Count(m, e),
               countShown'[m][e] = countShown[m][e]
        PROVE  CountKnown(m, e)'
    BY <1>3, <1>6, <2>1, <2>2 DEF TellsCount
  <2>3. Serves(u, m) => \A w \in Users \ {u} : ~TellsCount(w, m, e)'
    BY <1>2, <2>1 DEF OneByOne, Serves, TellsCount
  <2>4. CountKnown(m, e)
    BY <1>2, <1>6 DEF CountsKnown
  <2>5. reacted' = reacted => Count(m, e)' = Count(m, e)
    BY CountStays
  \* u tells the present count.
  <2>6. ASSUME Serves(u, m), req'[u].at = "tell", req'[u].count = Count(m, e)',
               TellsCount(u, m, e)'
        PROVE  CountKnown(m, e)'
    BY <2>3, <2>6 DEF CountKnown
  <2>7. CASE Handler(u)
    <3>1. PICK q : Begun(q) /\ Begins(u, q)
      BY <2>7, HandlerBegins
    <3>2. /\ req'[u].at \in {"lock", "remove", "store"} /\ req[u].at = "idle"
          /\ reacted' = reacted /\ countShown' = countShown
      BY <1>1, <3>1 DEF Begun, Begins
    <3>3. QED
      BY <2>2, <2>5, <3>2 DEF TellsCount
  <2>8. CASE LookReaction(u)
    <3>1. /\ req[u].at = "look" /\ req[u].op = "react" /\ UNCHANGED <<reacted, countShown>>
      BY <2>8 DEF LookReaction, At
    <3>2. CASE req'[u].at = "tell" /\ req[u].message = m /\ req[u].emoji = e
      <4>1. /\ req'[u].message = m /\ req'[u].emoji = e /\ req'[u].op = "react"
            /\ req'[u].count = Count(m, e)
        BY <1>1, <2>8, <3>1, <3>2 DEF LookReaction, Finish, Go, Idle, Request
      <4>2. QED
        BY <2>5, <2>6, <3>1, <3>2, <4>1 DEF TellsCount, Serves
    <3>3. CASE ~(req'[u].at = "tell" /\ req[u].message = m /\ req[u].emoji = e)
      <4>1. ~TellsCount(u, m, e)'
        BY <1>1, <1>2, <2>8, <3>3 DEF LookReaction, Finish, Go, Idle, Request, TellsCount
      <4>2. QED
        BY <2>2, <2>5, <3>1, <4>1 DEF TellsCount
    <3>4. QED
      BY <3>2, <3>3
  <2>9. CASE InsertReaction(u)
    <3>1. /\ req[u].at = "insert" /\ req[u].op = "react" /\ countShown' = countShown
          /\ Shaped(req[u])
      BY <2>9 DEF InsertReaction, At, RequestsAreShaped
    <3>2. CASE req[u].message = m /\ req[u].emoji = e
      <4>1. /\ reacted' = reacted \cup {<<m, u, e>>} /\ <<m, u, e>> \notin reacted
            /\ req' = [req EXCEPT ![u].count = Count(m, e) + 1, ![u].at = "tell"]
        BY <1>2, <1>6, <2>9, <3>1, <3>2 DEF InsertReaction, TypesFit, At
      <4>2. /\ req'[u].message = m /\ req'[u].emoji = e /\ req'[u].op = "react"
            /\ req'[u].count = Count(m, e) + 1 /\ req'[u].at = "tell"
        BY <1>1, <3>1, <3>2, <4>1 DEF Request
      <4>3. Count(m, e)' = Count(m, e) + 1
        <5> DEFINE W == {w \in Users : <<m, w, e>> \in reacted}
        <5>1. {w \in Users : <<m, w, e>> \in reacted'} = W \cup {u} /\ u \notin W
          BY <4>1
        <5>2. IsFiniteSet(W)
          BY CountIs DEF Who
        <5>3. Cardinality(W \cup {u}) = Cardinality(W) + 1
          BY <5>1, <5>2, FS_AddElement
        <5>4. QED
          BY <5>1, <5>3 DEF Count
      <4>4. QED
        BY <2>6, <3>1, <3>2, <4>2, <4>3 DEF TellsCount, Serves
    <3>3. CASE ~(req[u].message = m /\ req[u].emoji = e)
      <4>1. \A w \in Users : <<m, w, e>> \in reacted' <=> <<m, w, e>> \in reacted
        BY <2>9, <3>3 DEF InsertReaction
      <4>2. ~TellsCount(u, m, e)'
        BY <1>1, <1>2, <2>9, <3>3 DEF InsertReaction, Finish, Idle, Request, TellsCount
      <4>3. QED
        BY <2>2, <3>1, <4>1, <4>2, CountStays DEF TellsCount
    <3>4. QED
      BY <3>2, <3>3
  <2>10. CASE RemoveReaction(u)
    <3>1. /\ req[u].at = "remove" /\ req[u].op = "unreact" /\ countShown' = countShown
          /\ reacted' = reacted \ {<<req[u].message, u, req[u].emoji>>}
      BY <2>10 DEF RemoveReaction, At
    <3>2. CASE req[u].message = m /\ req[u].emoji = e /\ <<m, u, e>> \in reacted
      <4>1. /\ req'[u].message = m /\ req'[u].emoji = e /\ req'[u].op = "unreact"
            /\ req'[u].at = "count"
        BY <1>1, <2>10, <3>1, <3>2 DEF RemoveReaction, Go, Request
      <4>2. \A w \in Users \ {u} : ~TellsCount(w, m, e)'
        BY <2>3, <3>1, <3>2 DEF Serves
      <4>3. QED
        BY <4>1, <4>2 DEF CountKnown, TellsCount
    <3>3. CASE ~(req[u].message = m /\ req[u].emoji = e /\ <<m, u, e>> \in reacted)
      <4>1. \A w \in Users : <<m, w, e>> \in reacted' <=> <<m, w, e>> \in reacted
        BY <3>1, <3>3
      <4>2. ~TellsCount(u, m, e)'
        BY <1>1, <1>2, <2>10, <3>3 DEF RemoveReaction, Finish, Go, Idle, Request, TellsCount
      <4>3. QED
        BY <2>2, <3>1, <4>1, <4>2, CountStays DEF TellsCount
    <3>4. QED
      BY <3>2, <3>3
  <2>11. CASE CountReactionType(u)
    <3>1. /\ req[u].at = "count" /\ req[u].op = "unreact" /\ UNCHANGED <<reacted, countShown>>
          /\ req' = [req EXCEPT ![u].count = Count(req[u].message, req[u].emoji), ![u].at = "tell"]
      BY <2>11 DEF CountReactionType, At
    <3>2. CASE req[u].message = m /\ req[u].emoji = e
      <4>1. /\ req'[u].message = m /\ req'[u].emoji = e /\ req'[u].op = "unreact"
            /\ req'[u].count = Count(m, e) /\ req'[u].at = "tell"
        BY <1>1, <3>1, <3>2 DEF Request
      <4>2. QED
        BY <2>5, <2>6, <3>1, <3>2, <4>1 DEF TellsCount, Serves
    <3>3. CASE ~(req[u].message = m /\ req[u].emoji = e)
      <4>1. ~TellsCount(u, m, e)' /\ ~TellsCount(u, m, e)
        BY <1>1, <3>1, <3>3 DEF Request, TellsCount
      <4>2. QED
        BY <2>2, <2>5, <3>1, <4>1
    <3>4. QED
      BY <3>2, <3>3
  <2>12. CASE BroadcastReactUpdate(u)
    <3>1. /\ req[u].at = "tell" /\ req[u].op \in {"react", "unreact"} /\ reacted' = reacted
          /\ req'[u].at = "idle"
          /\ countShown' = [countShown EXCEPT ![req[u].message][req[u].emoji] = req[u].count]
      BY <1>1, <2>12 DEF BroadcastReactUpdate, Finish, Idle
    <3>2. CASE req[u].message = m /\ req[u].emoji = e
      <4>1. req[u].count = Count(m, e)
        BY <2>4, <3>1, <3>2 DEF CountKnown, TellsCount
      <4>2. countShown'[m][e] = Count(m, e)'
        BY <1>1, <1>2, <2>5, <3>1, <3>2, <4>1
      <4>3. \A w \in Users : ~TellsCount(w, m, e)'
        BY <2>3, <3>1, <3>2 DEF Serves, TellsCount
      <4>4. QED
        BY <4>2, <4>3 DEF CountKnown
    <3>3. CASE ~(req[u].message = m /\ req[u].emoji = e)
      <4>1. countShown'[m][e] = countShown[m][e]
        BY <1>1, <1>2, <3>1, <3>3
      <4>2. QED
        BY <2>2, <2>5, <3>1, <3>3, <4>1 DEF TellsCount
    <3>4. QED
      BY <3>2, <3>3
  <2>13. CASE RequestFails(u)
    <3>1. /\ UNCHANGED <<reacted, countShown>> /\ req'[u].at = "idle"
          /\ req[u].at \in {"count", "tell"} /\ req[u].message = m => m \in unsure'
      BY <1>1, <2>13 DEF RequestFails, Finish, Idle
    <3>2. QED
      BY <2>2, <2>5, <3>1 DEF TellsCount
  <2>14. CASE \/ LockPin(u) \/ LookPin(u) \/ InsertPin(u) \/ UnpinMessage(u) \/ TellPin(u)
              \/ CreateEmoji(u) \/ LockReaction(u)
    <3>1. /\ UNCHANGED <<reacted, countShown>>
          /\ req[u].at \in {"count", "tell"} => req[u].op \notin {"react", "unreact"}
      BY <2>14
         DEF LockPin, LookPin, InsertPin, UnpinMessage, TellPin, CreateEmoji, LockReaction, At
    <3>2. req'[u].at \in {"count", "tell"} => req'[u].op \notin {"react", "unreact"}
      BY <1>1, <2>14
         DEF LockPin, LookPin, InsertPin, UnpinMessage, TellPin, CreateEmoji, LockReaction, At,
             Finish, Go, Idle, Request
    <3>3. QED
      BY <2>2, <2>5, <3>1, <3>2 DEF TellsCount
  <2>15. QED
    BY <1>6, <2>7, <2>8, <2>9, <2>10, <2>11, <2>12, <2>13, <2>14
       DEF UserStep, RequestStep, PinMessage, AddReaction
<1>7. ASSUME Exists(e), NEW d \in Customs, DeleteEmojiHandler(d) PROVE CountKnown(m, e)'
  <2>1. d # e
    BY <1>7 DEF DeleteEmojiHandler, DeleteEmoji, TypeOK
  <2>2. \A w \in Users : <<m, w, e>> \in reacted' <=> <<m, w, e>> \in reacted
    BY <1>7, <2>1 DEF DeleteEmojiHandler, DeleteEmoji
  <2>3. QED
    BY <1>5, <1>7, <2>2, CountStays DEF DeleteEmojiHandler
<1>8. ASSUME Exists(e), NEW d \in Messages, DeleteMessage(d) PROVE CountKnown(m, e)'
  <2>1. d # m
    BY <1>8 DEF DeleteMessage
  <2>2. \A w \in Users : <<m, w, e>> \in reacted' <=> <<m, w, e>> \in reacted
    BY <1>8, <2>1 DEF DeleteMessage
  <2>3. QED
    BY <1>5, <1>8, <2>2, CountStays DEF DeleteMessage
<1>9. CASE Exists(e) /\ UNCHANGED vars
  BY <1>5, <1>9, CountStays DEF vars
<1>10. QED
  BY <1>4, <1>6, <1>7, <1>8, <1>9 DEF Next, UserStep

-----------------------------------------------------------------------------
(***************************************************************************)
(* The theorem.                                                            *)
(***************************************************************************)
LEMMA InvInit == Init => IInv
<1> SUFFICES ASSUME Init PROVE IInv
  OBVIOUS
<1>1. TypeOK
  BY Constants DEF Init, TypeOK, Request, Idle
<1>2. RequestsAreShaped /\ LocksAreHeld /\ PinsFit /\ TypesFit /\ OneByOne
  BY Constants
     DEF Init, Idle, RequestsAreShaped, Shaped, LocksAreHeld, PinsFit, TypesFit, At, OneByOne, Serves
<1>3. PinsWithinLimit
  BY Constants, FS_EmptySet DEF Init, PinsWithinLimit
<1>4. \A m, e : Count(m, e) = 0
  <2>1. \A m, e : {u \in Users : <<m, u, e>> \in reacted} = {}
    BY DEF Init
  <2>2. QED
    BY <2>1, FS_EmptySet DEF Count
<1>5. TypesWithinLimit
  <2>1. \A m : Types(m) = {}
    BY <1>4 DEF Types
  <2>2. QED
    BY <2>1, Constants, FS_EmptySet DEF TypesWithinLimit
<1>6. FreeAreUnknown
  BY Constants DEF Init, FreeAreUnknown, Idle
<1>7. PinsKnown
  BY DEF Init, PinsKnown, PinKnown, TellsPin, Idle
<1>8. CountsKnown
  BY <1>4 DEF Init, CountsKnown, CountKnown, TellsCount, Idle
<1>9. QED
  BY <1>1, <1>2, <1>3, <1>5, <1>6, <1>7, <1>8 DEF IInv

LEMMA InvNext == IInv /\ [Next]_vars => IInv'
<1> SUFFICES ASSUME IInv, [Next]_vars PROVE IInv'
  OBVIOUS
<1>1. /\ TypeOK /\ RequestsAreShaped /\ LocksAreHeld /\ PinsFit /\ PinsWithinLimit /\ TypesFit
      /\ TypesWithinLimit /\ FreeAreUnknown /\ OneByOne /\ PinsKnown /\ CountsKnown
  BY DEF IInv
<1>2. TypeOK' /\ RequestsAreShaped' /\ LocksAreHeld'
  BY <1>1, TypeStep, LocksStep
<1>3. PinsFit' /\ PinsWithinLimit' /\ TypesFit' /\ TypesWithinLimit'
  BY <1>1, PinsStep, TypesStep
<1>4. FreeAreUnknown' /\ OneByOne' /\ PinsKnown' /\ CountsKnown'
  BY <1>1, FreeStep, OneByOneStep, PinsKnownStep, CountsKnownStep
<1>5. QED
  BY <1>2, <1>3, <1>4 DEF IInv

LEMMA InvAlways == Spec => []IInv
BY InvInit, InvNext, PTL DEF Spec

\* For any number of users, messages and emojis and any limits: the advisory lock
\* of PinMessage and AddReaction, held from the count to the commit, keeps both
\* limits; the rows refer to messages and emojis that exist; and the events tell the
\* readers of a message whose requests came one after the other what its rows say.
THEOREM MarksStayRight == Spec => []MarksAreRight
<1>1. PinsKnown /\ CountsKnown => ReadersKnow
  <2> SUFFICES ASSUME PinsKnown, CountsKnown, NEW m \in live \ unsure, ~Busy(m)
               PROVE  /\ m \in pinShown <=> m \in pinned
                      /\ \A e \in Emojis : Exists(e) => countShown[m][e] = Count(m, e)
    BY DEF ReadersKnow
  <2>1. m \in pinShown <=> m \in pinned
    BY DEF PinsKnown, PinKnown, TellsPin, Busy
  <2>2. ASSUME NEW e \in Emojis, Exists(e) PROVE countShown[m][e] = Count(m, e)
    <3>1. \A u \in Users : ~TellsCount(u, m, e)
      BY DEF Busy, TellsCount
    <3>2. CountKnown(m, e)
      BY <2>2 DEF CountsKnown
    <3>3. QED
      BY <3>1, <3>2 DEF CountKnown
  <2>3. QED
    BY <2>1, <2>2
<1>2. IInv => MarksAreRight
  BY <1>1 DEF IInv, MarksAreRight
<1>3. QED
  BY <1>2, InvAlways, PTL

=============================================================================
