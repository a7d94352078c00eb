---------------------------- MODULE Realtime_proofs ----------------------------
(***************************************************************************)
(* Proofs about the parts of MCRealtime as theorems about RealtimeSpec,    *)
(* for all values of the constants and each part under the assumptions of  *)
(* its module: the peers of a room (carried over from Sfu_proofs),         *)
(* notifications, the packets of a slot, embeds, and messages.             *)
(***************************************************************************)
EXTENDS MCRealtime, Sequences, FiniteSetTheorems, TLAPS


\* Sequence numbers, which wrap at M.
LEMMA ModFacts ==
    ASSUME NEW M \in Nat \ {0}, NEW a \in Int
    PROVE  a % M \in 0 .. M - 1 /\ \E q \in Int : a = (M * q) + (a % M)
<1>1. a \div M \in Int /\ a = (M * (a \div M)) + (a % M) /\ a % M \in 0 .. M - 1
  OBVIOUS
<1> QED
  BY <1>1

LEMMA ModUnique ==
    ASSUME NEW M \in Nat \ {0}, NEW q \in Int, NEW r \in 0 .. M - 1
    PROVE  ((M * q) + r) % M = r
OBVIOUS

LEMMA ModShift ==
    ASSUME NEW M \in Nat \ {0}, NEW q \in Int, NEW a \in Int
    PROVE  (a + (M * q)) % M = a % M
<1>1. PICK d \in Int : a = (M * d) + (a % M)
  BY ModFacts
<1>2. a % M \in 0 .. M - 1
  BY ModFacts
<1>3. (M * (d + q)) = (M * d) + (M * q) /\ d + q \in Int
  OBVIOUS
<1>4. M * d \in Int /\ M * q \in Int
  OBVIOUS
<1>5. a + (M * q) = (M * (d + q)) + (a % M)
  BY <1>1, <1>2, <1>3, <1>4
<1> QED
  BY <1>2, <1>3, <1>5, ModUnique

\* A distance may be taken before or after the numbers wrap.
LEMMA ModMinus ==
    ASSUME NEW M \in Nat \ {0}, NEW a \in Int, NEW b \in Int
    PROVE  ((a % M) - b) % M = (a - b) % M /\ (a - (b % M)) % M = (a - b) % M
<1>1. PICK p \in Int : a = (M * p) + (a % M)
  BY ModFacts
<1>2. PICK q \in Int : b = (M * q) + (b % M)
  BY ModFacts
<1>3. a % M \in Int /\ b % M \in Int /\ M * p \in Int /\ M * q \in Int
  <2>1. a % M \in 0 .. M - 1 /\ b % M \in 0 .. M - 1
    BY ModFacts
  <2> QED
    BY <2>1
<1>4. (a % M) - b = (a - b) + (M * (0 - p)) /\ 0 - p \in Int
  <2>1. M * (0 - p) = 0 - (M * p)
    OBVIOUS
  <2> QED
    BY <1>1, <1>3, <2>1
<1>5. a - (b % M) = (a - b) + (M * q)
  BY <1>2, <1>3
<1>6. ASSUME NEW c \in Int, NEW d \in Int PROVE (c + (M * d)) % M = c % M
  BY ModShift
<1>7. a - b \in Int
  OBVIOUS
<1>8. ((a - b) + (M * (0 - p))) % M = (a - b) % M
  BY <1>4, <1>6, <1>7, Zenon
<1>9. ((a - b) + (M * q)) % M = (a - b) % M
  BY <1>6, <1>7, Zenon
<1> QED
  BY <1>4, <1>5, <1>8, <1>9, Zenon

\* Of numbers moved by the same offset the distance stays.
LEMMA SameOffset ==
    ASSUME NEW M \in Nat \ {0}, NEW n \in Int, NEW k \in Int, NEW o \in Int
    PROVE  (((n + o) % M) - ((k + o) % M)) % M = (n - k) % M
<1>1. n + o \in Int /\ k + o \in Int /\ (n + o) % M \in Int
  <2>1. \A c \in Int : c % M \in 0 .. M - 1
    BY ModFacts
  <2> QED
    BY <2>1
<1>2. (((n + o) % M) - ((k + o) % M)) % M = (((n + o) % M) - (k + o)) % M
  BY <1>1, ModMinus, Zenon
<1>3. (((n + o) % M) - (k + o)) % M = ((n + o) - (k + o)) % M
  BY <1>1, ModMinus, Zenon
<1>4. (n + o) - (k + o) = n - k
  OBVIOUS
<1> QED
  BY <1>2, <1>3, <1>4, Zenon

\* An offset chosen after l makes of n the number that follows l.
LEMMA NewOffset ==
    ASSUME NEW M \in Nat \ {0, 1}, NEW n \in Int, NEW l \in 0 .. M - 1
    PROVE  (((n + ((l + 1 - n) % M)) % M) - l) % M = 1
<1> DEFINE c == l + 1 - n
           o == c % M
<1>1. M \in Nat \ {0} /\ l \in Int /\ c \in Int /\ o \in Int /\ n + o \in Int /\ l - n \in Int
  <2>1. \A d \in Int : d % M \in 0 .. M - 1
    BY ModFacts
  <2> QED
    BY <2>1
<1>2. (((n + o) % M) - l) % M = ((n + o) - l) % M
  <2> HIDE DEF o
  <2> QED
    BY <1>1, ModMinus, Zenon
<1>3. (n + o) - l = o - (l - n)
  <2> HIDE DEF o
  <2> QED
    BY <1>1
<1>4. (o - (l - n)) % M = (c - (l - n)) % M
  <2> HIDE DEF c
  <2> QED
    BY <1>1, ModMinus, Zenon
<1>5. c - (l - n) = 1
  OBVIOUS
<1>6. 1 % M = 1
  <2>1. (M * 0) + 1 = 1
    OBVIOUS
  <2> QED
    BY <2>1, ModUnique
<1> QED
  BY <1>2, <1>3, <1>4, <1>5, <1>6, Zenon

-----------------------------------------------------------------------------
(***************************************************************************)
(* The slots of a room (Sfu). What Sfu_proofs shows of the module holds of *)
(* its instance: both expand to the same formulas, action by action.       *)
(***************************************************************************)
SlotProofs == INSTANCE Sfu_proofs WITH
    MaxEvents <- MaxPeerEvents, jobs <- sfuJobs, events <- sfuEvents

LEMMA SameCardinality ==
    ASSUME NEW S
    PROVE  Video!Cardinality(S) = SlotProofs!Cardinality(S)
BY DEF Video!Cardinality, SlotProofs!Cardinality

LEMMA SameOffers ==
    ASSUME NEW p
    PROVE  /\ Video!HandleOffer(p) => SlotProofs!HandleOffer(p)
           /\ Video!OfferFails(p) => SlotProofs!OfferFails(p)
           /\ Video!AllocateSlots(p) => SlotProofs!AllocateSlots(p)
           /\ Video!NextPending(p) => SlotProofs!NextPending(p)
           /\ Video!OfferEnds(p) => SlotProofs!OfferEnds(p)
<1>1. Video!HandleOffer(p) => SlotProofs!HandleOffer(p)
  BY DEF Video!HandleOffer, SlotProofs!HandleOffer, Video!Event, SlotProofs!Event, Video!At,
     SlotProofs!At, Video!Rest, SlotProofs!Rest
<1>2. Video!OfferFails(p) => SlotProofs!OfferFails(p)
  BY DEF Video!OfferFails, SlotProofs!OfferFails, Video!At, SlotProofs!At, Video!Rests,
     SlotProofs!Rests, Video!Rest, SlotProofs!Rest
<1>3. Video!AllocateSlots(p) => SlotProofs!AllocateSlots(p)
  BY DEF Video!AllocateSlots, SlotProofs!AllocateSlots, Video!At, SlotProofs!At
<1>4. Video!NextPending(p) => SlotProofs!NextPending(p)
  BY DEF Video!NextPending, SlotProofs!NextPending, Video!At, SlotProofs!At
<1>5. Video!OfferEnds(p) => SlotProofs!OfferEnds(p)
  BY DEF Video!OfferEnds, SlotProofs!OfferEnds, Video!At, SlotProofs!At, Video!Released,
     SlotProofs!Released, Video!Slots, SlotProofs!Slots, Video!Free, SlotProofs!Free, Video!Rests,
     SlotProofs!Rests, Video!Rest, SlotProofs!Rest
<1> QED
  BY <1>1, <1>2, <1>3, <1>4, <1>5

LEMMA SameAssigns ==
    ASSUME NEW t
    PROVE  /\ Video!AssignTrack(t) => SlotProofs!AssignTrack(t)
           /\ Video!AssignFanout(t) => SlotProofs!AssignFanout(t)
           /\ Video!AssignSlot(t) => SlotProofs!AssignSlot(t)
<1>1. Video!AssignTrack(t) => SlotProofs!AssignTrack(t)
  BY DEF Video!AssignTrack, SlotProofs!AssignTrack, Video!At, SlotProofs!At, Video!TrackOf,
     SlotProofs!TrackOf, Video!Done, SlotProofs!Done, Video!Rest, SlotProofs!Rest
<1>2. Video!AssignFanout(t) => SlotProofs!AssignFanout(t)
  BY DEF Video!AssignFanout, SlotProofs!AssignFanout, Video!At, SlotProofs!At, Video!FanoutFor,
     SlotProofs!FanoutFor, Video!Unheld, SlotProofs!Unheld, Video!Threads, SlotProofs!Threads,
     Video!Cut, SlotProofs!Cut, Video!Slots, SlotProofs!Slots
<1>3. Video!AssignSlot(t) => SlotProofs!AssignSlot(t)
  BY DEF Video!AssignSlot, SlotProofs!AssignSlot, Video!SlotsOf, SlotProofs!SlotsOf, Video!Slots,
     SlotProofs!Slots, Video!First, SlotProofs!First, Video!At, SlotProofs!At, Video!Bound,
     SlotProofs!Bound, Video!Done, SlotProofs!Done, Video!Rest, SlotProofs!Rest
<1> QED
  BY <1>1, <1>2, <1>3

LEMMA SameTracks ==
    ASSUME NEW p
    PROVE  /\ Video!ReplaceFanout(p) => SlotProofs!ReplaceFanout(p)
           /\ Video!ReadAudio(p) => SlotProofs!ReadAudio(p)
           /\ Video!RebindFanout(p) => SlotProofs!RebindFanout(p)
           /\ Video!RebindSlot(p) => SlotProofs!RebindSlot(p)
           /\ Video!TrackDone(p) => SlotProofs!TrackDone(p)
<1>1. Video!ReplaceFanout(p) => SlotProofs!ReplaceFanout(p)
  BY DEF Video!ReplaceFanout, SlotProofs!ReplaceFanout, Video!At, SlotProofs!At, Video!Cut,
     SlotProofs!Cut, Video!Slots, SlotProofs!Slots, Video!Unheld, SlotProofs!Unheld, Video!Threads,
     SlotProofs!Threads
<1>2. Video!ReadAudio(p) => SlotProofs!ReadAudio(p)
  BY DEF Video!ReadAudio, SlotProofs!ReadAudio, Video!At, SlotProofs!At, Video!FanoutFor,
     SlotProofs!FanoutFor, Video!Unheld, SlotProofs!Unheld, Video!Threads, SlotProofs!Threads,
     Video!Cut, SlotProofs!Cut, Video!Slots, SlotProofs!Slots
<1>3. Video!RebindFanout(p) => SlotProofs!RebindFanout(p)
  BY DEF Video!RebindFanout, SlotProofs!RebindFanout, Video!At, SlotProofs!At, Video!SlotsOf,
     SlotProofs!SlotsOf, Video!Slots, SlotProofs!Slots, Video!FanoutFor, SlotProofs!FanoutFor,
     Video!Unheld, SlotProofs!Unheld, Video!Threads, SlotProofs!Threads, Video!Cut, SlotProofs!Cut
<1>4. Video!RebindSlot(p) => SlotProofs!RebindSlot(p)
  BY DEF Video!RebindSlot, SlotProofs!RebindSlot, Video!At, SlotProofs!At, Video!Slots,
     SlotProofs!Slots, Video!Bound, SlotProofs!Bound, Video!Goes, SlotProofs!Goes
<1>5. Video!TrackDone(p) => SlotProofs!TrackDone(p)
  BY DEF Video!TrackDone, SlotProofs!TrackDone, Video!At, SlotProofs!At, Video!Rests,
     SlotProofs!Rests, Video!Rest, SlotProofs!Rest
<1> QED
  BY <1>1, <1>2, <1>3, <1>4, <1>5

LEMMA SameKept ==
    ASSUME NEW t, NEW s
    PROVE  Video!Kept(t, s) = SlotProofs!Kept(t, s)
BY DEF Video!Kept, SlotProofs!Kept, Video!Slots, SlotProofs!Slots, Video!Free, SlotProofs!Free,
   Video!Bound, SlotProofs!Bound

LEMMA SameFilled ==
    ASSUME NEW t, NEW kept
    PROVE  Video!Filled(t, kept) = SlotProofs!Filled(t, kept)
BY SameCardinality DEF Video!Filled, SlotProofs!Filled, Video!Slots, SlotProofs!Slots

LEMMA SameSyncs ==
    ASSUME NEW t
    PROVE  /\ Video!SyncNext(t) => SlotProofs!SyncNext(t)
           /\ Video!SyncFanout(t) => SlotProofs!SyncFanout(t)
           /\ Video!SyncSlots(t) => SlotProofs!SyncSlots(t)
<1>1. Video!SyncNext(t) => SlotProofs!SyncNext(t)
  <2>1. ASSUME NEW s, NEW views PROVE Video!AudioSets(s, views) = SlotProofs!AudioSets(s, views)
    BY SameCardinality DEF Video!AudioSets, SlotProofs!AudioSets
  <2>2. ASSUME NEW s, NEW q, NEW ks
        PROVE  Video!Released(slots, s, q, ks) = SlotProofs!Released(slots, s, q, ks)
    BY DEF Video!Released, SlotProofs!Released, Video!Slots, SlotProofs!Slots, Video!Free, SlotProofs!Free
  <2> QED
    BY <2>1, <2>2 DEF Video!SyncNext, SlotProofs!SyncNext, Video!At, SlotProofs!At
<1>2. Video!SyncFanout(t) => SlotProofs!SyncFanout(t)
  BY DEF Video!SyncFanout, SlotProofs!SyncFanout, Video!At, SlotProofs!At, Video!FanoutFor,
     SlotProofs!FanoutFor, Video!Unheld, SlotProofs!Unheld, Video!Threads, SlotProofs!Threads,
     Video!Cut, SlotProofs!Cut, Video!Slots, SlotProofs!Slots
<1>3. Video!SyncSlots(t) => SlotProofs!SyncSlots(t)
  <2>1. ASSUME NEW o, NEW k, NEW i PROVE Video!Bound(t, o, k, i) = SlotProofs!Bound(t, o, k, i)
    BY DEF Video!Bound, SlotProofs!Bound
  <2> DEFINE s == sfuJobs[t].sub
             kept == Video!Kept(t, s)
             binding(f) == [i \in Video!Slots |->
                          IF f[i] = None THEN kept[i]
                          ELSE Video!Bound(t, f[i], "audio", sfuJobs[t].views[f[i]])]
             binding2(f) == [i \in SlotProofs!Slots |->
                          IF f[i] = None THEN SlotProofs!Kept(t, s)[i]
                          ELSE SlotProofs!Bound(t, f[i], "audio", sfuJobs[t].views[f[i]])]
  <2>2. kept = SlotProofs!Kept(t, s) /\ Video!Filled(t, kept) = SlotProofs!Filled(t, SlotProofs!Kept(t, s))
    BY SameKept, SameFilled
  <2>3. ASSUME NEW f PROVE binding(f) = binding2(f)
    BY <2>1, <2>2 DEF Video!Slots, SlotProofs!Slots
  <2>4. Video!SyncSlots(t) =>
          /\ Video!At(t, "resolve") /\ sfuJobs[t].left = {}
          /\ IF s \in closed \/ s \notin ready \/ "audio" \notin Kinds THEN slots' = slots
             ELSE \E f \in Video!Filled(t, kept) : slots' = [slots EXCEPT ![s]["audio"] = binding(f)]
          /\ sfuJobs' = [sfuJobs EXCEPT ![t].at = "sync", ![t].held = {}, ![t].want = {}]
          /\ UNCHANGED <<room, closed, active, remote, flowing, fanouts, alive, ready, pending, asked, sfuEvents>>
    BY Zenon DEF Video!SyncSlots
  <2>5. SlotProofs!SyncSlots(t) <=>
          /\ SlotProofs!At(t, "resolve") /\ sfuJobs[t].left = {}
          /\ IF s \in closed \/ s \notin ready \/ "audio" \notin Kinds THEN slots' = slots
             ELSE \E f \in SlotProofs!Filled(t, SlotProofs!Kept(t, s)) : slots' = [slots EXCEPT ![s]["audio"] = binding2(f)]
          /\ sfuJobs' = [sfuJobs EXCEPT ![t].at = "sync", ![t].held = {}, ![t].want = {}]
          /\ UNCHANGED <<room, closed, active, remote, flowing, fanouts, alive, ready, pending, asked, sfuEvents>>
    BY Zenon DEF SlotProofs!SyncSlots
  <2> HIDE DEF binding, binding2, kept, s
  <2> QED
    BY <2>2, <2>3, <2>4, <2>5 DEF Video!At, SlotProofs!At
<1> QED
  BY <1>1, <1>2, <1>3

LEMMA SameOthers ==
    ASSUME NEW s, NEW p, NEW k
    PROVE  /\ Video!IncomingTrack(p) => SlotProofs!IncomingTrack(p)
           /\ Video!RemovePeer(p) => SlotProofs!RemovePeer(p)
           /\ Video!Close(p) => SlotProofs!Close(p)
           /\ Video!Subscribe(s, p) => SlotProofs!Subscribe(s, p)
           /\ Video!Unsubscribe(s, p) => SlotProofs!Unsubscribe(s, p)
           /\ Video!ReadLoopEnds(p, k) => SlotProofs!ReadLoopEnds(p, k)
           /\ (Video!Tick => SlotProofs!Tick) /\ (Video!TickDone => SlotProofs!TickDone)
<1>1. Video!IncomingTrack(p) => SlotProofs!IncomingTrack(p)
  BY DEF Video!IncomingTrack, SlotProofs!IncomingTrack, Video!Event, SlotProofs!Event, Video!At,
     SlotProofs!At, Video!Rest, SlotProofs!Rest
<1>2. Video!RemovePeer(p) => SlotProofs!RemovePeer(p)
  BY DEF Video!RemovePeer, SlotProofs!RemovePeer, Video!Event, SlotProofs!Event, Video!Rest,
     SlotProofs!Rest, Video!Views, SlotProofs!Views, Video!TrackOf, SlotProofs!TrackOf
<1>3. Video!Close(p) => SlotProofs!Close(p)
  BY DEF Video!Close, SlotProofs!Close, Video!At, SlotProofs!At, Video!Cut, SlotProofs!Cut,
     Video!Slots, SlotProofs!Slots, Video!Threads, SlotProofs!Threads, Video!Rest, SlotProofs!Rest
<1>4. Video!Subscribe(s, p) => SlotProofs!Subscribe(s, p)
  BY DEF Video!Subscribe, SlotProofs!Subscribe, Video!Event, SlotProofs!Event, Video!At,
     SlotProofs!At, Video!TrackOf, SlotProofs!TrackOf, Video!Rest, SlotProofs!Rest
<1>5. Video!Unsubscribe(s, p) => SlotProofs!Unsubscribe(s, p)
  BY DEF Video!Unsubscribe, SlotProofs!Unsubscribe, Video!Event, SlotProofs!Event, Video!At,
     SlotProofs!At, Video!Released, SlotProofs!Released, Video!Slots, SlotProofs!Slots, Video!Free,
     SlotProofs!Free
<1>6. Video!ReadLoopEnds(p, k) => SlotProofs!ReadLoopEnds(p, k)
  BY DEF Video!ReadLoopEnds, SlotProofs!ReadLoopEnds, Video!Cut, SlotProofs!Cut, Video!Slots,
     SlotProofs!Slots, Video!Unheld, SlotProofs!Unheld, Video!Threads, SlotProofs!Threads
<1>7. Video!Tick => SlotProofs!Tick
  BY DEF Video!Tick, SlotProofs!Tick, Video!At, SlotProofs!At, Video!Rest, SlotProofs!Rest,
     Video!Views, SlotProofs!Views, Video!TrackOf, SlotProofs!TrackOf
<1>8. Video!TickDone => SlotProofs!TickDone
  BY DEF Video!TickDone, SlotProofs!TickDone, Video!At, SlotProofs!At, Video!Rests,
     SlotProofs!Rests, Video!Rest, SlotProofs!Rest
<1> QED
  BY <1>1, <1>2, <1>3, <1>4, <1>5, <1>6, <1>7, <1>8

LEMMA SameNext == Video!Next => SlotProofs!Next
BY SameOffers, SameAssigns, SameTracks, SameSyncs, SameOthers
   DEF Video!Next, SlotProofs!Next, Video!OfferStep, SlotProofs!OfferStep, Video!AssignStep, SlotProofs!AssignStep,
   Video!TrackStep, SlotProofs!TrackStep, Video!SyncStep, SlotProofs!SyncStep, Video!Threads, SlotProofs!Threads

LEMMA SameInit == Video!Init => SlotProofs!Init
BY DEF Video!Init, SlotProofs!Init, Video!Slots, SlotProofs!Slots, Video!Free, SlotProofs!Free,
   Video!Threads, SlotProofs!Threads, Video!Rest, SlotProofs!Rest

LEMMA SameProperty == SlotProofs!SlotsServeSubscriptions => Video!SlotsServeSubscriptions
<1>1. SlotProofs!TypeOK => Video!TypeOK
  BY DEF Video!TypeOK, SlotProofs!TypeOK, Video!Slots, SlotProofs!Slots, Video!Threads, SlotProofs!Threads,
     Video!Job, SlotProofs!Job
<1>2. SlotProofs!OneSlotPerSource => Video!OneSlotPerSource
  BY SameCardinality DEF Video!OneSlotPerSource, SlotProofs!OneSlotPerSource, Video!SlotsOf, SlotProofs!SlotsOf,
     Video!Slots, SlotProofs!Slots
<1>3. SlotProofs!NoSubscriptionLost => Video!NoSubscriptionLost
  BY DEF Video!NoSubscriptionLost, SlotProofs!NoSubscriptionLost, Video!SlotsOf, SlotProofs!SlotsOf,
     Video!Slots, SlotProofs!Slots
<1> QED
  BY <1>1, <1>2, <1>3 DEF Video!SlotsServeSubscriptions, SlotProofs!SlotsServeSubscriptions

SlotsInv == part = "sfu" => SlotProofs!IInv

LEMMA RealtimeSlots == SlotsInv /\ [RealtimeNext]_realtimeVars => SlotsInv'
<1> SUFFICES ASSUME part = "sfu" => SlotProofs!IInv, [RealtimeNext]_realtimeVars, part' = "sfu"
             PROVE  SlotProofs!IInv'
  BY DEF SlotsInv
<1>1. part = "sfu" /\ (Video!Next \/ UNCHANGED sfuVars)
  BY DEF RealtimeNext, realtimeVars
<1>2. [SlotProofs!Next]_SlotProofs!vars
  BY <1>1, SameNext DEF sfuVars, SlotProofs!vars
<1>3. SlotProofs!Assumptions
  BY RealtimeAssumption DEF Video!Assumptions, SlotProofs!Assumptions
<1> QED
  BY <1>1, <1>2, <1>3, SlotProofs!NextSound

\* A subscriber spends at most one slot on a publisher and kind, and a subscription
\* that was accepted waits, is being bound or has its slot until it ends.
THEOREM SlotsServeThoseWhoAsk == RealtimeSpec => []SlotsServeSubscriptions
<1>1. SlotProofs!Assumptions
  BY RealtimeAssumption DEF Video!Assumptions, SlotProofs!Assumptions
<1>2. RealtimeInit => SlotsInv
  BY <1>1, SameInit, SlotProofs!InitSound DEF RealtimeInit, SlotsInv
<1>3. SlotsInv => SlotsServeSubscriptions
  BY <1>1, SameProperty, SlotProofs!InvariantSuffices DEF SlotsInv, SlotsServeSubscriptions
<1> QED
  BY <1>2, <1>3, RealtimeSlots, PTL DEF RealtimeSpec

-----------------------------------------------------------------------------
(***************************************************************************)
(* Notifications, for any number of messages, users and connections.  What *)
(* a dispatch holds is nobody who is silent: who is muted is left out with *)
(* the settings, who may not read with the readers.                        *)
(***************************************************************************)
Hushed(m, u) == \E why \in Note!Reasons : <<u, why>> \in silent[m]
Untold(m, u) == note[m][u] = "none" /\ <<m, u>> \notin noteJobs \cup told

\* Why somebody is silent is still so.
SilenceIsNow ==
    \A m \in Note!MessageIds : \A u \in Members :
        /\ <<u, "author">> \in silent[m] => u = Author
        /\ <<u, "muted">> \in silent[m] => setting[u] = "off"
        /\ <<u, "barred">> \in silent[m] => u \notin readers

\* What a dispatch works through, and has done.
Spares(m, d) ==
    /\ d.at \in {"candidates", "readers"} => d.deliver = {}
    /\ d.at = "readers" => \A u \in d.todo : <<u, "muted">> \notin silent[m]
    /\ d.at \in {"loop", "insert", "commit"} => \A u \in d.todo \cup d.deliver : ~Hushed(m, u)
    /\ d.at \in {"insert", "commit"} => d.user \in Members /\ ~Hushed(m, d.user)

Dispatches(m) ==
    /\ message[m] = "none" => disp[m].at = "idle" /\ \A u \in Members : Untold(m, u)
    /\ Spares(m, disp[m])

NoteInv ==
    /\ Note!TypeOK /\ Note!NotificationsHaveJobs /\ Note!SilentUsersHearNothing
    /\ SilenceIsNow /\ \A m \in Note!MessageIds : Dispatches(m)

LEMMA NoteConstants ==
    ASSUME Note!Assumptions
    PROVE  /\ Author \in Members /\ None \notin Members
           /\ MaxMessages \in Nat /\ MaxNoteEvents \in Nat
BY DEF Note!Assumptions

\* The fields of a dispatch.
LEMMA DispatchFields ==
    ASSUME Note!TypeOK, NEW m \in Note!MessageIds
    PROVE  /\ disp[m] \in Note!Dispatch
           /\ disp[m].at \in {"idle", "candidates", "readers", "loop", "insert", "commit", "done"}
           /\ disp[m].triggered \subseteq Members /\ disp[m].all \subseteq Members
           /\ disp[m].todo \subseteq Members /\ disp[m].open \subseteq Members
           /\ disp[m].deliver \subseteq Members /\ disp[m].user \in Members \cup {None}
BY DEF Note!TypeOK, Note!Dispatch

\* The dispatch of m goes on as d, and has told nobody but U, who are not silent.
LEMMA DispatchGoesOn ==
    ASSUME NoteInv, NEW m \in Note!MessageIds, NEW d \in Note!Dispatch, NEW U \in SUBSET Members,
           disp' = [disp EXCEPT ![m] = d], Spares(m, d), message[m] # "none",
           UNCHANGED <<message, setting, readers, silent, lastRead, reading>>,
           \A u \in U : ~Hushed(m, u),
           note' \in [Note!MessageIds -> [Members -> {"none", "unread", "read"}]],
           \A k \in Note!MessageIds, u \in Members :
              note'[k][u] # note[k][u] => k = m /\ u \in U /\ <<m, u>> \in noteJobs',
           noteJobs \subseteq noteJobs', noteJobs' \subseteq noteJobs \cup ({m} \X U),
           told' \subseteq told \cup ({m} \X U),
           noteEvents' \in 0 .. MaxNoteEvents
    PROVE  NoteInv'
<1>1. /\ disp' \in [Note!MessageIds -> Note!Dispatch] /\ disp'[m] = d
      /\ \A k \in Note!MessageIds : k # m => disp'[k] = disp[k]
  BY DEF NoteInv, Note!TypeOK
<1>2. Note!TypeOK'
  <2>1. noteJobs' \subseteq Note!MessageIds \X Members /\ told' \subseteq Note!MessageIds \X Members
    BY DEF NoteInv, Note!TypeOK
  <2> QED
    BY <1>1, <2>1 DEF NoteInv, Note!TypeOK
<1>3. ASSUME NEW k \in Note!MessageIds, NEW u \in Members, Hushed(k, u)
      PROVE  note'[k][u] = "none" /\ <<k, u>> \notin noteJobs' \cup told'
  <2>1. note[k][u] = "none" /\ <<k, u>> \notin noteJobs \cup told
    BY <1>3 DEF NoteInv, Note!SilentUsersHearNothing, Hushed
  <2>2. ~(k = m /\ u \in U)
    BY <1>3
  <2> QED
    BY <2>1, <2>2
<1>4. Note!SilentUsersHearNothing'
  <2> SUFFICES ASSUME NEW k \in Note!MessageIds, NEW sw \in silent[k]
               PROVE  note'[k][sw[1]] = "none" /\ <<k, sw[1]>> \notin noteJobs' \cup told'
    BY DEF Note!SilentUsersHearNothing
  <2>1. sw[1] \in Members /\ sw[2] \in Note!Reasons /\ sw = <<sw[1], sw[2]>>
    BY DEF NoteInv, Note!TypeOK
  <2> QED
    BY <1>3, <2>1 DEF Hushed
<1>5. Note!NotificationsHaveJobs'
  BY DEF NoteInv, Note!NotificationsHaveJobs
<1>6. ASSUME NEW k \in Note!MessageIds
      PROVE  Dispatches(k)'
  <2>1. CASE k = m
    BY <1>1, <2>1 DEF Dispatches, Spares, Hushed
  <2>2. CASE k # m
    BY <1>1, <2>2 DEF NoteInv, Dispatches, Spares, Hushed, Untold
  <2> QED
    BY <2>1, <2>2
<1> QED
  BY <1>2, <1>4, <1>5, <1>6 DEF NoteInv, SilenceIsNow

LEMMA DispatchTellsNobody ==
    ASSUME NoteInv, NEW m \in Note!MessageIds, NEW d \in Note!Dispatch,
           disp' = [disp EXCEPT ![m] = d], Spares(m, d), message[m] # "none",
           UNCHANGED <<message, setting, readers, silent, lastRead, reading, note, noteJobs, told>>,
           noteEvents' \in 0 .. MaxNoteEvents
    PROVE  NoteInv'
<1>1. {} \in SUBSET Members /\ note \in [Note!MessageIds -> [Members -> {"none", "unread", "read"}]]
  BY DEF NoteInv, Note!TypeOK
<1> QED
  BY <1>1, DispatchGoesOn

LEMMA ListCandidatesKeeps ==
    ASSUME Note!Assumptions, NoteInv, NEW m \in Note!MessageIds, Note!ListChannelNotificationCandidates(m)
    PROVE  NoteInv'
<1> DEFINE d == [disp[m] EXCEPT !.at = "readers", !.todo = {u \in Members : setting[u] # "off"},
                                !.all = {u \in Members : setting[u] = "all"}]
<1>1. Note!TypeOK /\ disp[m] \in Note!Dispatch /\ disp[m].at = "candidates"
  BY DispatchFields DEF NoteInv, Note!ListChannelNotificationCandidates
<1>2. d \in Note!Dispatch /\ d.at = "readers" /\ d.deliver = disp[m].deliver
      /\ d.todo = {u \in Members : setting[u] # "off"}
  BY <1>1 DEF Note!Dispatch
<1>3. disp' = [disp EXCEPT ![m] = d]
  BY <1>1 DEF Note!ListChannelNotificationCandidates, Note!TypeOK
<1>4. UNCHANGED <<message, note, noteJobs, lastRead, setting, readers, told, reading, noteEvents, silent>>
  BY DEF Note!ListChannelNotificationCandidates, Note!rowVars
<1> HIDE DEF d
<1>5. Spares(m, d) /\ message[m] # "none"
  BY <1>1, <1>2 DEF NoteInv, Dispatches, Spares, SilenceIsNow
<1> QED
  BY <1>1, <1>2, <1>3, <1>4, <1>5, DispatchTellsNobody DEF Note!TypeOK

LEMMA ChannelReadersKeeps ==
    ASSUME Note!Assumptions, NoteInv, NEW m \in Note!MessageIds, Note!ChannelReaders(m)
    PROVE  NoteInv'
<1> DEFINE d == [disp[m] EXCEPT !.at = "loop", !.todo = Note!ToNotify(m) \cap readers]
<1>1. Note!TypeOK /\ disp[m] \in Note!Dispatch /\ disp[m].at = "readers" /\ disp[m].todo \subseteq Members
  BY DispatchFields DEF NoteInv, Note!ChannelReaders
<1>2. Note!ToNotify(m) \cap readers \subseteq (disp[m].todo \cap readers) \ {Author}
  BY DEF Note!ToNotify
<1>3. d \in Note!Dispatch /\ d.at = "loop" /\ d.deliver = disp[m].deliver
      /\ d.todo \subseteq (disp[m].todo \cap readers) \ {Author}
  BY <1>1, <1>2 DEF Note!Dispatch
<1>4. disp' = [disp EXCEPT ![m] = d]
  BY <1>1 DEF Note!ChannelReaders, Note!TypeOK
<1>5. UNCHANGED <<message, note, noteJobs, lastRead, setting, readers, told, reading, noteEvents, silent>>
  BY DEF Note!ChannelReaders, Note!rowVars
<1> HIDE DEF d
<1>6. \A u \in d.todo : ~Hushed(m, u)
  BY <1>1, <1>3 DEF NoteInv, Dispatches, Spares, SilenceIsNow, Hushed, Note!Reasons
<1>7. Spares(m, d) /\ message[m] # "none"
  BY <1>1, <1>3, <1>6 DEF NoteInv, Dispatches, Spares
<1> QED
  BY <1>1, <1>3, <1>4, <1>5, <1>7, DispatchTellsNobody DEF Note!TypeOK

LEMMA BeginTxKeeps ==
    ASSUME Note!Assumptions, NoteInv, NEW m \in Note!MessageIds, Note!BeginTx(m)
    PROVE  NoteInv'
<1>1. Note!TypeOK /\ disp[m] \in Note!Dispatch /\ disp[m].at = "loop"
  BY DispatchFields DEF NoteInv, Note!BeginTx
<1>2. PICK u \in disp[m].todo \cap disp[m].triggered :
         disp' = [disp EXCEPT ![m].at = "insert", ![m].user = u, ![m].todo = @ \ {u}, ![m].open = @ \cup {u}]
  BY DEF Note!BeginTx
<1> DEFINE d == [disp[m] EXCEPT !.at = "insert", !.user = u, !.todo = @ \ {u}, !.open = @ \cup {u}]
<1>3. u \in Members /\ u \in disp[m].todo
  BY <1>1, DispatchFields
<1>4. d \in Note!Dispatch /\ d.at = "insert" /\ d.deliver = disp[m].deliver /\ d.user = u
      /\ d.todo \subseteq disp[m].todo
  BY <1>1, <1>3 DEF Note!Dispatch
<1>5. disp' = [disp EXCEPT ![m] = d]
  BY <1>1, <1>2 DEF Note!TypeOK
<1>6. UNCHANGED <<message, note, noteJobs, lastRead, setting, readers, told, reading, noteEvents, silent>>
  BY DEF Note!BeginTx, Note!rowVars
<1> HIDE DEF d
<1>7. Spares(m, d) /\ message[m] # "none"
  BY <1>1, <1>3, <1>4 DEF NoteInv, Dispatches, Spares
<1> QED
  BY <1>1, <1>4, <1>5, <1>6, <1>7, DispatchTellsNobody DEF Note!TypeOK

LEMMA CreateNotificationKeeps ==
    ASSUME Note!Assumptions, NoteInv, NEW m \in Note!MessageIds, Note!CreateNotificationInTx(m)
    PROVE  NoteInv'
<1> DEFINE d == [disp[m] EXCEPT !.at = IF message[m] = "live" THEN "commit" ELSE "loop"]
<1>1. Note!TypeOK /\ disp[m] \in Note!Dispatch /\ disp[m].at = "insert"
  BY DispatchFields DEF NoteInv, Note!CreateNotificationInTx
<1>2. d \in Note!Dispatch /\ d.at \in {"commit", "loop"} /\ d.deliver = disp[m].deliver
      /\ d.todo = disp[m].todo /\ d.user = disp[m].user
  BY <1>1 DEF Note!Dispatch
<1>3. disp' = [disp EXCEPT ![m] = d]
  BY <1>1 DEF Note!CreateNotificationInTx, Note!TypeOK
<1>4. UNCHANGED <<message, note, noteJobs, lastRead, setting, readers, told, reading, noteEvents, silent>>
  BY DEF Note!CreateNotificationInTx, Note!rowVars
<1> HIDE DEF d
<1>5. Spares(m, d) /\ message[m] # "none"
  BY <1>1, <1>2 DEF NoteInv, Dispatches, Spares
<1> QED
  BY <1>1, <1>2, <1>3, <1>4, <1>5, DispatchTellsNobody DEF Note!TypeOK

LEMMA CreatePushJobInTxKeeps ==
    ASSUME Note!Assumptions, NoteInv, NEW m \in Note!MessageIds, Note!CreatePushJobInTx(m)
    PROVE  NoteInv'
<1>1. Note!TypeOK /\ disp[m] \in Note!Dispatch /\ disp[m].at = "commit"
  BY DispatchFields DEF NoteInv, Note!CreatePushJobInTx
<1>2. disp[m].user \in Members /\ ~Hushed(m, disp[m].user) /\ message[m] # "none"
  BY <1>1 DEF NoteInv, Dispatches, Spares
<1>3. UNCHANGED <<message, lastRead, setting, readers, told, reading, silent>>
  BY DEF Note!CreatePushJobInTx
<1>4. CASE Note!Fails /\ disp' = [disp EXCEPT ![m].at = "loop"] /\ UNCHANGED <<note, noteJobs>>
  <2> DEFINE d == [disp[m] EXCEPT !.at = "loop"]
  <2>1. d \in Note!Dispatch /\ d.at = "loop" /\ d.deliver = disp[m].deliver /\ d.todo = disp[m].todo
    BY <1>1 DEF Note!Dispatch
  <2>2. disp' = [disp EXCEPT ![m] = d]
    BY <1>1, <1>4 DEF Note!TypeOK
  <2>3. noteEvents' \in 0 .. MaxNoteEvents
    BY <1>1, <1>4, NoteConstants DEF Note!Fails, Note!TypeOK
  <2> HIDE DEF d
  <2>4. Spares(m, d)
    BY <1>1, <2>1 DEF NoteInv, Dispatches, Spares
  <2> QED
    BY <1>2, <1>3, <1>4, <2>1, <2>2, <2>3, <2>4, DispatchTellsNobody
<1> DEFINE u == disp[m].user
           d == [disp[m] EXCEPT !.at = "loop", !.open = @ \ {u}, !.deliver = @ \cup {u}]
<1>5. CASE /\ note' = [note EXCEPT ![m][u] = IF @ = "none" THEN "unread" ELSE @]
           /\ noteJobs' = noteJobs \cup {<<m, u>>}
           /\ disp' = [disp EXCEPT ![m].at = "loop", ![m].open = @ \ {u}, ![m].deliver = @ \cup {u}]
           /\ noteEvents' = noteEvents
  <2>1. d \in Note!Dispatch /\ d.at = "loop" /\ d.deliver = disp[m].deliver \cup {u} /\ d.todo = disp[m].todo
    BY <1>1, <1>2 DEF Note!Dispatch
  <2>2. disp' = [disp EXCEPT ![m] = d]
    BY <1>1, <1>5 DEF Note!TypeOK
  <2> HIDE DEF d
  <2>3. Spares(m, d)
    BY <1>1, <1>2, <2>1 DEF NoteInv, Dispatches, Spares
  <2>4. {u} \in SUBSET Members /\ \A q \in {u} : ~Hushed(m, q)
    BY <1>2
  <2>5. note' \in [Note!MessageIds -> [Members -> {"none", "unread", "read"}]]
    BY <1>1, <1>2, <1>5 DEF Note!TypeOK
  <2>6. \A k \in Note!MessageIds, q \in Members :
           note'[k][q] # note[k][q] => k = m /\ q \in {u} /\ <<m, q>> \in noteJobs'
    BY <1>1, <1>2, <1>5 DEF Note!TypeOK
  <2>7. noteEvents' \in 0 .. MaxNoteEvents
    BY <1>1, <1>5 DEF Note!TypeOK
  <2>8. noteJobs \subseteq noteJobs' /\ noteJobs' \subseteq noteJobs \cup ({m} \X {u}) /\ told' \subseteq told \cup ({m} \X {u})
    BY <1>3, <1>5
  <2> HIDE DEF u
  <2> QED
    BY <1>2, <1>3, <2>1, <2>2, <2>3, <2>4, <2>5, <2>6, <2>7, <2>8, DispatchGoesOn
<1> QED
  BY <1>4, <1>5 DEF Note!CreatePushJobInTx

LEMMA CreatePushJobKeeps ==
    ASSUME Note!Assumptions, NoteInv, NEW m \in Note!MessageIds, Note!CreatePushJob(m)
    PROVE  NoteInv'
<1>1. Note!TypeOK /\ disp[m] \in Note!Dispatch /\ disp[m].at = "loop"
  BY DispatchFields DEF NoteInv, Note!CreatePushJob
<1>2. PICK u \in disp[m].todo \ disp[m].triggered :
         /\ noteJobs' = noteJobs \cup {<<m, u>>}
         /\ disp' = [disp EXCEPT ![m].todo = @ \ {u}, ![m].deliver = @ \cup {u}]
  BY DEF Note!CreatePushJob
<1> DEFINE d == [disp[m] EXCEPT !.todo = @ \ {u}, !.deliver = @ \cup {u}]
<1>3. u \in Members /\ u \in disp[m].todo
  BY <1>1, DispatchFields
<1>4. d \in Note!Dispatch /\ d.at = "loop" /\ d.deliver = disp[m].deliver \cup {u}
      /\ d.todo \subseteq disp[m].todo
  BY <1>1, <1>3 DEF Note!Dispatch
<1>5. disp' = [disp EXCEPT ![m] = d]
  BY <1>1, <1>2 DEF Note!TypeOK
<1>6. UNCHANGED <<message, note, lastRead, setting, readers, told, reading, noteEvents, silent>>
  BY DEF Note!CreatePushJob
<1> HIDE DEF d
<1>7. Spares(m, d) /\ message[m] # "none" /\ ~Hushed(m, u)
  BY <1>1, <1>3, <1>4 DEF NoteInv, Dispatches, Spares
<1>8. {u} \in SUBSET Members /\ \A q \in {u} : ~Hushed(m, q)
  BY <1>3, <1>7
<1>9. noteJobs \subseteq noteJobs' /\ noteJobs' \subseteq noteJobs \cup ({m} \X {u}) /\ told' \subseteq told \cup ({m} \X {u})
  BY <1>2, <1>6
<1> QED
  BY <1>1, <1>4, <1>5, <1>6, <1>7, <1>8, <1>9, DispatchGoesOn DEF Note!TypeOK

LEMMA SendNotificationsKeeps ==
    ASSUME Note!Assumptions, NoteInv, NEW m \in Note!MessageIds, Note!SendNotifications(m)
    PROVE  NoteInv'
<1> DEFINE d == [Note!Idle EXCEPT !.at = "done"]
           U == disp[m].deliver
<1>1. Note!TypeOK /\ disp[m].at = "loop" /\ U \in SUBSET Members
  BY DispatchFields DEF NoteInv, Note!SendNotifications
<1>2. d \in Note!Dispatch /\ d.at = "done"
  BY DEF Note!Dispatch, Note!Idle
<1>3. disp' = [disp EXCEPT ![m] = d] /\ told' \subseteq told \cup ({m} \X U)
  BY DEF Note!SendNotifications
<1>4. UNCHANGED <<message, note, noteJobs, lastRead, setting, readers, reading, noteEvents, silent>>
  BY DEF Note!SendNotifications, Note!rowVars
<1>5. message[m] # "none" /\ \A u \in U : ~Hushed(m, u)
  BY <1>1 DEF NoteInv, Dispatches, Spares
<1> HIDE DEF d, U
<1>6. Spares(m, d)
  BY <1>2 DEF Spares
<1> QED
  BY <1>1, <1>2, <1>3, <1>4, <1>5, <1>6, DispatchGoesOn DEF Note!TypeOK

\* The other requests and statements leave every dispatch as it is.
LEMMA OutsideDispatches ==
    ASSUME NoteInv, Note!TypeOK', UNCHANGED <<disp, noteJobs, told>>,
           \A m \in Note!MessageIds : silent'[m] \subseteq silent[m],
           \A m \in Note!MessageIds : message'[m] = "none" => message[m] = "none",
           \A m \in Note!MessageIds, u \in Members :
              (note'[m][u] # "none" => note[m][u] # "none") /\ (note[m][u] = "none" => note'[m][u] = "none"),
           SilenceIsNow'
    PROVE  NoteInv'
<1>1. Note!NotificationsHaveJobs'
  BY DEF NoteInv, Note!NotificationsHaveJobs
<1>2. Note!SilentUsersHearNothing'
  <2> SUFFICES ASSUME NEW k \in Note!MessageIds, NEW sw \in silent'[k]
               PROVE  note'[k][sw[1]] = "none" /\ <<k, sw[1]>> \notin noteJobs' \cup told'
    BY DEF Note!SilentUsersHearNothing
  <2>1. sw \in silent[k] /\ sw[1] \in Members
    BY DEF NoteInv, Note!TypeOK
  <2> QED
    BY <2>1 DEF NoteInv, Note!SilentUsersHearNothing
<1>3. ASSUME NEW m \in Note!MessageIds PROVE Dispatches(m)'
  <2>1. \A u \in Members : Hushed(m, u)' => Hushed(m, u)
    BY DEF Hushed
  <2>2. Dispatches(m) /\ disp[m].todo \subseteq Members /\ disp[m].deliver \subseteq Members
    BY DispatchFields DEF NoteInv
  <2>3. message'[m] = "none" => disp'[m].at = "idle" /\ \A u \in Members : Untold(m, u)'
    BY <2>2 DEF Dispatches, Untold
  <2>4. Spares(m, disp[m])'
    BY <2>1, <2>2 DEF Dispatches, Spares
  <2> QED
    BY <2>3, <2>4 DEF Dispatches
<1> QED
  BY <1>1, <1>2, <1>3 DEF NoteInv

LEMMA PublishKeeps ==
    ASSUME Note!Assumptions, NoteInv, NEW m \in Note!MessageIds, Note!PublishCreatedMessage(m)
    PROVE  NoteInv'
<1>1. /\ message[m] = "none" /\ message' = [message EXCEPT ![m] = "live"]
      /\ UNCHANGED <<note, noteJobs, lastRead, setting, readers, told, reading, noteEvents>>
  BY DEF Note!PublishCreatedMessage
<1>2. PICK mentions \in SUBSET (Members \ {Author}), everyone \in BOOLEAN :
         disp' = [disp EXCEPT ![m] = [Note!Idle EXCEPT !.at = "candidates",
                                                       !.triggered = Note!Triggered(mentions, everyone)]]
  BY DEF Note!PublishCreatedMessage
<1> DEFINE d == [Note!Idle EXCEPT !.at = "candidates", !.triggered = Note!Triggered(mentions, everyone)]
           S == {<<Author, "author">>} \cup ({u \in Members : setting[u] = "off"} \X {"muted"})
                                       \cup ((Members \ readers) \X {"barred"})
<1>3. d \in Note!Dispatch /\ d.at = "candidates" /\ d.deliver = {}
  BY <1>2 DEF Note!Dispatch, Note!Idle, Note!Triggered
<1>4. disp' = [disp EXCEPT ![m] = d]
  BY <1>2
<1>5. silent' = [silent EXCEPT ![m] = S]
  BY DEF Note!PublishCreatedMessage
<1>6. S \subseteq Members \X Note!Reasons
  BY NoteConstants DEF Note!Reasons
<1> HIDE DEF d
<1>7. /\ disp' \in [Note!MessageIds -> Note!Dispatch] /\ disp'[m] = d
      /\ \A k \in Note!MessageIds : k # m => disp'[k] = disp[k]
  BY <1>3, <1>4 DEF NoteInv, Note!TypeOK
<1>8. /\ silent'[m] = S /\ silent' \in [Note!MessageIds -> SUBSET (Members \X Note!Reasons)]
      /\ \A k \in Note!MessageIds : k # m => silent'[k] = silent[k]
  <2> HIDE DEF S
  <2> QED
    BY <1>5, <1>6 DEF NoteInv, Note!TypeOK
<1>9. Note!TypeOK' /\ SilenceIsNow'
  <2>1. Note!TypeOK'
    <3> HIDE DEF S
    <3> QED
      BY <1>1, <1>7, <1>8 DEF NoteInv, Note!TypeOK
  <2>2. SilenceIsNow'
    <3>1. ASSUME NEW u \in Members
          PROVE  /\ <<u, "author">> \in S => u = Author
                 /\ <<u, "muted">> \in S => setting[u] = "off"
                 /\ <<u, "barred">> \in S => u \notin readers
      OBVIOUS
    <3> HIDE DEF S
    <3> QED
      BY <1>1, <1>8, <3>1 DEF NoteInv, SilenceIsNow
  <2> QED
    BY <2>1, <2>2
<1>10. Note!NotificationsHaveJobs'
  BY <1>1 DEF NoteInv, Note!NotificationsHaveJobs
<1>11. \A u \in Members : Untold(m, u)
  BY <1>1 DEF NoteInv, Dispatches
<1> HIDE DEF S
<1>12. Note!SilentUsersHearNothing'
  <2> SUFFICES ASSUME NEW k \in Note!MessageIds, NEW sw \in silent'[k]
               PROVE  note[k][sw[1]] = "none" /\ <<k, sw[1]>> \notin noteJobs \cup told
    BY <1>1 DEF Note!SilentUsersHearNothing
  <2>1. CASE k = m
    BY <1>6, <1>8, <1>11, <2>1 DEF Untold
  <2>2. CASE k # m
    BY <1>8, <2>2 DEF NoteInv, Note!SilentUsersHearNothing
  <2> QED
    BY <2>1, <2>2
<1>13. ASSUME NEW k \in Note!MessageIds PROVE Dispatches(k)'
  <2>1. CASE k = m
    <3>1. message'[k] # "none"
      BY <1>1, <2>1 DEF NoteInv, Note!TypeOK
    <3> QED
      BY <1>3, <1>7, <2>1, <3>1 DEF Dispatches, Spares
  <2>2. CASE k # m
    <3>1. message'[k] = message[k]
      BY <1>1, <2>2 DEF NoteInv, Note!TypeOK
    <3> QED
      BY <1>1, <1>7, <1>8, <2>2, <3>1 DEF NoteInv, Dispatches, Spares, Untold, Hushed
  <2> QED
    BY <2>1, <2>2
<1> QED
  BY <1>9, <1>10, <1>12, <1>13 DEF NoteInv

LEMMA ReadStepKeeps ==
    ASSUME Note!Assumptions, NoteInv, NEW u \in Members, Note!ReadStep(u)
    PROVE  NoteInv'
<1>1. CASE Note!TouchLastReadMessage(u)
  <2>1. UNCHANGED <<message, note, noteJobs, setting, readers, told, disp, noteEvents, silent>>
    BY <1>1 DEF Note!TouchLastReadMessage
  <2>2. lastRead' \in [Members -> 0 .. MaxMessages] /\ reading' \in [Members -> [at : {"idle", "touch", "mark"}, upTo : 0 .. MaxMessages]]
    BY <1>1 DEF Note!TouchLastReadMessage, NoteInv, Note!TypeOK
  <2>3. Note!TypeOK' /\ SilenceIsNow'
    BY <2>1, <2>2 DEF NoteInv, Note!TypeOK, SilenceIsNow
  <2> QED
    BY <2>1, <2>3, OutsideDispatches
<1>2. CASE Note!MarkChannelNotificationsReadUpTo(u)
  <2>1. UNCHANGED <<message, noteJobs, lastRead, setting, readers, told, disp, silent>>
    BY <1>2 DEF Note!MarkChannelNotificationsReadUpTo
  <2>2. reading' \in [Members -> [at : {"idle", "touch", "mark"}, upTo : 0 .. MaxMessages]]
    BY <1>2, NoteConstants DEF Note!MarkChannelNotificationsReadUpTo, NoteInv, Note!TypeOK, Note!NotReading
  <2>3. noteEvents' \in 0 .. MaxNoteEvents
    BY <1>2, NoteConstants DEF Note!MarkChannelNotificationsReadUpTo, NoteInv, Note!TypeOK, Note!Fails
  <2>4. /\ note' \in [Note!MessageIds -> [Members -> {"none", "unread", "read"}]]
        /\ \A m \in Note!MessageIds, q \in Members : note'[m][q] = "none" <=> note[m][q] = "none"
    BY <1>2 DEF Note!MarkChannelNotificationsReadUpTo, NoteInv, Note!TypeOK, Note!Read
  <2>5. Note!TypeOK' /\ SilenceIsNow'
    BY <2>1, <2>2, <2>3, <2>4 DEF NoteInv, Note!TypeOK, SilenceIsNow
  <2> QED
    BY <2>1, <2>4, <2>5, OutsideDispatches
<1> QED
  BY <1>1, <1>2 DEF Note!ReadStep

LEMMA OutsideKeeps ==
    ASSUME Note!Assumptions, NoteInv, Note!Outside
    PROVE  NoteInv'
<1>1. noteEvents' \in 0 .. MaxNoteEvents
  BY NoteConstants DEF Note!Outside, Note!Fails, NoteInv, Note!TypeOK
<1>2. ASSUME NEW m \in Note!MessageIds, Note!DeleteMessage(m) PROVE NoteInv'
  <2>1. UNCHANGED <<noteJobs, lastRead, setting, readers, told, disp, reading, silent>>
    BY <1>2 DEF Note!DeleteMessage
  <2>2. message' \in [Note!MessageIds -> {"none", "live", "gone"}] /\ \A k \in Note!MessageIds : message'[k] = "none" => message[k] = "none"
    BY <1>2 DEF Note!DeleteMessage, NoteInv, Note!TypeOK
  <2>3. /\ note' \in [Note!MessageIds -> [Members -> {"none", "unread", "read"}]]
        /\ \A k \in Note!MessageIds, q \in Members : note'[k][q] = note[k][q] \/ note'[k][q] = "none"
    BY <1>2 DEF Note!DeleteMessage, NoteInv, Note!TypeOK
  <2>4. Note!TypeOK' /\ SilenceIsNow'
    BY <1>1, <2>1, <2>2, <2>3 DEF NoteInv, Note!TypeOK, SilenceIsNow
  <2> QED
    BY <2>1, <2>2, <2>3, <2>4, OutsideDispatches
<1>3. ASSUME NEW u \in Members, NEW why \in Note!Reasons, NEW m \in Note!MessageIds
      PROVE  Note!Unsilence(u, why)[m] = silent[m] \ {<<u, why>>}
  BY DEF Note!Unsilence
<1>4. ASSUME NEW u \in Members, NEW why \in {"muted", "barred"}, silent' \in {silent, Note!Unsilence(u, why)}
      PROVE  /\ silent' \in [Note!MessageIds -> SUBSET (Members \X Note!Reasons)]
             /\ \A m \in Note!MessageIds : silent'[m] \subseteq silent[m]
  <2>1. silent \in [Note!MessageIds -> SUBSET (Members \X Note!Reasons)]
    BY DEF NoteInv, Note!TypeOK
  <2>2. Note!Unsilence(u, why) \in [Note!MessageIds -> SUBSET (Members \X Note!Reasons)]
    BY <2>1 DEF Note!Unsilence
  <2>3. \A m \in Note!MessageIds : Note!Unsilence(u, why)[m] \subseteq silent[m]
    BY DEF Note!Unsilence
  <2> QED
    BY <1>4, <2>1, <2>2, <2>3
<1>5. ASSUME NEW u \in Members, Note!PermissionsChange(u) PROVE NoteInv'
  <2>1. UNCHANGED <<message, note, noteJobs, lastRead, setting, told, disp, reading>>
    BY <1>5 DEF Note!PermissionsChange, Note!rowVars
  <2>2. readers' = (IF u \in readers THEN readers \ {u} ELSE readers \cup {u})
        /\ silent' = IF u \in readers' THEN Note!Unsilence(u, "barred") ELSE silent
    BY <1>5 DEF Note!PermissionsChange
  <2>3. /\ silent' \in [Note!MessageIds -> SUBSET (Members \X Note!Reasons)]
        /\ \A m \in Note!MessageIds : silent'[m] \subseteq silent[m]
    BY <1>4, <2>2
  <2>4. \A m \in Note!MessageIds : u \in readers' => <<u, "barred">> \notin silent'[m]
    BY <2>2 DEF Note!Unsilence
  <2>5. Note!TypeOK' /\ SilenceIsNow'
    BY <1>1, <2>1, <2>2, <2>3, <2>4 DEF NoteInv, Note!TypeOK, SilenceIsNow
  <2> QED
    BY <2>1, <2>3, <2>5, OutsideDispatches
<1>6. ASSUME NEW u \in Members, NEW s \in Note!Settings, Note!UpdateChannelUserSetting(u, s) PROVE NoteInv'
  <2>1. UNCHANGED <<message, note, noteJobs, lastRead, readers, told, disp, reading>>
    BY <1>6 DEF Note!UpdateChannelUserSetting, Note!rowVars
  <2>2. setting' = [setting EXCEPT ![u] = s] /\ silent' = IF s # "off" THEN Note!Unsilence(u, "muted") ELSE silent
    BY <1>6 DEF Note!UpdateChannelUserSetting, Note!UpsertChannelUserSetting
  <2>3. /\ silent' \in [Note!MessageIds -> SUBSET (Members \X Note!Reasons)]
        /\ \A m \in Note!MessageIds : silent'[m] \subseteq silent[m]
    BY <1>4, <2>2
  <2>4. \A m \in Note!MessageIds : s # "off" => <<u, "muted">> \notin silent'[m]
    BY <2>2 DEF Note!Unsilence
  <2>5. Note!TypeOK' /\ SilenceIsNow'
    BY <1>1, <2>1, <2>2, <2>3, <2>4 DEF NoteInv, Note!TypeOK, SilenceIsNow
  <2> QED
    BY <2>1, <2>3, <2>5, OutsideDispatches
<1>7. ASSUME NEW u \in Members, NEW m \in Note!MessageIds, Note!MarkChannelRead(u, m) PROVE NoteInv'
  <2>1. UNCHANGED <<message, note, noteJobs, lastRead, setting, readers, told, disp, silent>>
    BY <1>7 DEF Note!MarkChannelRead, Note!rowVars
  <2>2. reading' \in [Members -> [at : {"idle", "touch", "mark"}, upTo : 0 .. MaxMessages]]
    BY <1>7, NoteConstants DEF Note!MarkChannelRead, NoteInv, Note!TypeOK, Note!MessageIds
  <2>3. Note!TypeOK' /\ SilenceIsNow'
    BY <1>1, <2>1, <2>2 DEF NoteInv, Note!TypeOK, SilenceIsNow
  <2> QED
    BY <2>1, <2>3, OutsideDispatches
<1>8. ASSUME NEW u \in Members, NEW M \in SUBSET Note!MessageIds, Note!MarkUserNotificationsRead(u, M) PROVE NoteInv'
  <2>1. UNCHANGED <<message, noteJobs, lastRead, setting, readers, told, disp, reading, silent>>
    BY <1>8 DEF Note!MarkUserNotificationsRead
  <2>2. /\ note' \in [Note!MessageIds -> [Members -> {"none", "unread", "read"}]]
        /\ \A m \in Note!MessageIds, q \in Members : note'[m][q] = "none" <=> note[m][q] = "none"
    BY <1>8 DEF Note!MarkUserNotificationsRead, Note!RowsRead, Note!Read, NoteInv, Note!TypeOK
  <2>3. Note!TypeOK' /\ SilenceIsNow'
    BY <1>1, <2>1, <2>2 DEF NoteInv, Note!TypeOK, SilenceIsNow
  <2> QED
    BY <2>1, <2>2, <2>3, OutsideDispatches
<1> QED
  BY <1>2, <1>5, <1>6, <1>7, <1>8
     DEF Note!Outside, Note!UpdateChannelUserSettingHandler, Note!MarkChannelReadHandler, Note!ReadNotificationHandler

LEMMA NoteNextKeeps ==
    ASSUME Note!Assumptions, NoteInv, Note!Next
    PROVE  NoteInv'
<1>1. ASSUME NEW m \in Note!MessageIds, Note!DispatchStep(m) PROVE NoteInv'
  BY <1>1, ListCandidatesKeeps, ChannelReadersKeeps, BeginTxKeeps, CreateNotificationKeeps, CreatePushJobInTxKeeps,
     CreatePushJobKeeps, SendNotificationsKeeps DEF Note!DispatchStep
<1> QED
  BY <1>1, PublishKeeps, ReadStepKeeps, OutsideKeeps DEF Note!Next

\* Only TouchLastReadMessage moves the position, and only forwards or from a
\* message that is gone.
LEMMA LastReadMoves ==
    ASSUME Note!Assumptions, NoteInv, Note!Next
    PROVE  Note!LastReadAdvancesStep
<1> SUFFICES ASSUME NEW u \in Members, lastRead'[u] # lastRead[u]
             PROVE  lastRead[u] < lastRead'[u] \/ message[lastRead[u]] = "gone"
  BY DEF Note!LastReadAdvancesStep
<1>1. PICK q \in Members : Note!TouchLastReadMessage(q)
  BY DEF Note!Next, Note!DispatchStep, Note!ReadStep, Note!Outside, Note!PublishCreatedMessage,
     Note!ListChannelNotificationCandidates, Note!ChannelReaders, Note!BeginTx, Note!CreateNotificationInTx,
     Note!CreatePushJobInTx, Note!CreatePushJob, Note!SendNotifications, Note!MarkChannelNotificationsReadUpTo,
     Note!DeleteMessage, Note!PermissionsChange, Note!UpdateChannelUserSettingHandler, Note!UpdateChannelUserSetting,
     Note!MarkChannelReadHandler, Note!MarkChannelRead, Note!ReadNotificationHandler, Note!MarkUserNotificationsRead,
     Note!rowVars
<1>2. /\ lastRead \in [Members -> 0 .. MaxMessages]
      /\ reading[q].upTo \in 0 .. MaxMessages
  BY DEF NoteInv, Note!TypeOK
<1> QED
  BY <1>1, <1>2, NoteConstants DEF Note!TouchLastReadMessage

LEMMA NoteInitInv ==
    ASSUME Note!Assumptions, Note!Init
    PROVE  NoteInv
<1>1. Note!Idle \in Note!Dispatch /\ Note!Idle.at = "idle"
  BY DEF Note!Idle, Note!Dispatch
<1>2. Note!TypeOK
  <2>1. setting \in [Members -> Note!Settings]
    BY DEF Note!Init, Note!Settings
  <2>2. lastRead \in [Members -> 0 .. MaxMessages] /\ noteEvents \in 0 .. MaxNoteEvents
        /\ reading \in [Members -> [at : {"idle", "touch", "mark"}, upTo : 0 .. MaxMessages]]
    BY NoteConstants DEF Note!Init, Note!NotReading
  <2>3. disp \in [Note!MessageIds -> Note!Dispatch]
    BY <1>1 DEF Note!Init
  <2> QED
    BY <2>1, <2>2, <2>3 DEF Note!Init, Note!TypeOK
<1>3. \A m \in Note!MessageIds : Dispatches(m)
  BY <1>1 DEF Note!Init, Dispatches, Spares, Untold
<1> QED
  BY <1>2, <1>3 DEF Note!Init, NoteInv, Note!NotificationsHaveJobs, Note!SilentUsersHearNothing, SilenceIsNow

NotesInv == part = "notifications" => NoteInv

LEMMA RealtimeNotes ==
    NotesInv /\ [RealtimeNext]_realtimeVars =>
        /\ NotesInv'
        /\ [part = "notifications" => Note!LastReadAdvancesStep]_realtimeVars
<1> SUFFICES ASSUME part = "notifications" => NoteInv, [RealtimeNext]_realtimeVars,
                    part = "notifications" \/ part' = "notifications"
             PROVE  NoteInv' /\ [Note!LastReadAdvancesStep]_realtimeVars
  BY DEF NotesInv
<1>1. part = "notifications" /\ (Note!Next \/ UNCHANGED realtimeVars)
  BY DEF RealtimeNext, realtimeVars
<1>2. CASE Note!Next
  BY <1>1, <1>2, NoteNextKeeps, LastReadMoves, RealtimeAssumption
<1>3. CASE UNCHANGED realtimeVars
  <2>1. UNCHANGED noteVars
    BY <1>3 DEF realtimeVars
  <2>2. Note!TypeOK'
    BY <1>1, <2>1 DEF noteVars, NoteInv, Note!TypeOK
  <2>3. SilenceIsNow' /\ UNCHANGED <<disp, noteJobs, told, silent, message, note>>
    BY <1>1, <2>1 DEF noteVars, NoteInv, SilenceIsNow
  <2> QED
    BY <1>1, <1>3, <2>2, <2>3, OutsideDispatches
<1> QED
  BY <1>1, <1>2, <1>3

\* A notification and its push job are committed together, who is silent hears
\* nothing and the position read last never goes back, for any number of
\* messages, users, connections and failures.
THEOREM NotificationsStayRight == RealtimeSpec => NotificationsAreRight
<1>1. RealtimeInit => NotesInv
  BY RealtimeAssumption, NoteInitInv DEF RealtimeInit, NotesInv
<1>2. NotesInv =>
        (part = "notifications" => Note!TypeOK /\ Note!NotificationsHaveJobs /\ Note!SilentUsersHearNothing)
  BY DEF NotesInv, NoteInv
<1> QED
  BY <1>1, <1>2, RealtimeNotes, PTL DEF RealtimeSpec, NotificationsAreRight

-----------------------------------------------------------------------------
(***************************************************************************)
(* The packets of a slot (Forwarder), for any publishers, buffers and      *)
(* bindings and any modulus.  The translator knows the last number given,  *)
(* and while it has an owner the offset that made it; a forwarder that has *)
(* a packet to write has one only, its last.                               *)
(***************************************************************************)
\* Only what is bound is being put.
PutsAreBound == putting.at # "idle" => bound \in Packets!Forwarders /\ putting.packet \in Packets!Packet

TranslatorKnowsTheLast ==
    /\ numbered = <<>> => translator.owner = None
    /\ numbered # <<>> =>
          /\ translator.hasWritten /\ translator.last = numbered[Len(numbered)].ssn
          /\ translator.owner # None =>
                /\ translator.owner = numbered[Len(numbered)].from
                /\ translator.last = (numbered[Len(numbered)].n + translator.offset) % Modulus

\* A forwarder waits for a keyframe, or is about to number one.
Going(h) == h.at = "translate" \/ (h.at = "reset" /\ h.taken # Packets!NoPacket)
Primed(h) == IF Going(h) THEN h.taken.key ELSE h.waitingKeyframe
Silent(f) == \A j \in DOMAIN numbered : numbered[j].by # f
NewWaitForKeyframe == kind = "video" => \A f \in Packets!Forwarders : Silent(f) => Primed(forwarder[f])

Holding(h) == h.at \in {"decide", "translate"} => h.taken \in Packets!Packet
HandsAreFull == \A f \in Packets!Forwarders :
    Holding(forwarder[f]) /\ (f > made => forwarder[f].at = "select")

\* What a forwarder has still to write is the last it numbered.
OnlyTheLastIsUnwritten ==
    \A f \in Packets!Forwarders : \A i \in Packets!Unwritten(f) :
        /\ forwarder[f].at = "write"
        /\ \A j \in DOMAIN numbered : numbered[j].by = f => j <= i

NumberedStartsWithKeyframe ==
    kind = "video" =>
        \A i \in DOMAIN numbered :
            (\A j \in 1 .. i - 1 : numbered[j].by # numbered[i].by) => numbered[i].key

PacketInv ==
    /\ Packets!TypeOK /\ PutsAreBound /\ TranslatorKnowsTheLast /\ NewWaitForKeyframe
    /\ HandsAreFull /\ OnlyTheLastIsUnwritten
    /\ Packets!SequenceContinues /\ Packets!WritesAreLateByOne /\ NumberedStartsWithKeyframe

LEMMA PacketConstants ==
    ASSUME Packets!Assumptions
    PROVE  /\ None \notin Senders /\ Buffer \in Nat \ {0} /\ Modulus \in Nat \ {0, 1}
           /\ MaxPackets \in Nat /\ MaxForwarders \in Nat \ {0}
BY DEF Packets!Assumptions

LEMMA NoPacketIsNone ==
    ASSUME Packets!Assumptions
    PROVE  Packets!NoPacket \notin Packets!Packet
BY PacketConstants DEF Packets!NoPacket, Packets!Packet

\* What has been numbered and written stays; a forwarder waits for its keyframe
\* until it has numbered one, and for the write until it has written.
LEMMA NothingSentKeeps ==
    ASSUME PacketInv, Packets!TypeOK', PutsAreBound', HandsAreFull', UNCHANGED <<kind, numbered, written>>,
           translator' = translator \/ translator' = Packets!ResetSource(translator),
           \A f \in Packets!Forwarders :
               /\ kind = "video" /\ Primed(forwarder[f]) => Primed(forwarder'[f])
               /\ forwarder[f].at = "write" => forwarder'[f].at = "write"
    PROVE  PacketInv'
<1>1. /\ translator'.last = translator.last /\ translator'.offset = translator.offset
      /\ translator'.hasWritten = translator.hasWritten /\ translator'.owner \in {translator.owner, None}
  BY DEF PacketInv, Packets!TypeOK, Packets!ResetSource
<1>2. TranslatorKnowsTheLast'
  BY <1>1 DEF PacketInv, TranslatorKnowsTheLast
<1>3. NewWaitForKeyframe'
  BY DEF PacketInv, NewWaitForKeyframe, Silent
<1>4. OnlyTheLastIsUnwritten'
  BY DEF PacketInv, OnlyTheLastIsUnwritten, Packets!Unwritten
<1>5. Packets!SequenceContinues' /\ Packets!WritesAreLateByOne' /\ NumberedStartsWithKeyframe'
  BY DEF PacketInv, Packets!SequenceContinues, Packets!Adjacent, Packets!Step,
         Packets!WritesAreLateByOne, NumberedStartsWithKeyframe
<1> QED
  BY <1>2, <1>3, <1>4, <1>5 DEF PacketInv

\* A step that changes one forwarder.
LEMMA OneForwarder ==
    ASSUME PacketInv, NEW f \in Packets!Forwarders, NEW g \in Packets!ForwarderState,
           forwarder' = [forwarder EXCEPT ![f] = g], Len(g.queue) <= Buffer
    PROVE  /\ forwarder' \in [Packets!Forwarders -> Packets!ForwarderState]
           /\ \A k \in Packets!Forwarders : Len(forwarder'[k].queue) <= Buffer
           /\ forwarder'[f] = g /\ \A k \in Packets!Forwarders : k # f => forwarder'[k] = forwarder[k]
<1>1. forwarder \in [Packets!Forwarders -> Packets!ForwarderState]
  BY DEF PacketInv, Packets!TypeOK
<1> QED
  BY <1>1 DEF PacketInv, Packets!TypeOK

LEMMA NewForwarderFacts ==
    ASSUME Packets!Assumptions, NEW p \in Senders \cup {None}
    PROVE  /\ Packets!NewForwarder(p) \in Packets!ForwarderState
           /\ Len(Packets!NewForwarder(p).queue) <= Buffer
           /\ kind = "video" => Packets!NewForwarder(p).waitingKeyframe
           /\ Packets!NewForwarder(p).at = "select"
<1>0. Packets!NewForwarder(p).at = "select"
  BY DEF Packets!NewForwarder
<1>1. Packets!NewForwarder(p).queue = <<>>
  BY DEF Packets!NewForwarder
<1>2. (kind = "video") \in BOOLEAN
  OBVIOUS
<1>3. Packets!NewForwarder(p).waitingKeyframe = (kind = "video")
  BY DEF Packets!NewForwarder
<1>4. Packets!NewForwarder(p) \in Packets!ForwarderState
  <2>1. ASSUME NEW w \in BOOLEAN
        PROVE  [owner |-> p, done |-> FALSE, queue |-> <<>>, taken |-> Packets!NoPacket, at |-> "select",
                waitingKeyframe |-> w, resyncNeeded |-> FALSE, wasMuted |-> FALSE] \in Packets!ForwarderState
    <3>1. <<>> \in Seq(Packets!Packet) /\ Packets!NoPacket \in Packets!Packet \cup {Packets!NoPacket}
      OBVIOUS
    <3> QED
      BY <3>1 DEF Packets!ForwarderState
  <2> QED
    BY <1>2, <2>1, Zenon DEF Packets!NewForwarder
<1>5. Len(<<>>) <= Buffer
  BY PacketConstants
<1>6. Len(Packets!NewForwarder(p).queue) <= Buffer
  BY <1>1, <1>5, Zenon
<1>7. kind = "video" => Packets!NewForwarder(p).waitingKeyframe
  BY <1>3, Zenon
<1> QED
  BY <1>0, <1>4, <1>6, <1>7, Zenon

LEMMA FinishedFacts ==
    ASSUME Packets!Assumptions, PacketInv
    PROVE  /\ Packets!Finished \in [Packets!Forwarders -> Packets!ForwarderState]
           /\ \A f \in Packets!Forwarders :
                /\ Len(Packets!Finished[f].queue) <= Buffer
                /\ Packets!Finished[f].waitingKeyframe = forwarder[f].waitingKeyframe
                /\ Packets!Finished[f].at = forwarder[f].at /\ Packets!Finished[f].taken = forwarder[f].taken
<1>1. forwarder \in [Packets!Forwarders -> Packets!ForwarderState]
  BY DEF PacketInv, Packets!TypeOK
<1>2. \A f \in Packets!Forwarders : Len(forwarder[f].queue) <= Buffer
  BY DEF PacketInv, Packets!TypeOK
<1>3. CASE bound = 0
  BY <1>1, <1>2, <1>3 DEF Packets!Finished
<1>4. CASE bound # 0
  <2>1. bound \in Packets!Forwarders
    BY <1>4, PacketConstants DEF PacketInv, Packets!TypeOK, Packets!Forwarders
  <2> DEFINE g == [forwarder[bound] EXCEPT !.done = TRUE]
  <2>2. /\ g \in Packets!ForwarderState /\ g.queue = forwarder[bound].queue /\ g.waitingKeyframe = forwarder[bound].waitingKeyframe
        /\ g.at = forwarder[bound].at /\ g.taken = forwarder[bound].taken
    BY <1>1, <2>1 DEF Packets!ForwarderState
  <2>3. Packets!Finished = [forwarder EXCEPT ![bound] = g]
    BY <1>1, <1>4, <2>1 DEF Packets!Finished
  <2> HIDE DEF g
  <2> QED
    BY <1>1, <1>2, <2>1, <2>2, <2>3
<1> QED
  BY <1>3, <1>4

LEMMA AssignKeeps ==
    ASSUME Packets!Assumptions, PacketInv, NEW p \in Senders, Packets!Assign(p), UNCHANGED kind
    PROVE  PacketInv'
<1>1. /\ made < MaxForwarders /\ made' = made + 1 /\ bound' = made' /\ putting.at = "idle"
      /\ translator' = Packets!ResetSource(translator)
      /\ UNCHANGED <<ended, packets, packetMuted, putting, numbered, written>>
  BY DEF Packets!Assign, Packets!Idle
<1>2. made' \in Packets!Forwarders /\ made' \in 0 .. MaxForwarders /\ bound' \in 0 .. made'
  BY <1>1, PacketConstants DEF PacketInv, Packets!TypeOK, Packets!Forwarders
<1> DEFINE F == Packets!Finished
           g == Packets!NewForwarder(p)
<1>3. forwarder' = [F EXCEPT ![made'] = g]
  BY DEF Packets!Assign
<1>4. /\ g \in Packets!ForwarderState /\ Len(g.queue) <= Buffer /\ (kind = "video" => g.waitingKeyframe)
      /\ g.at = "select"
  BY NewForwarderFacts
<1>5. /\ F \in [Packets!Forwarders -> Packets!ForwarderState]
      /\ \A f \in Packets!Forwarders :
            /\ Len(F[f].queue) <= Buffer /\ F[f].waitingKeyframe = forwarder[f].waitingKeyframe
            /\ F[f].at = forwarder[f].at /\ F[f].taken = forwarder[f].taken
  BY FinishedFacts
<1> HIDE DEF F, g
<1>6. /\ forwarder' \in [Packets!Forwarders -> Packets!ForwarderState]
      /\ \A f \in Packets!Forwarders : Len(forwarder'[f].queue) <= Buffer
  BY <1>2, <1>3, <1>4, <1>5
<1>7. translator' \in [owner : Senders \cup {None}, offset : Packets!Number, last : Packets!Number, hasWritten : BOOLEAN]
  BY <1>1 DEF PacketInv, Packets!TypeOK, Packets!ResetSource
<1>8. Packets!TypeOK'
  BY <1>1, <1>2, <1>6, <1>7 DEF PacketInv, Packets!TypeOK
<1>9. PutsAreBound'
  BY <1>1 DEF PutsAreBound
<1>10. forwarder'[made'] = g /\ \A f \in Packets!Forwarders : f # made' => forwarder'[f] = F[f]
  BY <1>2, <1>3, <1>5
<1>11. made \in Nat /\ made' = made + 1 /\ (\A f \in Packets!Forwarders : f \in Nat) /\ made' > made
  BY <1>1, PacketConstants DEF PacketInv, Packets!TypeOK, Packets!Forwarders
<1>12. HandsAreFull'
  <2>1. ASSUME NEW f \in Packets!Forwarders
        PROVE  Holding(forwarder'[f]) /\ (f > made' => forwarder'[f].at = "select")
    <3>1. CASE f = made'
      BY <1>4, <1>10, <3>1 DEF Holding
    <3>2. CASE f # made'
      <4>1. f > made' => f > made
        BY <1>11
      <4> QED
        BY <1>5, <1>10, <3>2, <4>1 DEF PacketInv, HandsAreFull, Holding
    <3> QED
      BY <3>1, <3>2
  <2> QED
    BY <2>1 DEF HandsAreFull
<1>13. \A f \in Packets!Forwarders :
           /\ kind = "video" /\ Primed(forwarder[f]) => Primed(forwarder'[f])
           /\ forwarder[f].at = "write" => forwarder'[f].at = "write"
  <2>1. ASSUME NEW f \in Packets!Forwarders
        PROVE  /\ kind = "video" /\ Primed(forwarder[f]) => Primed(forwarder'[f])
               /\ forwarder[f].at = "write" => forwarder'[f].at = "write"
    <3>1. CASE f = made'
      <4>1. forwarder[f].at = "select"
        BY <1>11, <3>1 DEF PacketInv, HandsAreFull
      <4> QED
        BY <1>4, <1>10, <3>1, <4>1 DEF Primed, Going
    <3>2. CASE f # made'
      BY <1>5, <1>10, <3>2 DEF Primed, Going
    <3> QED
      BY <3>1, <3>2
  <2> QED
    BY <2>1
<1> QED
  BY <1>1, <1>8, <1>9, <1>12, <1>13, NothingSentKeeps

LEMMA ReleaseKeeps ==
    ASSUME Packets!Assumptions, PacketInv, Packets!Release, UNCHANGED kind
    PROVE  PacketInv'
<1>1. /\ bound' = 0 /\ forwarder' = Packets!Finished /\ putting.at = "idle"
      /\ UNCHANGED <<made, ended, packets, packetMuted, putting, translator, numbered, written>>
  BY DEF Packets!Release, Packets!Idle
<1>2. /\ forwarder' \in [Packets!Forwarders -> Packets!ForwarderState]
      /\ \A f \in Packets!Forwarders :
           /\ Len(forwarder'[f].queue) <= Buffer /\ forwarder'[f].waitingKeyframe = forwarder[f].waitingKeyframe
           /\ forwarder'[f].at = forwarder[f].at /\ forwarder'[f].taken = forwarder[f].taken
  BY <1>1, FinishedFacts
<1>3. made' \in 0 .. MaxForwarders /\ bound' \in 0 .. made'
  BY <1>1, PacketConstants DEF PacketInv, Packets!TypeOK
<1>4. Packets!TypeOK'
  BY <1>1, <1>2, <1>3 DEF PacketInv, Packets!TypeOK
<1>5. PutsAreBound'
  BY <1>1 DEF PutsAreBound
<1>6. HandsAreFull'
  BY <1>1, <1>2 DEF PacketInv, HandsAreFull, Holding
<1>7. \A f \in Packets!Forwarders :
           /\ kind = "video" /\ Primed(forwarder[f]) => Primed(forwarder'[f])
           /\ forwarder[f].at = "write" => forwarder'[f].at = "write"
  BY <1>2 DEF Primed, Going
<1> QED
  BY <1>1, <1>4, <1>5, <1>6, <1>7, NothingSentKeeps

LEMMA SetMutedKeeps ==
    ASSUME PacketInv, NEW p \in Senders, Packets!SetMuted(p), UNCHANGED kind
    PROVE  PacketInv'
<1>1. /\ packetMuted' \in SUBSET Senders
      /\ UNCHANGED <<made, forwarder, ended, bound, packets, putting, translator, numbered, written>>
  BY DEF Packets!SetMuted, PacketInv, Packets!TypeOK
<1>2. Packets!TypeOK' /\ PutsAreBound' /\ HandsAreFull'
  BY <1>1 DEF PacketInv, Packets!TypeOK, PutsAreBound, HandsAreFull
<1> QED
  BY <1>1, <1>2, NothingSentKeeps

LEMMA ReadLoopKeeps ==
    ASSUME Packets!Assumptions, PacketInv, NEW p \in Senders, Packets!ReadLoop(p), UNCHANGED kind
    PROVE  PacketInv'
<1>1. /\ packets[p] < MaxPackets /\ packets' = [packets EXCEPT ![p] = @ + 1]
      /\ UNCHANGED <<made, forwarder, ended, bound, packetMuted, translator, numbered, written>>
  BY DEF Packets!ReadLoop
<1>2. packets' \in [Senders -> 0 .. MaxPackets] /\ packets'[p] \in 0 .. MaxPackets
  BY <1>1, PacketConstants DEF PacketInv, Packets!TypeOK
<1>3. PICK key \in BOOLEAN :
        putting' = IF bound # 0 /\ forwarder[bound].owner = p /\ bound \notin ended
                   THEN [at |-> "put", packet |-> [from |-> p, n |-> packets'[p], key |-> key]]
                   ELSE Packets!Idle
  BY DEF Packets!ReadLoop
<1>4. [from |-> p, n |-> packets'[p], key |-> key] \in Packets!Packet
  BY <1>2 DEF Packets!Packet
<1>5. bound # 0 => bound \in Packets!Forwarders
  BY PacketConstants DEF PacketInv, Packets!TypeOK, Packets!Forwarders
<1>6. PutsAreBound'
  BY <1>1, <1>3, <1>4, <1>5 DEF PutsAreBound, Packets!Idle
<1>7. putting' \in [at : {"idle", "put", "mark", "again"}, packet : Packets!Packet \cup {Packets!NoPacket}]
  BY <1>3, <1>4 DEF Packets!Idle
<1>8. Packets!TypeOK'
  BY <1>1, <1>2, <1>7 DEF PacketInv, Packets!TypeOK
<1>9. HandsAreFull'
  BY <1>1 DEF PacketInv, HandsAreFull
<1> QED
  BY <1>1, <1>6, <1>8, <1>9, NothingSentKeeps

\* A step of the reader, or of one forwarder, that numbers and writes nothing.
LEMMA OneForwarderKeeps ==
    ASSUME PacketInv, NEW f \in Packets!Forwarders, NEW g \in Packets!ForwarderState,
           forwarder' = [forwarder EXCEPT ![f] = g], Len(g.queue) <= Buffer,
           kind = "video" /\ Primed(forwarder[f]) => Primed(g), Holding(g),
           forwarder[f].at = "write" => g.at = "write",
           g.at # "select" => f <= made \/ forwarder[f].at # "select",
           putting' \in [at : {"idle", "put", "mark", "again"}, packet : Packets!Packet \cup {Packets!NoPacket}],
           putting'.at # "idle" => putting.at # "idle" /\ putting'.packet = putting.packet,
           translator' = translator \/ translator' = Packets!ResetSource(translator),
           UNCHANGED <<kind, made, ended, bound, packets, packetMuted, numbered, written>>
    PROVE  PacketInv'
<1>1. /\ forwarder' \in [Packets!Forwarders -> Packets!ForwarderState]
      /\ \A k \in Packets!Forwarders : Len(forwarder'[k].queue) <= Buffer
      /\ forwarder'[f] = g /\ \A k \in Packets!Forwarders : k # f => forwarder'[k] = forwarder[k]
  BY OneForwarder
<1>2. \A k \in Packets!Forwarders :
          /\ kind = "video" /\ Primed(forwarder[k]) => Primed(forwarder'[k])
          /\ forwarder[k].at = "write" => forwarder'[k].at = "write"
  <2>1. ASSUME NEW k \in Packets!Forwarders
        PROVE  /\ kind = "video" /\ Primed(forwarder[k]) => Primed(forwarder'[k])
               /\ forwarder[k].at = "write" => forwarder'[k].at = "write"
    <3>1. CASE k = f
      BY <1>1, <3>1, Zenon
    <3>2. CASE k # f
      BY <1>1, <3>2, Zenon
    <3> QED
      BY <3>1, <3>2
  <2> QED
    BY <2>1
<1>3. translator' \in [owner : Senders \cup {None}, offset : Packets!Number, last : Packets!Number, hasWritten : BOOLEAN]
  BY DEF PacketInv, Packets!TypeOK, Packets!ResetSource
<1>4. Packets!TypeOK'
  BY <1>1, <1>3 DEF PacketInv, Packets!TypeOK
<1>5. PutsAreBound'
  BY DEF PacketInv, PutsAreBound
<1>6. HandsAreFull'
  <2>1. f > made /\ g.at # "select" => forwarder[f].at # "select"
    BY DEF PacketInv, Packets!TypeOK, Packets!Forwarders
  <2>2. f > made => forwarder[f].at = "select"
    BY DEF PacketInv, HandsAreFull
  <2> QED
    BY <1>1, <2>1, <2>2 DEF PacketInv, HandsAreFull
<1> QED
  BY <1>2, <1>4, <1>5, <1>6, NothingSentKeeps

\* What becomes of a queue.
LEMMA QueueFacts ==
    ASSUME NEW S, NEW q \in Seq(S), NEW e \in S
    PROVE  /\ Append(q, e) \in Seq(S) /\ Len(Append(q, e)) = Len(q) + 1
           /\ q # <<>> => Tail(q) \in Seq(S) /\ Len(Tail(q)) = Len(q) - 1 /\ Head(q) \in S
           /\ Len(q) \in Nat /\ (Len(q) > 0 <=> q # <<>>)
OBVIOUS

LEMMA QueueKeeps ==
    ASSUME Packets!Assumptions, PacketInv, NEW f \in Packets!Forwarders, NEW q \in Seq(Packets!Packet),
           Len(q) <= Buffer
    PROVE  LET g == [forwarder[f] EXCEPT !.queue = q]
           IN  /\ g \in Packets!ForwarderState /\ Len(g.queue) <= Buffer /\ g.at = forwarder[f].at
               /\ kind = "video" /\ Primed(forwarder[f]) => Primed(g)
               /\ Holding(g)
<1>1. forwarder[f] \in Packets!ForwarderState
  BY DEF PacketInv, Packets!TypeOK
<1> DEFINE g == [forwarder[f] EXCEPT !.queue = q]
<1>2. /\ g \in Packets!ForwarderState /\ Len(g.queue) <= Buffer
      /\ g.waitingKeyframe = forwarder[f].waitingKeyframe
      /\ g.at = forwarder[f].at /\ g.taken = forwarder[f].taken
  BY <1>1 DEF Packets!ForwarderState
<1>3. Holding(forwarder[f])
  BY DEF PacketInv, HandsAreFull
<1> HIDE DEF g
<1>4. (kind = "video" /\ Primed(forwarder[f]) => Primed(g)) /\ Holding(g)
  BY <1>2, <1>3 DEF Primed, Going, Holding
<1> QED
  BY <1>2, <1>4 DEF g

LEMMA PutKeeps ==
    ASSUME Packets!Assumptions, PacketInv, putting.at # "idle", ~Packets!Full
    PROVE  /\ bound \in Packets!Forwarders
           /\ Append(forwarder[bound].queue, putting.packet) \in Seq(Packets!Packet)
           /\ Len(Append(forwarder[bound].queue, putting.packet)) <= Buffer
<1>1. bound \in Packets!Forwarders /\ putting.packet \in Packets!Packet
  BY DEF PacketInv, PutsAreBound
<1>2. forwarder[bound].queue \in Seq(Packets!Packet)
  BY <1>1 DEF PacketInv, Packets!TypeOK, Packets!ForwarderState
<1>3. ~(Len(forwarder[bound].queue) >= Buffer)
  BY DEF Packets!Full
<1> DEFINE q == forwarder[bound].queue
           e == putting.packet
<1>4. Append(q, e) \in Seq(Packets!Packet) /\ Len(Append(q, e)) = Len(q) + 1 /\ Len(q) \in Nat
  BY <1>1, <1>2, QueueFacts, Zenon
<1> QED
  BY <1>1, <1>3, <1>4, PacketConstants

LEMMA PuttingFacts ==
    ASSUME PacketInv, NEW a \in {"idle", "put", "mark", "again"}
    PROVE  LET P == [at : {"idle", "put", "mark", "again"}, packet : Packets!Packet \cup {Packets!NoPacket}]
           IN  /\ Packets!Idle \in P /\ Packets!Idle.at = "idle"
               /\ [putting EXCEPT !.at = a] \in P /\ [putting EXCEPT !.at = a].packet = putting.packet
BY DEF PacketInv, Packets!TypeOK, Packets!Idle

LEMMA DistributeKeeps ==
    ASSUME Packets!Assumptions, PacketInv, Packets!Distribute, UNCHANGED kind
    PROVE  PacketInv'
<1>1. putting.at = "put" /\ UNCHANGED <<made, ended, bound, packets, packetMuted, translator, numbered, written>>
  BY DEF Packets!Distribute
<1>2. bound \in Packets!Forwarders
  BY <1>1 DEF PacketInv, PutsAreBound
<1>3. forwarder \in [Packets!Forwarders -> Packets!ForwarderState] /\ forwarder[bound].queue \in Seq(Packets!Packet)
  BY <1>2 DEF PacketInv, Packets!TypeOK, Packets!ForwarderState
<1>4. CASE ~Packets!Full
  <2> DEFINE q == Append(forwarder[bound].queue, putting.packet)
             g == [forwarder[bound] EXCEPT !.queue = q]
  <2>1. q \in Seq(Packets!Packet) /\ Len(q) <= Buffer
    BY <1>1, <1>4, PutKeeps
  <2>2. putting' = Packets!Idle /\ forwarder' = [forwarder EXCEPT ![bound] = g]
    BY <1>2, <1>3, <1>4 DEF Packets!Distribute, Packets!Put
  <2> HIDE DEF q
  <2>3. /\ g \in Packets!ForwarderState /\ Len(g.queue) <= Buffer /\ g.at = forwarder[bound].at
        /\ (kind = "video" /\ Primed(forwarder[bound]) => Primed(g)) /\ Holding(g)
    BY <1>2, <2>1, QueueKeeps
  <2>4. /\ putting' \in [at : {"idle", "put", "mark", "again"}, packet : Packets!Packet \cup {Packets!NoPacket}]
        /\ putting'.at = "idle"
    BY <2>2, PuttingFacts
  <2> HIDE DEF g
  <2> QED
    BY <1>1, <1>2, <2>2, <2>3, <2>4, OneForwarderKeeps
<1>5. CASE Packets!Full
  <2> DEFINE q == Tail(forwarder[bound].queue)
             g == [forwarder[bound] EXCEPT !.queue = q]
             a == IF kind = "video" THEN "mark" ELSE "again"
  <2>1. q \in Seq(Packets!Packet) /\ Len(q) <= Buffer
    <3>1. Len(forwarder[bound].queue) >= Buffer /\ Len(forwarder[bound].queue) <= Buffer
      BY <1>2, <1>5 DEF Packets!Full, PacketInv, Packets!TypeOK
    <3>2. Len(forwarder[bound].queue) > 0
      BY <1>3, <3>1, PacketConstants
    <3> QED
      BY <1>3, <3>1, <3>2, PacketConstants
  <2>2. putting' = [putting EXCEPT !.at = a] /\ forwarder' = [forwarder EXCEPT ![bound] = g]
    BY <1>2, <1>3, <1>5 DEF Packets!Distribute
  <2> HIDE DEF q
  <2>3. /\ g \in Packets!ForwarderState /\ Len(g.queue) <= Buffer /\ g.at = forwarder[bound].at
        /\ (kind = "video" /\ Primed(forwarder[bound]) => Primed(g)) /\ Holding(g)
    BY <1>2, <2>1, QueueKeeps
  <2>4. a \in {"idle", "put", "mark", "again"}
    OBVIOUS
  <2> HIDE DEF a
  <2>5. /\ putting' \in [at : {"idle", "put", "mark", "again"}, packet : Packets!Packet \cup {Packets!NoPacket}]
        /\ putting'.packet = putting.packet
    BY <2>2, <2>4, PuttingFacts
  <2> HIDE DEF g
  <2> QED
    BY <1>1, <1>2, <2>2, <2>3, <2>5, OneForwarderKeeps
<1> QED
  BY <1>4, <1>5

LEMMA MarkResyncKeeps ==
    ASSUME PacketInv, Packets!MarkResync, UNCHANGED kind
    PROVE  PacketInv'
<1>1. /\ putting.at = "mark" /\ putting' = [putting EXCEPT !.at = "again"]
      /\ forwarder' = [forwarder EXCEPT ![bound].resyncNeeded = TRUE]
      /\ UNCHANGED <<made, ended, bound, packets, packetMuted, translator, numbered, written>>
  BY DEF Packets!MarkResync
<1>2. bound \in Packets!Forwarders
  BY <1>1 DEF PacketInv, PutsAreBound
<1>3. forwarder \in [Packets!Forwarders -> Packets!ForwarderState] /\ Len(forwarder[bound].queue) <= Buffer
  BY <1>2 DEF PacketInv, Packets!TypeOK
<1> DEFINE g == [forwarder[bound] EXCEPT !.resyncNeeded = TRUE]
<1>4. /\ g \in Packets!ForwarderState /\ g.queue = forwarder[bound].queue
      /\ g.waitingKeyframe = forwarder[bound].waitingKeyframe
      /\ g.at = forwarder[bound].at /\ g.taken = forwarder[bound].taken
  BY <1>2, <1>3 DEF Packets!ForwarderState
<1>5. forwarder' = [forwarder EXCEPT ![bound] = g]
  BY <1>1, <1>2, <1>3
<1>6. /\ putting' \in [at : {"idle", "put", "mark", "again"}, packet : Packets!Packet \cup {Packets!NoPacket}]
      /\ putting'.packet = putting.packet
  BY <1>1, PuttingFacts
<1>7. Len(g.queue) <= Buffer
  BY <1>3, <1>4
<1>8. putting'.at # "idle" => putting.at # "idle" /\ putting'.packet = putting.packet
  BY <1>1, <1>6
<1>9. (Primed(forwarder[bound]) => Primed(g)) /\ Holding(g)
  <2>1. Holding(forwarder[bound])
    BY <1>2 DEF PacketInv, HandsAreFull
  <2> HIDE DEF g
  <2> QED
    BY <1>4, <2>1 DEF Primed, Going, Holding
<1>10. UNCHANGED <<kind, made, ended, bound, packets, packetMuted, numbered, written>> /\ translator' = translator
  BY <1>1
<1> HIDE DEF g
<1> QED
  BY <1>2, <1>4, <1>5, <1>6, <1>7, <1>8, <1>9, <1>10, OneForwarderKeeps

LEMMA DistributeAgainKeeps ==
    ASSUME Packets!Assumptions, PacketInv, Packets!DistributeAgain, UNCHANGED kind
    PROVE  PacketInv'
<1>1. /\ putting.at = "again" /\ putting' = Packets!Idle
      /\ UNCHANGED <<made, ended, bound, packets, packetMuted, translator, numbered, written>>
  BY DEF Packets!DistributeAgain
<1>2. bound \in Packets!Forwarders
  BY <1>1 DEF PacketInv, PutsAreBound
<1>3. forwarder \in [Packets!Forwarders -> Packets!ForwarderState] /\ Len(forwarder[bound].queue) <= Buffer
  BY <1>2 DEF PacketInv, Packets!TypeOK
<1>4. /\ putting' \in [at : {"idle", "put", "mark", "again"}, packet : Packets!Packet \cup {Packets!NoPacket}]
      /\ putting'.at = "idle"
  BY <1>1, PuttingFacts
<1>5. CASE ~Packets!Full
  <2> DEFINE q == Append(forwarder[bound].queue, putting.packet)
             g == [forwarder[bound] EXCEPT !.queue = q]
  <2>1. q \in Seq(Packets!Packet) /\ Len(q) <= Buffer
    BY <1>1, <1>5, PutKeeps
  <2>2. forwarder' = [forwarder EXCEPT ![bound] = g]
    BY <1>2, <1>3, <1>5 DEF Packets!DistributeAgain, Packets!Put
  <2> HIDE DEF q
  <2>3. /\ g \in Packets!ForwarderState /\ Len(g.queue) <= Buffer /\ g.at = forwarder[bound].at
        /\ (kind = "video" /\ Primed(forwarder[bound]) => Primed(g)) /\ Holding(g)
    BY <1>2, <2>1, QueueKeeps
  <2> HIDE DEF g
  <2> QED
    BY <1>1, <1>2, <1>4, <2>2, <2>3, OneForwarderKeeps
<1>6. CASE Packets!Full
  <2>1. forwarder[bound] \in Packets!ForwarderState /\ forwarder' = [forwarder EXCEPT ![bound] = forwarder[bound]]
    BY <1>2, <1>3, <1>6 DEF Packets!DistributeAgain
  <2>2. Holding(forwarder[bound])
    BY <1>2 DEF PacketInv, HandsAreFull
  <2> QED
    BY <1>1, <1>2, <1>3, <1>4, <2>1, <2>2, OneForwarderKeeps
<1> QED
  BY <1>5, <1>6

LEMMA ReceiveKeeps ==
    ASSUME Packets!Assumptions, PacketInv, NEW f \in Packets!Forwarders, Packets!Receive(f), UNCHANGED kind
    PROVE  PacketInv'
<1>1. /\ forwarder[f].queue # <<>> /\ f <= made /\ forwarder[f].at = "select"
      /\ forwarder' = [forwarder EXCEPT ![f].taken = Head(forwarder[f].queue), ![f].queue = Tail(@),
                                       ![f].at = "decide"]
      /\ UNCHANGED <<made, ended, bound, packets, packetMuted, putting, translator, numbered, written>>
  BY DEF Packets!Receive
<1>2. forwarder \in [Packets!Forwarders -> Packets!ForwarderState] /\ Len(forwarder[f].queue) <= Buffer
  BY DEF PacketInv, Packets!TypeOK
<1>3. forwarder[f] \in Packets!ForwarderState /\ forwarder[f].queue \in Seq(Packets!Packet)
  BY <1>2 DEF Packets!ForwarderState
<1> DEFINE q == Tail(forwarder[f].queue)
           e == Head(forwarder[f].queue)
           g == [forwarder[f] EXCEPT !.taken = e, !.queue = q, !.at = "decide"]
<1>4. q \in Seq(Packets!Packet) /\ e \in Packets!Packet /\ Len(q) <= Buffer
  BY <1>1, <1>2, <1>3, PacketConstants
<1>5. forwarder' = [forwarder EXCEPT ![f] = g]
  BY <1>1, <1>2
<1> HIDE DEF q, e
<1>6. /\ g \in Packets!ForwarderState /\ g.queue = q /\ g.waitingKeyframe = forwarder[f].waitingKeyframe
      /\ g.at = "decide" /\ g.taken = e
  BY <1>3, <1>4 DEF Packets!ForwarderState
<1>7. /\ putting \in [at : {"idle", "put", "mark", "again"}, packet : Packets!Packet \cup {Packets!NoPacket}]
  BY DEF PacketInv, Packets!TypeOK
<1> HIDE DEF g
<1>8. (Primed(forwarder[f]) => Primed(g)) /\ Holding(g)
  BY <1>1, <1>4, <1>6 DEF Primed, Going, Holding
<1> QED
  BY <1>1, <1>4, <1>5, <1>6, <1>7, <1>8, OneForwarderKeeps

LEMMA ReturnKeeps ==
    ASSUME PacketInv, NEW f \in Packets!Forwarders, Packets!Return(f), UNCHANGED kind
    PROVE  PacketInv'
<1>1. /\ ended' \in SUBSET Packets!Forwarders
      /\ UNCHANGED <<made, forwarder, bound, packets, packetMuted, putting, translator, numbered, written>>
  BY DEF Packets!Return, PacketInv, Packets!TypeOK
<1>2. Packets!TypeOK' /\ PutsAreBound' /\ HandsAreFull'
  BY <1>1 DEF PacketInv, Packets!TypeOK, PutsAreBound, HandsAreFull
<1> QED
  BY <1>1, <1>2, NothingSentKeeps

\* What the translator makes of a packet e of which it is told the state t: it
\* goes on after the last number, or keeps the offset of the publisher.
LEMMA TranslateFacts ==
    ASSUME Packets!Assumptions, NEW e \in Packets!Packet,
           NEW t \in [owner : Senders \cup {None}, offset : Packets!Number, last : Packets!Number, hasWritten : BOOLEAN]
    PROVE  LET u == Packets!Translate(t, e)
           IN  /\ u.owner = e.from /\ u.hasWritten /\ u.offset \in Packets!Number /\ u.last \in Packets!Number
               /\ u.last = (e.n + u.offset) % Modulus
               /\ t.owner = e.from => u.offset = t.offset
               /\ t.owner # e.from /\ t.hasWritten => (u.last - t.last) % Modulus = 1
<1> DEFINE o == IF t.owner = e.from THEN t.offset
                ELSE IF t.hasWritten THEN (t.last + 1 - e.n) % Modulus ELSE 0
           u == Packets!Translate(t, e)
<1>1. e.n \in Int /\ t.last \in 0 .. Modulus - 1 /\ t.offset \in 0 .. Modulus - 1 /\ Modulus \in Nat \ {0}
  BY PacketConstants DEF Packets!Packet, Packets!Number
<1>2. o \in 0 .. Modulus - 1
  <2>1. t.last + 1 - e.n \in Int
    BY <1>1
  <2>2. (t.last + 1 - e.n) % Modulus \in 0 .. Modulus - 1
    BY <1>1, <2>1, ModFacts
  <2> QED
    BY <1>1, <2>2
<1>3. u.owner = e.from /\ u.hasWritten /\ u.offset = o /\ u.last = (e.n + o) % Modulus
  BY DEF Packets!Translate
<1>4. t.owner = e.from => o = t.offset
  OBVIOUS
<1>5. t.owner # e.from /\ t.hasWritten => o = (t.last + 1 - e.n) % Modulus
  BY Zenon
<1> HIDE DEF o, u
<1>6. u.last \in 0 .. Modulus - 1
  <2>1. e.n + o \in Int
    BY <1>1, <1>2
  <2> QED
    BY <1>1, <1>3, <2>1, ModFacts
<1>7. ASSUME t.owner # e.from, t.hasWritten
      PROVE  (u.last - t.last) % Modulus = 1
  <2>1. Modulus \in Nat \ {0, 1}
    BY PacketConstants
  <2>2. (((e.n + ((t.last + 1 - e.n) % Modulus)) % Modulus) - t.last) % Modulus = 1
    BY <1>1, <2>1, NewOffset, Zenon
  <2> QED
    BY <1>3, <1>5, <1>7, <2>2, Zenon
<1> QED
  BY <1>2, <1>3, <1>4, <1>6, <1>7 DEF u, Packets!Number

\* A forwarder that heeds what its queue lost.
LEMMA HeededFacts ==
    ASSUME PacketInv, NEW f \in Packets!Forwarders
    PROVE  LET g == Packets!Heeded(f)
           IN  /\ g \in Packets!ForwarderState /\ g.queue = forwarder[f].queue /\ g.taken = forwarder[f].taken
               /\ g.at = forwarder[f].at
               /\ forwarder[f].waitingKeyframe => g.waitingKeyframe
<1>1. forwarder[f] \in Packets!ForwarderState
  BY DEF PacketInv, Packets!TypeOK
<1> DEFINE h == forwarder[f]
<1>2. ASSUME NEW b \in BOOLEAN, h.waitingKeyframe => b
      PROVE  LET g == [h EXCEPT !.waitingKeyframe = b, !.resyncNeeded = FALSE]
             IN  /\ g \in Packets!ForwarderState /\ g.queue = h.queue /\ g.taken = h.taken
                 /\ g.at = h.at /\ (h.waitingKeyframe => g.waitingKeyframe)
  <2> HIDE DEF h
  <2>1. h \in Packets!ForwarderState
    BY <1>1 DEF h
  <2> QED
    BY <1>2, <2>1 DEF Packets!ForwarderState
<1> DEFINE b == h.waitingKeyframe \/ Packets!Resynced(f)
<1>3. b \in BOOLEAN /\ (h.waitingKeyframe => b)
  BY Zenon
<1>4. Packets!Heeded(f) = [h EXCEPT !.waitingKeyframe = b, !.resyncNeeded = FALSE]
  BY <1>1 DEF Packets!Heeded, Packets!ForwarderState
<1> HIDE DEF b, h
<1> QED
  BY <1>2, <1>3, <1>4, Zenon DEF h

LEMMA DecideKeeps ==
    ASSUME Packets!Assumptions, PacketInv, NEW f \in Packets!Forwarders, Packets!Decide(f), UNCHANGED kind
    PROVE  PacketInv'
<1> DEFINE g == Packets!Heeded(f)
           restarts == IF kind = "audio" THEN g.wasMuted ELSE g.waitingKeyframe
<1>1. /\ g.at = "decide"
      /\ UNCHANGED <<made, ended, bound, packets, packetMuted, putting, translator, numbered, written>>
  BY DEF Packets!Decide
<1>2. /\ g \in Packets!ForwarderState /\ g.queue = forwarder[f].queue /\ g.taken = forwarder[f].taken
      /\ g.at = forwarder[f].at /\ (forwarder[f].waitingKeyframe => g.waitingKeyframe)
  BY HeededFacts
<1>3. Len(g.queue) <= Buffer /\ g.taken \in Packets!Packet
  BY <1>1, <1>2 DEF PacketInv, Packets!TypeOK, HandsAreFull, Holding
<1>4. putting \in [at : {"idle", "put", "mark", "again"}, packet : Packets!Packet \cup {Packets!NoPacket}]
  BY DEF PacketInv, Packets!TypeOK
<1>5. Primed(forwarder[f]) => forwarder[f].waitingKeyframe
  BY <1>1, <1>2 DEF Primed, Going
<1>6. CASE Packets!Dropped(f, g)
  <2> DEFINE m == (kind = "audio")
             a == IF Packets!Resynced(f) THEN "reset" ELSE "select"
             h == [g EXCEPT !.taken = Packets!NoPacket, !.wasMuted = m, !.at = a]
  <2>1. forwarder' = [forwarder EXCEPT ![f] = h]
    BY <1>6, Zenon DEF Packets!Decide
  <2>2. m \in BOOLEAN /\ a \in {"reset", "select"}
    OBVIOUS
  <2> HIDE DEF m, a, g
  <2>3. /\ h \in Packets!ForwarderState /\ h.queue = g.queue /\ h.waitingKeyframe = g.waitingKeyframe
        /\ h.at = a /\ h.taken = Packets!NoPacket
    BY <1>2, <2>2 DEF Packets!ForwarderState
  <2> HIDE DEF h
  <2>4. Primed(forwarder[f]) => Primed(h)
    BY <1>2, <1>5, <2>2, <2>3 DEF Primed, Going
  <2>5. Holding(h) /\ Len(h.queue) <= Buffer /\ forwarder[f].at # "select" /\ forwarder[f].at # "write"
    BY <1>1, <1>2, <1>3, <2>2, <2>3 DEF Holding
  <2> QED
    BY <1>1, <1>4, <2>1, <2>3, <2>4, <2>5, OneForwarderKeeps
<1>7. CASE ~Packets!Dropped(f, g)
  <2> DEFINE a == IF restarts THEN "reset" ELSE "translate"
             h == [g EXCEPT !.wasMuted = FALSE, !.waitingKeyframe = FALSE, !.at = a]
  <2>1. forwarder' = [forwarder EXCEPT ![f] = h]
    BY <1>7, Zenon DEF Packets!Decide
  <2>2. a \in {"reset", "translate"}
    OBVIOUS
  <2>3. kind = "video" /\ forwarder[f].waitingKeyframe => g.taken.key
    BY <1>2, <1>7 DEF Packets!Dropped
  <2> HIDE DEF a, g
  <2>4. /\ h \in Packets!ForwarderState /\ h.queue = g.queue /\ h.at = a /\ h.taken = g.taken
    BY <1>2, <2>2 DEF Packets!ForwarderState
  <2> HIDE DEF h
  <2>5. h.taken # Packets!NoPacket
    BY <1>3, <2>4, NoPacketIsNone
  <2>6. kind = "video" /\ Primed(forwarder[f]) => Primed(h)
    BY <1>5, <2>2, <2>3, <2>4, <2>5 DEF Primed, Going
  <2>7. Holding(h) /\ Len(h.queue) <= Buffer /\ forwarder[f].at # "select" /\ forwarder[f].at # "write"
    BY <1>1, <1>2, <1>3, <2>4 DEF Holding
  <2> QED
    BY <1>1, <1>4, <2>1, <2>4, <2>6, <2>7, OneForwarderKeeps
<1> QED
  BY <1>6, <1>7

LEMMA ResetKeeps ==
    ASSUME Packets!Assumptions, PacketInv, NEW f \in Packets!Forwarders, Packets!Reset(f), UNCHANGED kind
    PROVE  PacketInv'
<1> DEFINE a == IF forwarder[f].taken = Packets!NoPacket THEN "select" ELSE "translate"
           h == [forwarder[f] EXCEPT !.at = a]
<1>1. /\ forwarder[f].at = "reset" /\ translator' = Packets!ResetSource(translator)
      /\ UNCHANGED <<made, ended, bound, packets, packetMuted, putting, numbered, written>>
  BY DEF Packets!Reset
<1>2. /\ forwarder \in [Packets!Forwarders -> Packets!ForwarderState] /\ Len(forwarder[f].queue) <= Buffer
      /\ putting \in [at : {"idle", "put", "mark", "again"}, packet : Packets!Packet \cup {Packets!NoPacket}]
  BY DEF PacketInv, Packets!TypeOK
<1>3. forwarder' = [forwarder EXCEPT ![f] = h]
  BY <1>2 DEF Packets!Reset
<1>4. /\ forwarder[f].taken = Packets!NoPacket => a = "select"
      /\ forwarder[f].taken # Packets!NoPacket => a = "translate" /\ forwarder[f].taken \in Packets!Packet
  BY <1>2 DEF Packets!ForwarderState
<1>5. a \in {"select", "translate"}
  OBVIOUS
<1> HIDE DEF a
<1>6. /\ h \in Packets!ForwarderState /\ h.queue = forwarder[f].queue /\ h.at = a
      /\ h.taken = forwarder[f].taken /\ h.waitingKeyframe = forwarder[f].waitingKeyframe
  BY <1>2, <1>5 DEF Packets!ForwarderState
<1> HIDE DEF h
<1>7. (Primed(forwarder[f]) => Primed(h)) /\ Holding(h)
  BY <1>1, <1>4, <1>6 DEF Primed, Going, Holding
<1> QED
  BY <1>1, <1>2, <1>3, <1>6, <1>7, OneForwarderKeeps

LEMMA WiderSeq ==
    ASSUME NEW m \in Nat, NEW n \in Nat, m <= n, NEW q \in Seq(1 .. m)
    PROVE  q \in Seq(1 .. n)
<1>1. \A i \in 1 .. Len(q) : q[i] \in 1 .. n
  OBVIOUS
<1> QED
  BY <1>1

\* A packet gets its number: what holds of all the numbered holds of one more.
LEMMA GetNumberKeeps ==
    ASSUME Packets!Assumptions, PacketInv, NEW f \in Packets!Forwarders, Packets!GetNumber(f), UNCHANGED kind
    PROVE  PacketInv'
<1> DEFINE T == [owner : Senders \cup {None}, offset : Packets!Number, last : Packets!Number, hasWritten : BOOLEAN]
           S == [by : Packets!Forwarders, from : Senders, n : 0 .. MaxPackets, key : BOOLEAN, ssn : Packets!Number]
           e == forwarder[f].taken
           s == [by |-> f, from |-> e.from, n |-> e.n, key |-> e.key, ssn |-> translator'.last]
           L == Len(numbered)
           t == translator
           g == [forwarder[f] EXCEPT !.taken = Packets!NoPacket, !.at = "write"]
<1>a. /\ forwarder[f].at = "translate" /\ translator' = Packets!Translate(t, e)
      /\ numbered' = Append(numbered, s)
      /\ UNCHANGED <<kind, made, ended, bound, packets, packetMuted, putting, written>>
  BY DEF Packets!GetNumber
<1>b. forwarder \in [Packets!Forwarders -> Packets!ForwarderState] /\ Len(forwarder[f].queue) <= Buffer
  BY DEF PacketInv, Packets!TypeOK
<1>c. forwarder' = [forwarder EXCEPT ![f] = g]
  BY <1>b DEF Packets!GetNumber
<1>d. e \in Packets!Packet
  BY <1>a DEF PacketInv, HandsAreFull, Holding
<1>e. g \in Packets!ForwarderState /\ g.queue = forwarder[f].queue /\ g.at = "write"
  BY <1>b DEF Packets!ForwarderState
<1> HIDE DEF g, e
<1>1. t \in T /\ numbered \in Seq(S) /\ L \in Nat /\ written \in Seq(1 .. L)
  BY DEF PacketInv, Packets!TypeOK
<1>3. e.from \in Senders /\ e.from # None /\ e.n \in 0 .. MaxPackets /\ e.key \in BOOLEAN
  BY <1>d, PacketConstants DEF Packets!Packet
<1>4. /\ translator'.owner = e.from /\ translator'.hasWritten
      /\ translator'.offset \in Packets!Number /\ translator'.last \in Packets!Number
      /\ translator'.last = (e.n + translator'.offset) % Modulus
      /\ t.owner = e.from => translator'.offset = t.offset
      /\ t.owner # e.from /\ t.hasWritten => (translator'.last - t.last) % Modulus = 1
  BY <1>1, <1>a, <1>d, TranslateFacts
<1>5. translator' \in T
  <2>1. translator' = [owner |-> translator'.owner, offset |-> translator'.offset,
                       last |-> translator'.last, hasWritten |-> translator'.hasWritten]
    BY <1>a DEF Packets!Translate
  <2>2. translator'.hasWritten \in BOOLEAN
    BY <1>a DEF Packets!Translate
  <2> QED
    BY <1>3, <1>4, <2>1, <2>2
<1>6. s \in S /\ s.by = f /\ s.from = e.from /\ s.n = e.n /\ s.key = e.key /\ s.ssn = translator'.last
  BY <1>3, <1>4
<1> HIDE DEF s, T, S, t
<1>7. /\ numbered' \in Seq(S) /\ Len(numbered') = L + 1 /\ numbered'[L + 1] = s
      /\ \A i \in 1 .. L : numbered'[i] = numbered[i]
  BY <1>1, <1>6, <1>a
<1>8. /\ forwarder' \in [Packets!Forwarders -> Packets!ForwarderState]
      /\ \A k \in Packets!Forwarders : Len(forwarder'[k].queue) <= Buffer
      /\ forwarder'[f] = g /\ \A k \in Packets!Forwarders : k # f => forwarder'[k] = forwarder[k]
  BY <1>b, <1>c, <1>e, OneForwarder
<1>11. numbered' # <<>> /\ DOMAIN numbered' = 1 .. L + 1 /\ DOMAIN numbered = 1 .. L
  BY <1>1, <1>7
<1>9. Packets!TypeOK'
  <2>1. written' \in Seq(DOMAIN numbered')
    BY <1>1, <1>11, <1>a, WiderSeq
  <2> QED
    BY <1>5, <1>7, <1>8, <1>a, <2>1 DEF PacketInv, Packets!TypeOK, T, S
<1>10. PutsAreBound'
  BY <1>a DEF PacketInv, PutsAreBound
<1>12. TranslatorKnowsTheLast'
  BY <1>4, <1>6, <1>7, <1>11 DEF TranslatorKnowsTheLast
<1>13. NewWaitForKeyframe'
  <2>1. ASSUME kind = "video", NEW k \in Packets!Forwarders, Silent(k)'
        PROVE  Primed(forwarder'[k])
    <3>1. k # f
      BY <1>1, <1>6, <1>7, <1>11, <2>1 DEF Silent
    <3>2. Silent(k)
      BY <1>1, <1>7, <1>11, <2>1 DEF Silent
    <3> QED
      BY <1>8, <2>1, <3>1, <3>2 DEF PacketInv, NewWaitForKeyframe
  <2> QED
    BY <1>a, <2>1 DEF NewWaitForKeyframe
<1>14. NumberedStartsWithKeyframe'
  <2>1. ASSUME kind = "video", NEW i \in 1 .. L + 1, \A j \in 1 .. i - 1 : numbered'[j].by # numbered'[i].by
        PROVE  numbered'[i].key
    <3>1. CASE i = L + 1
      <4>1. Silent(f)
        BY <1>1, <1>6, <1>7, <1>11, <2>1, <3>1 DEF Silent
      <4>2. Primed(forwarder[f])
        BY <2>1, <4>1 DEF PacketInv, NewWaitForKeyframe
      <4>3. e.key
        BY <1>a, <4>2 DEF Primed, Going, e
      <4> QED
        BY <1>6, <1>7, <3>1, <4>3
    <3>2. CASE i # L + 1
      <4>1. i \in 1 .. L /\ \A j \in 1 .. i - 1 : j \in 1 .. L
        BY <1>1, <3>2
      <4>2. \A j \in 1 .. i - 1 : numbered[j].by # numbered[i].by
        BY <1>7, <2>1, <4>1
      <4> QED
        BY <1>7, <1>11, <2>1, <4>1, <4>2 DEF PacketInv, NumberedStartsWithKeyframe
    <3> QED
      BY <3>1, <3>2
  <2> QED
    BY <1>11, <1>a, <2>1 DEF NumberedStartsWithKeyframe
<1>15. ASSUME L \in Nat \ {0}
       PROVE  LET l == numbered[L]
              IN  /\ l.from # e.from => (s.ssn - l.ssn) % Modulus = 1
                  /\ (s.ssn - l.ssn) % Modulus \in {1, (e.n - l.n) % Modulus}
  <2>1. numbered # <<>> /\ numbered[L] \in S
    BY <1>1, <1>15
  <2> DEFINE l == numbered[L]
  <2>2. /\ t.hasWritten /\ t.last = l.ssn
        /\ t.owner # None => t.owner = l.from /\ t.last = (l.n + t.offset) % Modulus
    BY <2>1 DEF PacketInv, TranslatorKnowsTheLast, t
  <2>3. l.n \in Int /\ e.n \in Int /\ t.offset \in Int /\ Modulus \in Nat \ {0}
    BY <1>1, <1>3, <2>1, PacketConstants DEF S, T, Packets!Number
  <2> HIDE DEF l
  <2>4. CASE t.owner = e.from
    <3>1. l.from = e.from /\ l.ssn = (l.n + t.offset) % Modulus
      BY <1>3, <2>2, <2>4
    <3>2. s.ssn = (e.n + t.offset) % Modulus
      BY <1>4, <1>6, <2>4
    <3>3. (((e.n + t.offset) % Modulus) - ((l.n + t.offset) % Modulus)) % Modulus = (e.n - l.n) % Modulus
      BY <2>3, SameOffset
    <3>4. (s.ssn - l.ssn) % Modulus = (e.n - l.n) % Modulus
      BY <3>1, <3>2, <3>3, Zenon
    <3> QED
      BY <3>1, <3>4 DEF l
  <2>5. CASE t.owner # e.from
    <3>1. (s.ssn - l.ssn) % Modulus = 1
      BY <1>4, <1>6, <2>2, <2>5
    <3> QED
      BY <3>1 DEF l
  <2> QED
    BY <2>4, <2>5
<1>16. Packets!SequenceContinues'
  <2>1. ASSUME NEW i \in 1 .. L, i # L
        PROVE  /\ numbered'[i] = numbered[i] /\ numbered'[i + 1] = numbered[i + 1]
               /\ numbered[i].from # numbered[i + 1].from => (numbered[i + 1].ssn - numbered[i].ssn) % Modulus = 1
               /\ numbered[i].by = numbered[i + 1].by =>
                    (numbered[i + 1].ssn - numbered[i].ssn) % Modulus \in {1, (numbered[i + 1].n - numbered[i].n) % Modulus}
    <3>1. i \in 1 .. L - 1 /\ i + 1 \in 1 .. L
      BY <1>1, <2>1
    <3> QED
      BY <1>7, <3>1 DEF PacketInv, Packets!SequenceContinues, Packets!Adjacent, Packets!Step
  <2>2. ASSUME NEW i \in 1 .. L
        PROVE  /\ numbered'[i].from # numbered'[i + 1].from => (numbered'[i + 1].ssn - numbered'[i].ssn) % Modulus = 1
               /\ numbered'[i].by = numbered'[i + 1].by =>
                    (numbered'[i + 1].ssn - numbered'[i].ssn) % Modulus \in {1, (numbered'[i + 1].n - numbered'[i].n) % Modulus}
    <3>1. CASE i = L
      <4>1. L \in Nat \ {0}
        BY <1>1, <3>1
      <4>2. numbered'[i] = numbered[L] /\ numbered'[i + 1] = s
        BY <1>7, <3>1
      <4> QED
        BY <1>6, <1>15, <4>1, <4>2
    <3>2. CASE i # L
      BY <2>1, <3>2
    <3> QED
      BY <3>1, <3>2
  <2>3. 1 .. Len(numbered') - 1 = 1 .. L
    BY <1>1, <1>7
  <2> QED
    BY <2>2, <2>3 DEF Packets!SequenceContinues, Packets!Adjacent, Packets!Step
<1>17. HandsAreFull'
  <2>1. f > made => forwarder[f].at = "select"
    BY DEF PacketInv, HandsAreFull
  <2>2. ASSUME NEW k \in Packets!Forwarders
        PROVE  Holding(forwarder'[k]) /\ (k > made => forwarder'[k].at = "select")
    BY <1>8, <1>a, <1>e, <2>1 DEF PacketInv, HandsAreFull, Holding
  <2> QED
    BY <1>a, <2>2 DEF HandsAreFull
<1>18. OnlyTheLastIsUnwritten'
  <2>1. ASSUME NEW k \in Packets!Forwarders, NEW i \in 1 .. L + 1, numbered'[i].by = k,
               \A j \in DOMAIN written : written[j] # i
        PROVE  forwarder'[k].at = "write" /\ \A j \in 1 .. L + 1 : numbered'[j].by = k => j <= i
    <3>1. CASE i = L + 1
      BY <1>1, <1>6, <1>7, <1>8, <1>e, <2>1, <3>1
    <3>2. CASE i # L + 1
      <4>1. i \in 1 .. L /\ numbered[i].by = k
        BY <1>1, <1>7, <2>1, <3>2
      <4>2. i \in Packets!Unwritten(k)
        BY <1>11, <2>1, <4>1 DEF Packets!Unwritten
      <4>3. forwarder[k].at = "write" /\ \A j \in 1 .. L : numbered[j].by = k => j <= i
        BY <1>11, <4>2 DEF PacketInv, OnlyTheLastIsUnwritten
      <4>4. k # f
        BY <1>a, <4>3
      <4>5. \A j \in 1 .. L + 1 : numbered'[j].by = k => j \in 1 .. L /\ numbered[j].by = k
        BY <1>1, <1>6, <1>7, <4>4
      <4> QED
        BY <1>8, <4>3, <4>4, <4>5
    <3> QED
      BY <3>1, <3>2
  <2> QED
    BY <1>11, <1>a, <2>1 DEF OnlyTheLastIsUnwritten, Packets!Unwritten
<1>19. Packets!WritesAreLateByOne'
  <2>0. written' = written
    BY <1>a
  <2> SUFFICES ASSUME NEW i \in DOMAIN written', NEW m \in 1 .. written'[i] - 1, NEW n \in 1 .. written'[i] - 1,
                      numbered'[m].by = numbered'[n].by, \A k \in 1 .. i : written'[k] \notin {m, n}
               PROVE  m = n /\ numbered'[m].by # numbered'[written'[i]].by
    BY DEF Packets!WritesAreLateByOne
  <2>1. written[i] \in 1 .. L
    BY <1>1, <2>0
  <2>2. m \in 1 .. L /\ n \in 1 .. L
    BY <1>1, <2>0, <2>1
  <2>3. /\ numbered'[m] = numbered[m] /\ numbered'[n] = numbered[n]
        /\ numbered'[written[i]] = numbered[written[i]]
    BY <1>7, <2>1, <2>2
  <2> QED
    BY <2>0, <2>3 DEF PacketInv, Packets!WritesAreLateByOne
<1> QED
  BY <1>9, <1>10, <1>12, <1>13, <1>14, <1>16, <1>17, <1>18, <1>19 DEF PacketInv

LEMMA WriteRTPKeeps ==
    ASSUME Packets!Assumptions, PacketInv, NEW f \in Packets!Forwarders, Packets!WriteRTP(f), UNCHANGED kind
    PROVE  PacketInv'
<1> DEFINE g == [forwarder[f] EXCEPT !.at = "select"]
           W == Len(written)
<1>1. /\ forwarder[f].at = "write" /\ forwarder' = [forwarder EXCEPT ![f].at = "select"]
      /\ UNCHANGED <<kind, made, ended, bound, packets, packetMuted, putting, translator, numbered>>
  BY DEF Packets!WriteRTP
<1>2. PICK i \in Packets!Unwritten(f) : written' = Append(written, i)
  BY DEF Packets!WriteRTP
<1>3. /\ forwarder \in [Packets!Forwarders -> Packets!ForwarderState] /\ Len(forwarder[f].queue) <= Buffer
      /\ written \in Seq(DOMAIN numbered) /\ W \in Nat /\ DOMAIN written = 1 .. W
      /\ DOMAIN numbered = 1 .. Len(numbered) /\ Len(numbered) \in Nat
      /\ \A m \in DOMAIN numbered : numbered[m].by \in Packets!Forwarders
  <2> DEFINE S == [by : Packets!Forwarders, from : Senders, n : 0 .. MaxPackets, key : BOOLEAN,
                   ssn : Packets!Number]
  <2>1. /\ forwarder \in [Packets!Forwarders -> Packets!ForwarderState] /\ Len(forwarder[f].queue) <= Buffer
        /\ numbered \in Seq(S) /\ written \in Seq(DOMAIN numbered)
    BY DEF PacketInv, Packets!TypeOK
  <2>2. \A r \in S : r.by \in Packets!Forwarders
    OBVIOUS
  <2> HIDE DEF S
  <2>3. DOMAIN numbered = 1 .. Len(numbered) /\ Len(numbered) \in Nat /\ \A m \in DOMAIN numbered : numbered[m] \in S
    BY <2>1
  <2> DEFINE D == DOMAIN numbered
  <2>4. written \in Seq(D)
    BY <2>1
  <2> HIDE DEF D
  <2>5. W \in Nat /\ DOMAIN written = 1 .. W
    BY <2>4
  <2> QED
    BY <2>1, <2>2, <2>3, <2>5
<1>4. i \in DOMAIN numbered /\ numbered[i].by = f /\ (\A j \in DOMAIN written : written[j] # i)
  BY <1>2 DEF Packets!Unwritten
<1>5. forwarder' = [forwarder EXCEPT ![f] = g]
  BY <1>1, <1>3
<1>6. /\ g \in Packets!ForwarderState /\ g.queue = forwarder[f].queue /\ g.at = "select"
      /\ g.waitingKeyframe = forwarder[f].waitingKeyframe
  <2>1. forwarder[f] \in Packets!ForwarderState
    BY <1>3
  <2> QED
    BY <2>1 DEF Packets!ForwarderState
<1> HIDE DEF g
<1>7. /\ forwarder' \in [Packets!Forwarders -> Packets!ForwarderState]
      /\ \A k \in Packets!Forwarders : Len(forwarder'[k].queue) <= Buffer
      /\ forwarder'[f] = g /\ \A k \in Packets!Forwarders : k # f => forwarder'[k] = forwarder[k]
  BY <1>3, <1>5, <1>6, OneForwarder
<1>8. /\ written' \in Seq(DOMAIN numbered) /\ DOMAIN written' = 1 .. W + 1 /\ written'[W + 1] = i
      /\ \A j \in 1 .. W : written'[j] = written[j]
  BY <1>2, <1>3, <1>4
<1>9. Packets!TypeOK'
  BY <1>1, <1>7, <1>8 DEF PacketInv, Packets!TypeOK
<1>10. PutsAreBound' /\ TranslatorKnowsTheLast' /\ Packets!SequenceContinues' /\ NumberedStartsWithKeyframe'
  BY <1>1 DEF PacketInv, PutsAreBound, TranslatorKnowsTheLast, Packets!SequenceContinues,
              Packets!Adjacent, Packets!Step, NumberedStartsWithKeyframe
<1>11. NewWaitForKeyframe'
  <2>1. ASSUME NEW k \in Packets!Forwarders, Primed(forwarder[k]) PROVE Primed(forwarder'[k])
    <3>1. CASE k = f
      BY <1>1, <1>6, <1>7, <2>1, <3>1 DEF Primed, Going
    <3>2. CASE k # f
      BY <1>7, <2>1, <3>2
    <3> QED
      BY <3>1, <3>2
  <2> QED
    BY <1>1, <2>1 DEF PacketInv, NewWaitForKeyframe, Silent
<1>12. HandsAreFull'
  <2>1. ASSUME NEW k \in Packets!Forwarders
        PROVE  Holding(forwarder'[k]) /\ (k > made => forwarder'[k].at = "select")
    BY <1>6, <1>7 DEF PacketInv, HandsAreFull, Holding
  <2> QED
    BY <1>1, <2>1 DEF HandsAreFull
\* Of one forwarder at most one packet is unwritten.
<1>13. ASSUME NEW m \in DOMAIN numbered, NEW n \in DOMAIN numbered, numbered[m].by = numbered[n].by,
              \A j \in DOMAIN written : written[j] \notin {m, n}
       PROVE  m = n
  <2> DEFINE k == numbered[m].by
  <2>1. k \in Packets!Forwarders /\ m \in Packets!Unwritten(k) /\ n \in Packets!Unwritten(k)
    BY <1>3, <1>13 DEF Packets!Unwritten
  <2>2. m <= n /\ n <= m
    BY <1>13, <2>1 DEF PacketInv, OnlyTheLastIsUnwritten
  <2> QED
    BY <1>3, <2>2
<1>14. OnlyTheLastIsUnwritten'
  <2>1. ASSUME NEW k \in Packets!Forwarders, NEW j \in DOMAIN numbered, numbered[j].by = k,
               \A x \in 1 .. W + 1 : written'[x] # j
        PROVE  forwarder'[k].at = "write" /\ \A y \in DOMAIN numbered : numbered[y].by = k => y <= j
    <3>1. j # i /\ \A x \in DOMAIN written : written[x] # j
      BY <1>3, <1>8, <2>1
    <3>2. j \in Packets!Unwritten(k)
      BY <2>1, <3>1 DEF Packets!Unwritten
    <3>3. forwarder[k].at = "write" /\ \A y \in DOMAIN numbered : numbered[y].by = k => y <= j
      BY <3>2 DEF PacketInv, OnlyTheLastIsUnwritten
    <3>4. k # f
      BY <1>4, <1>13, <2>1, <3>1
    <3> QED
      BY <1>7, <3>3, <3>4
  <2> QED
    BY <1>1, <1>8, <2>1 DEF OnlyTheLastIsUnwritten, Packets!Unwritten
<1>15. Packets!WritesAreLateByOne'
  <2>1. ASSUME NEW x \in 1 .. W + 1, NEW m \in 1 .. written'[x] - 1, NEW n \in 1 .. written'[x] - 1,
               numbered[m].by = numbered[n].by, \A k \in 1 .. x : written'[k] \notin {m, n}
        PROVE  m = n /\ numbered[m].by # numbered[written'[x]].by
    <3>1. CASE x = W + 1
      <4>1. written'[x] = i /\ m \in DOMAIN numbered /\ n \in DOMAIN numbered /\ m < i
        BY <1>3, <1>4, <1>8, <3>1
      <4>2. \A k \in DOMAIN written : written[k] \notin {m, n}
        BY <1>3, <1>8, <2>1, <3>1
      <4>3. m = n
        BY <1>13, <2>1, <4>1, <4>2
      <4>4. numbered[m].by # numbered[i].by
        <5>1. numbered[m].by = numbered[i].by => m = i
          BY <1>4, <1>13, <4>1, <4>2
        <5> QED
          BY <1>3, <1>4, <4>1, <5>1
      <4> QED
        BY <4>1, <4>3, <4>4
    <3>2. CASE x # W + 1
      <4>1. x \in 1 .. W /\ x \in DOMAIN written /\ \A k \in 1 .. x : k \in 1 .. W
        BY <1>3, <3>2
      <4>2. written'[x] = written[x] /\ \A k \in 1 .. x : written[k] \notin {m, n}
        BY <1>8, <2>1, <4>1
      <4> QED
        BY <2>1, <4>1, <4>2 DEF PacketInv, Packets!WritesAreLateByOne
    <3> QED
      BY <3>1, <3>2
  <2> QED
    BY <1>1, <1>8, <2>1 DEF Packets!WritesAreLateByOne
<1> QED
  BY <1>9, <1>10, <1>11, <1>12, <1>14, <1>15 DEF PacketInv

LEMMA PacketInit == ASSUME Packets!Assumptions, Packets!Init PROVE PacketInv
<1>1. /\ kind \in {"audio", "video"}
      /\ made = 0 /\ ended = {} /\ bound = 0 /\ packetMuted = {} /\ putting = Packets!Idle
      /\ numbered = <<>> /\ written = <<>>
      /\ forwarder = [f \in Packets!Forwarders |-> Packets!NewForwarder(None)]
      /\ packets = [p \in Senders |-> 0]
      /\ translator = [owner |-> None, offset |-> 0, last |-> 0, hasWritten |-> FALSE]
  BY DEF Packets!Init
<1>2. /\ forwarder \in [Packets!Forwarders -> Packets!ForwarderState]
      /\ \A f \in Packets!Forwarders : Len(forwarder[f].queue) <= Buffer
      /\ kind = "video" => \A f \in Packets!Forwarders : forwarder[f].waitingKeyframe
      /\ \A f \in Packets!Forwarders : forwarder[f].at = "select"
  BY <1>1, NewForwarderFacts
<1>3. translator \in [owner : Senders \cup {None}, offset : Packets!Number, last : Packets!Number, hasWritten : BOOLEAN]
  BY <1>1, PacketConstants DEF Packets!Number
<1>4. /\ made \in 0 .. MaxForwarders /\ bound \in 0 .. made /\ packets \in [Senders -> 0 .. MaxPackets]
      /\ putting \in [at : {"idle", "put", "mark", "again"}, packet : Packets!Packet \cup {Packets!NoPacket}]
  BY <1>1, PacketConstants DEF Packets!Idle
<1>5. Packets!TypeOK
  BY <1>1, <1>2, <1>3, <1>4 DEF Packets!TypeOK
<1>6. PutsAreBound
  BY <1>1 DEF PutsAreBound, Packets!Idle
<1>7. NewWaitForKeyframe
  BY <1>2 DEF NewWaitForKeyframe, Primed, Going
<1>8. Len(numbered) = 0 /\ DOMAIN numbered = {} /\ DOMAIN written = {}
  BY <1>1
<1>9. TranslatorKnowsTheLast
  BY <1>1 DEF TranslatorKnowsTheLast
<1>10. Packets!Adjacent = {}
  BY <1>8 DEF Packets!Adjacent
<1>11. HandsAreFull /\ OnlyTheLastIsUnwritten
  BY <1>2, <1>8 DEF HandsAreFull, Holding, OnlyTheLastIsUnwritten, Packets!Unwritten
<1> QED
  BY <1>5, <1>6, <1>7, <1>8, <1>9, <1>10, <1>11
     DEF PacketInv, Packets!SequenceContinues, Packets!WritesAreLateByOne, NumberedStartsWithKeyframe

LEMMA PacketStep == ASSUME Packets!Assumptions, PacketInv, Packets!Next PROVE PacketInv'
<1>1. UNCHANGED kind
  BY DEF Packets!Next
<1> QED
  BY <1>1, AssignKeeps, SetMutedKeeps, ReadLoopKeeps, ReleaseKeeps, DistributeKeeps, MarkResyncKeeps,
     DistributeAgainKeeps, ReceiveKeeps, ReturnKeeps, DecideKeeps, ResetKeeps, GetNumberKeeps, WriteRTPKeeps DEF Packets!Next

LEMMA PacketIdle == ASSUME PacketInv, UNCHANGED packetVars PROVE PacketInv'
BY DEF packetVars, PacketInv, Packets!TypeOK, PutsAreBound, TranslatorKnowsTheLast, NewWaitForKeyframe, Silent, Primed, Going,
   HandsAreFull, Holding, OnlyTheLastIsUnwritten, Packets!Unwritten, Packets!SequenceContinues, Packets!Adjacent,
   Packets!Step, Packets!WritesAreLateByOne, NumberedStartsWithKeyframe

\* Forwarders write in their own order, so that the first a forwarder writes is
\* the first it numbered.
LEMMA FirstWrittenIsKey == ASSUME PacketInv PROVE Packets!VideoStartsWithKeyframe
<1> SUFFICES ASSUME kind = "video", NEW i \in DOMAIN written,
                    \A j \in 1 .. i - 1 : numbered[written[j]].by # numbered[written[i]].by
             PROVE  numbered[written[i]].key
  BY DEF Packets!VideoStartsWithKeyframe
<1>1. written \in Seq(DOMAIN numbered) /\ DOMAIN written = 1 .. Len(written) /\ i \in Nat
  BY DEF PacketInv, Packets!TypeOK
<1>2. DOMAIN numbered = 1 .. Len(numbered) /\ Len(numbered) \in Nat
  BY DEF PacketInv, Packets!TypeOK
<1>3. written[i] \in DOMAIN numbered /\ written[i] \in Nat
  BY <1>1, <1>2
<1>4. ASSUME NEW m \in 1 .. written[i] - 1, numbered[m].by = numbered[written[i]].by
      PROVE  FALSE
  <2>1. \E k \in 1 .. i : written[k] = m
    BY <1>4 DEF PacketInv, Packets!WritesAreLateByOne
  <2>2. PICK k \in 1 .. i : written[k] = m
    BY <2>1
  <2>3. k # i
    BY <1>3, <2>2
  <2> QED
    BY <1>1, <1>4, <2>2, <2>3
<1> QED
  BY <1>3, <1>4 DEF PacketInv, NumberedStartsWithKeyframe

PacketsInv == part = "packets" => PacketInv

\* The numbers of a slot go on without a gap where it passes to another publisher
\* and skip within a forwarder only what its queue lost; a forwarder writes in
\* order, and a packet overtakes one of each other at most; and a video begins
\* with a keyframe (ssnTranslator.translate and forwarder.run), for any
\* publishers, buffers and modulus.
THEOREM StreamsGoOn == RealtimeSpec => []StreamsContinue
<1>1. Packets!Assumptions
  BY RealtimeAssumption
<1>2. RealtimeInit => PacketsInv
  BY <1>1, PacketInit DEF RealtimeInit, PacketsInv
<1>3. PacketsInv /\ [RealtimeNext]_realtimeVars => PacketsInv'
  <2> SUFFICES ASSUME PacketsInv, [RealtimeNext]_realtimeVars, part' = "packets" PROVE PacketInv'
    BY DEF PacketsInv
  <2>1. CASE UNCHANGED realtimeVars
    BY <2>1, PacketIdle DEF realtimeVars, PacketsInv
  <2>2. CASE RealtimeNext
    <3>1. CASE part = "packets" /\ Packets!Next
      BY <1>1, <3>1, PacketStep DEF PacketsInv
    <3>2. CASE UNCHANGED <<part, packetVars>>
      BY <3>2, PacketIdle DEF PacketsInv
    <3> QED
      BY <2>2, <3>1, <3>2 DEF RealtimeNext
  <2> QED
    BY <2>1, <2>2
<1>4. PacketsInv => StreamsContinue
  BY FirstWrittenIsKey DEF PacketsInv, PacketInv, StreamsContinue
<1> QED
  BY <1>2, <1>3, <1>4, PTL DEF RealtimeSpec

-----------------------------------------------------------------------------
(***************************************************************************)
(* The embed of a URL (Embeds), for any messages, viewers, providers and   *)
(* semaphores.  Crawls that overlap leave every message that has the row   *)
(* in doubt; a crawl that is alone knows which readers it has to tell.     *)
(***************************************************************************)
Early == {"cache", "next", "busy", "upsert"}
CrawlingNow(r) == embedReq[r].at \in Embed!Crawling
LoneCrawl(r) == \A q \in Embed!Askers \ {r} : ~CrawlingNow(q)

CrawlsAreSure ==
    \A r \in Embed!Askers : CrawlingNow(r) /\ ~LoneCrawl(r) => links \cup ({r} \cap Messages) \subseteq embedUnsure

ReadersAgree == \A m \in links \ embedUnsure : embedSeen[m] = embed

KnowsTheRow(r) ==
    /\ embedReq[r].at \in Early => ReadersAgree
    /\ embedReq[r].at = "refs" => \A m \in links \ embedUnsure : embedReq[r].got = embed
    /\ embedReq[r].at \in {"link", "tell"} => \A m \in links \ embedUnsure :
          embedReq[r].got = embed /\ (embedSeen[m] = embed \/ m \in embedReq[r].refs \cup {r})
    /\ r \in Messages \ embedUnsure /\ embedReq[r].at \in {"refs", "link", "tell"} => embedReq[r].got = embed

LoneCrawlKnowsTheRow == \A r \in Embed!Askers : CrawlingNow(r) /\ LoneCrawl(r) => KnowsTheRow(r)
NobodyCrawls == \A r \in Embed!Askers : ~CrawlingNow(r)

ReadersInv == CrawlsAreSure /\ LoneCrawlKnowsTheRow /\ (NobodyCrawls => ReadersAgree)
EmbedInv == Embed!TypeOK /\ Embed!SlotsAreGivenBack /\ ReadersInv

LEMMA EmbedConstants ==
    ASSUME Embed!Assumptions
    PROVE  /\ IsFiniteSet(Embed!Askers) /\ Messages \cap Viewers = {} /\ None \notin Nat
           /\ OutboundMaxConc \in Nat \ {0} /\ MaxVersions \in Nat \ {0}
           /\ Messages \subseteq Embed!Askers /\ Viewers \subseteq Embed!Askers
BY DEF Embed!Assumptions, Embed!Askers, IsFiniteSet, Embed!IsFiniteSet

\* A step of a request that crawls: what it must know afterwards if it is alone.
LEMMA CrawlMoves ==
    ASSUME ReadersInv, NEW r \in Embed!Askers, CrawlingNow(r),
           \A q \in Embed!Askers \ {r} : embedReq'[q] = embedReq[q],
           embedUnsure \subseteq embedUnsure', links' \subseteq links \cup ({r} \cap Messages),
           LoneCrawl(r) /\ CrawlingNow(r)' => KnowsTheRow(r)',
           LoneCrawl(r) /\ ~CrawlingNow(r)' => ReadersAgree'
    PROVE  ReadersInv'
<1>1. \A q \in Embed!Askers \ {r} : CrawlingNow(q)' <=> CrawlingNow(q)
  BY DEF CrawlingNow
<1>2. LoneCrawl(r)' <=> LoneCrawl(r)
  BY <1>1 DEF LoneCrawl
<1>3. ~LoneCrawl(r) => links' \subseteq embedUnsure' /\ {r} \cap Messages \subseteq embedUnsure'
  BY DEF ReadersInv, CrawlsAreSure
<1>4. ASSUME NEW q \in Embed!Askers, q # r, CrawlingNow(q)'
      PROVE  ~LoneCrawl(r) /\ links' \cup ({q} \cap Messages) \subseteq embedUnsure'
  <2>1. CrawlingNow(q) /\ ~LoneCrawl(r) /\ ~LoneCrawl(q)
    BY <1>1, <1>4 DEF LoneCrawl
  <2> QED
    BY <1>3, <2>1 DEF ReadersInv, CrawlsAreSure
<1>5. CrawlsAreSure'
  <2>1. ASSUME NEW q \in Embed!Askers, CrawlingNow(q)', ~LoneCrawl(q)'
        PROVE  links' \cup ({q} \cap Messages) \subseteq embedUnsure'
    <3>1. CASE q = r
      BY <1>2, <1>3, <2>1, <3>1
    <3>2. CASE q # r
      BY <1>4, <2>1, <3>2
    <3> QED
      BY <3>1, <3>2
  <2> QED
    BY <2>1 DEF CrawlsAreSure
<1>6. LoneCrawlKnowsTheRow'
  <2>1. ASSUME NEW q \in Embed!Askers, CrawlingNow(q)', LoneCrawl(q)'
        PROVE  KnowsTheRow(q)'
    <3>1. CASE q = r
      BY <1>2, <2>1, <3>1
    <3>2. CASE q # r
      <4>1. links' \ embedUnsure' = {} /\ q \notin Messages \ embedUnsure'
        BY <1>4, <2>1, <3>2
      <4> QED
        BY <4>1 DEF KnowsTheRow, ReadersAgree
    <3> QED
      BY <3>1, <3>2
  <2> QED
    BY <2>1 DEF LoneCrawlKnowsTheRow
<1>7. NobodyCrawls' => ReadersAgree'
  BY <1>1 DEF NobodyCrawls, LoneCrawl
<1> QED
  BY <1>5, <1>6, <1>7 DEF ReadersInv

\* A crawl begins.
LEMMA CrawlBegins ==
    ASSUME ReadersInv, NEW r \in Embed!Askers, ~CrawlingNow(r), embedReq'[r].at = "cache",
           \A q \in Embed!Askers \ {r} : embedReq'[q] = embedReq[q],
           embedUnsure' = embedUnsure \cup Embed!Unsure(r), UNCHANGED <<embed, links, embedSeen>>
    PROVE  ReadersInv'
<1>1. CrawlingNow(r)' /\ \A q \in Embed!Askers \ {r} : CrawlingNow(q)' <=> CrawlingNow(q)
  BY DEF CrawlingNow, Embed!Crawling
<1>2. \A q \in Embed!Askers \ {r} : CrawlingNow(q) <=> q \in Embed!Overlapping(r)
  BY DEF CrawlingNow, Embed!Overlapping
<1>3. CrawlsAreSure'
  <2>1. ASSUME NEW q \in Embed!Askers, CrawlingNow(q)', ~LoneCrawl(q)'
        PROVE  links' \cup ({q} \cap Messages) \subseteq embedUnsure'
    <3>1. PICK p \in Embed!Askers \ {q} : CrawlingNow(p)'
      BY <2>1 DEF LoneCrawl
    <3>2. Embed!Overlapping(r) # {} /\ q \in Embed!Overlapping(r) \cup {r}
      BY <1>1, <1>2, <2>1, <3>1
    <3>3. Embed!Unsure(r) = links \cup ((Embed!Overlapping(r) \cup {r}) \cap Messages)
      BY <3>2 DEF Embed!Unsure
    <3> QED
      BY <3>2, <3>3
  <2> QED
    BY <2>1 DEF CrawlsAreSure
<1>4. LoneCrawlKnowsTheRow'
  <2>1. ASSUME NEW q \in Embed!Askers, CrawlingNow(q)', LoneCrawl(q)'
        PROVE  KnowsTheRow(q)'
    <3>1. q = r
      BY <1>1, <2>1 DEF LoneCrawl
    <3>2. NobodyCrawls
      BY <1>1, <2>1, <3>1 DEF LoneCrawl, NobodyCrawls
    <3>3. Embed!Unsure(r) = {}
      BY <1>2, <3>2 DEF Embed!Unsure, NobodyCrawls, Embed!Overlapping
    <3>4. ReadersAgree'
      BY <3>2, <3>3 DEF ReadersInv, ReadersAgree
    <3> QED
      BY <3>1, <3>4 DEF KnowsTheRow
  <2> QED
    BY <2>1 DEF LoneCrawlKnowsTheRow
<1>5. ~NobodyCrawls'
  BY <1>1 DEF NobodyCrawls
<1> QED
  BY <1>3, <1>4, <1>5 DEF ReadersInv

\* A step that is of no crawl.
LEMMA NoCrawlMoves ==
    ASSUME ReadersInv, \A q \in Embed!Askers : embedReq'[q] = embedReq[q] \/ (~CrawlingNow(q) /\ ~CrawlingNow(q)'),
           UNCHANGED <<embed, links, embedSeen, embedUnsure>>
    PROVE  ReadersInv'
<1>1. \A q \in Embed!Askers : CrawlingNow(q)' <=> CrawlingNow(q)
  BY DEF CrawlingNow
<1>2. \A q \in Embed!Askers : LoneCrawl(q)' <=> LoneCrawl(q)
  BY <1>1 DEF LoneCrawl
<1>3. CrawlsAreSure'
  BY <1>1, <1>2 DEF ReadersInv, CrawlsAreSure
<1>4. ASSUME NEW q \in Embed!Askers, CrawlingNow(q)', LoneCrawl(q)'
      PROVE  KnowsTheRow(q)'
  <2>1. KnowsTheRow(q) /\ embedReq'[q] = embedReq[q]
    BY <1>1, <1>2, <1>4 DEF ReadersInv, LoneCrawlKnowsTheRow
  <2> QED
    BY <2>1 DEF KnowsTheRow, ReadersAgree
<1>5. NobodyCrawls' => ReadersAgree'
  BY <1>1 DEF ReadersInv, NobodyCrawls, ReadersAgree
<1> QED
  BY <1>3, <1>4, <1>5 DEF ReadersInv, LoneCrawlKnowsTheRow

\* Before the row is written, or the fetch has failed, the readers agree.
LEMMA EarlyMoves ==
    ASSUME ReadersInv, NEW r \in Embed!Askers, embedReq[r].at \in Early, embedReq'[r].at \in Early \cup {"failed", "open"},
           \A q \in Embed!Askers \ {r} : embedReq'[q] = embedReq[q],
           UNCHANGED <<embed, links, embedSeen, embedUnsure>>
    PROVE  ReadersInv'
<1>1. CrawlingNow(r)
  BY DEF CrawlingNow, Early, Embed!Crawling
<1>2. LoneCrawl(r) => ReadersAgree
  BY <1>1 DEF ReadersInv, LoneCrawlKnowsTheRow, KnowsTheRow
<1>3. LoneCrawl(r) => ReadersAgree'
  BY <1>2 DEF ReadersAgree
<1>4. LoneCrawl(r) => KnowsTheRow(r)'
  BY <1>3 DEF KnowsTheRow, Early
<1> QED
  BY <1>1, <1>3, <1>4, CrawlMoves

\* What a step of a request does to the slots.
Busy == {r \in Embed!Askers : embedReq[r].at = "busy"}
Streaming == {v \in Viewers : embedReq[v].at = "stream"}

LEMMA EmbedCardinality == ASSUME NEW S PROVE Embed!Cardinality(S) = Cardinality(S)
BY DEF Embed!Cardinality, Cardinality

LEMMA SlotsCount ==
    ASSUME Embed!Assumptions
    PROVE  /\ Embed!SlotsAreGivenBack <=> outbound = Cardinality(Busy) /\ video = Cardinality(Streaming)
           /\ Embed!SlotsAreGivenBack' <=> outbound' = Cardinality(Busy') /\ video' = Cardinality(Streaming')
BY EmbedCardinality DEF Embed!SlotsAreGivenBack, Busy, Streaming, Embed!At

LEMMA SlotsFollow ==
    ASSUME Embed!Assumptions, Embed!SlotsAreGivenBack, NEW r \in Embed!Askers,
           \A q \in Embed!Askers \ {r} : embedReq'[q] = embedReq[q]
    PROVE  /\ Cardinality(Busy) = outbound /\ outbound \in Nat /\ video \in Nat
           /\ embedReq[r].at = "busy" => outbound > 0
           /\ embedReq[r].at = "stream" /\ r \in Viewers => video > 0
           /\ Cardinality(Busy') = outbound + (IF embedReq'[r].at = "busy" THEN 1 ELSE 0)
                                            - (IF embedReq[r].at = "busy" THEN 1 ELSE 0)
           /\ Cardinality(Streaming') = video + (IF r \in Viewers /\ embedReq'[r].at = "stream" THEN 1 ELSE 0)
                                              - (IF r \in Viewers /\ embedReq[r].at = "stream" THEN 1 ELSE 0)
<1>1. outbound = Cardinality(Busy) /\ video = Cardinality(Streaming)
  BY SlotsCount
<1>2. IsFiniteSet(Busy) /\ IsFiniteSet(Streaming)
  BY EmbedConstants, FS_Subset DEF Busy, Streaming
<1>3. Cardinality(Busy) \in Nat /\ Cardinality(Streaming) \in Nat
  BY <1>2, FS_CardinalityType
<1>4. IsFiniteSet(Busy \ {r}) /\ IsFiniteSet(Streaming \ {r})
  BY <1>2, FS_Subset
<1>5. /\ Cardinality(Busy) = Cardinality(Busy \ {r}) + (IF embedReq[r].at = "busy" THEN 1 ELSE 0)
      /\ Cardinality(Busy \ {r}) \in Nat
  <2>1. CASE embedReq[r].at = "busy"
    <3>1. Busy = (Busy \ {r}) \cup {r}
      BY <2>1 DEF Busy
    <3> QED
      BY <1>4, <2>1, <3>1, FS_AddElement, FS_CardinalityType
  <2>2. CASE embedReq[r].at # "busy"
    <3>1. Busy = Busy \ {r}
      BY <2>2 DEF Busy
    <3> QED
      BY <1>3, <2>2, <3>1
  <2> QED
    BY <2>1, <2>2
<1>6. Cardinality(Busy') = Cardinality(Busy \ {r}) + (IF embedReq'[r].at = "busy" THEN 1 ELSE 0)
  <2>1. CASE embedReq'[r].at = "busy"
    <3>1. Busy' = (Busy \ {r}) \cup {r}
      BY <2>1 DEF Busy
    <3> QED
      BY <1>4, <2>1, <3>1, FS_AddElement
  <2>2. CASE embedReq'[r].at # "busy"
    <3>1. Busy' = Busy \ {r}
      BY <2>2 DEF Busy
    <3> QED
      BY <1>5, <2>2, <3>1
  <2> QED
    BY <2>1, <2>2
<1>7. /\ Cardinality(Streaming) = Cardinality(Streaming \ {r}) + (IF r \in Viewers /\ embedReq[r].at = "stream" THEN 1 ELSE 0)
      /\ Cardinality(Streaming \ {r}) \in Nat
  <2>1. CASE r \in Viewers /\ embedReq[r].at = "stream"
    <3>1. Streaming = (Streaming \ {r}) \cup {r}
      BY <2>1 DEF Streaming
    <3> QED
      BY <1>4, <2>1, <3>1, FS_AddElement, FS_CardinalityType
  <2>2. CASE ~(r \in Viewers /\ embedReq[r].at = "stream")
    <3>1. Streaming = Streaming \ {r}
      BY <2>2 DEF Streaming
    <3> QED
      BY <1>3, <2>2, <3>1
  <2> QED
    BY <2>1, <2>2
<1>8. Cardinality(Streaming') = Cardinality(Streaming \ {r}) + (IF r \in Viewers /\ embedReq'[r].at = "stream" THEN 1 ELSE 0)
  <2>0. Viewers \subseteq Embed!Askers
    BY EmbedConstants
  <2>1. CASE r \in Viewers /\ embedReq'[r].at = "stream"
    <3>1. Streaming' = (Streaming \ {r}) \cup {r}
      BY <2>0, <2>1 DEF Streaming
    <3> QED
      BY <1>4, <2>1, <3>1, FS_AddElement
  <2>2. CASE ~(r \in Viewers /\ embedReq'[r].at = "stream")
    <3>1. Streaming' = Streaming \ {r}
      BY <2>0, <2>2 DEF Streaming
    <3> QED
      BY <1>7, <2>2, <3>1
  <2> QED
    BY <2>1, <2>2
<1> QED
  BY <1>1, <1>3, <1>5, <1>6, <1>7, <1>8

\* The request r comes to stand at x.
LEMMA RequestMoves ==
    ASSUME EmbedInv, NEW r \in Embed!Askers, NEW x \in Embed!Request, embedReq' = [embedReq EXCEPT ![r] = x]
    PROVE  /\ embedReq' \in [Embed!Askers -> Embed!Request] /\ embedReq'[r] = x
           /\ \A q \in Embed!Askers \ {r} : embedReq'[q] = embedReq[q]
BY DEF EmbedInv, Embed!TypeOK

LEMMA GoMoves ==
    ASSUME EmbedInv, NEW r \in Embed!Askers,
           NEW a \in {"new", "cache", "next", "busy", "upsert", "refs", "link", "tell", "open", "stream",
                      "refused", "failed", "done"}, Embed!Go(r, a)
    PROVE  /\ embedReq' \in [Embed!Askers -> Embed!Request]
           /\ embedReq'[r].at = a /\ embedReq'[r].got = embedReq[r].got /\ embedReq'[r].refs = embedReq[r].refs
           /\ \A q \in Embed!Askers \ {r} : embedReq'[q] = embedReq[q]
<1> DEFINE x == [embedReq[r] EXCEPT !.at = a]
<1>1. embedReq \in [Embed!Askers -> Embed!Request]
  BY DEF EmbedInv, Embed!TypeOK
<1>2. x \in Embed!Request /\ x.at = a /\ x.got = embedReq[r].got /\ x.refs = embedReq[r].refs
  BY <1>1 DEF Embed!Request
<1>3. embedReq' = [embedReq EXCEPT ![r] = x]
  BY <1>1 DEF Embed!Go
<1> HIDE DEF x
<1> QED
  BY <1>2, <1>3, RequestMoves

\* A step of a fetch leaves a request before the row, or failed.
LEMMA ProceedMoves ==
    ASSUME EmbedInv, NEW r \in Embed!Askers, NEW got \in Embed!Version, Embed!Proceed(r, got)
    PROVE  /\ embedReq' \in [Embed!Askers -> Embed!Request] /\ embedReq'[r].at \in {"upsert", "next"}
           /\ \A q \in Embed!Askers \ {r} : embedReq'[q] = embedReq[q]
<1> DEFINE a == IF embedReq[r].step = Len(Embed!RouteOf(r)) THEN "upsert" ELSE "next"
           x == [embedReq[r] EXCEPT !.at = a, !.step = @ + 1, !.got = got]
<1>1. embedReq \in [Embed!Askers -> Embed!Request]
  BY DEF EmbedInv, Embed!TypeOK
<1>2. embedReq' = [embedReq EXCEPT ![r] = x]
  BY <1>1 DEF Embed!Proceed
<1>3. a \in {"upsert", "next"}
  OBVIOUS
<1> HIDE DEF a
<1>4. x \in Embed!Request /\ x.at = a
  <2> DEFINE s == embedReq[r].step + 1
  <2>1. s \in Nat /\ embedReq[r] \in Embed!Request
    BY <1>1 DEF Embed!Request
  <2>2. x = [embedReq[r] EXCEPT !.at = a, !.step = s, !.got = got]
    OBVIOUS
  <2> HIDE DEF s, x
  <2> QED
    BY <1>3, <2>1, <2>2 DEF Embed!Request
<1> HIDE DEF x
<1> QED
  BY <1>2, <1>3, <1>4, RequestMoves

LEMMA FallBackMoves ==
    ASSUME EmbedInv, NEW r \in Embed!Askers, Embed!FallBack(r)
    PROVE  /\ embedReq' \in [Embed!Askers -> Embed!Request] /\ embedReq'[r].at = "next"
           /\ \A q \in Embed!Askers \ {r} : embedReq'[q] = embedReq[q]
<1> DEFINE x == [embedReq[r] EXCEPT !.at = "next", !.route = "fallback", !.step = 1]
<1>1. embedReq \in [Embed!Askers -> Embed!Request]
  BY DEF EmbedInv, Embed!TypeOK
<1>2. embedReq' = [embedReq EXCEPT ![r] = x]
  BY <1>1 DEF Embed!FallBack
<1>3. x \in Embed!Request /\ x.at = "next"
  BY <1>1 DEF Embed!Request
<1> HIDE DEF x
<1> QED
  BY <1>2, <1>3, RequestMoves

LEMMA StepFailsMoves ==
    ASSUME EmbedInv, NEW r \in Embed!Askers, Embed!StepFails(r)
    PROVE  /\ embedReq' \in [Embed!Askers -> Embed!Request] /\ embedReq'[r].at \in {"upsert", "next", "failed"}
           /\ \A q \in Embed!Askers \ {r} : embedReq'[q] = embedReq[q]
<1>1. embedReq \in [Embed!Askers -> Embed!Request] /\ embedReq[r].got \in Embed!Version
  BY DEF EmbedInv, Embed!TypeOK, Embed!Request
<1>2. CASE Embed!Proceed(r, embedReq[r].got)
  BY <1>1, <1>2, ProceedMoves
<1>3. CASE Embed!FallBack(r)
  BY <1>3, FallBackMoves
<1>4. CASE Embed!Go(r, "failed")
  BY <1>4, GoMoves
<1> QED
  BY <1>2, <1>3, <1>4 DEF Embed!StepFails

\* What a step of a request owes: the type, the slots it takes and gives back,
\* and what the readers know.
LEMMA RequestKeeps ==
    ASSUME Embed!Assumptions, EmbedInv, NEW r \in Embed!Askers, embedReq' \in [Embed!Askers -> Embed!Request],
           \A q \in Embed!Askers \ {r} : embedReq'[q] = embedReq[q],
           UNCHANGED <<provider, page>>, embed' \in Embed!Version \cup {None}, fresh' \in BOOLEAN,
           links' \subseteq Messages, embedSeen' \in [Messages -> Embed!Version \cup {None}],
           embedUnsure' \subseteq Messages,
           outbound' = outbound + (IF embedReq'[r].at = "busy" THEN 1 ELSE 0)
                                - (IF embedReq[r].at = "busy" THEN 1 ELSE 0),
           video' = video + (IF r \in Viewers /\ embedReq'[r].at = "stream" THEN 1 ELSE 0)
                          - (IF r \in Viewers /\ embedReq[r].at = "stream" THEN 1 ELSE 0),
           embedReq'[r].at = "busy" => outbound < OutboundMaxConc \/ embedReq[r].at = "busy",
           r \in Viewers /\ embedReq'[r].at = "stream" => video < OutboundMaxConc \/ embedReq[r].at = "stream",
           ReadersInv'
    PROVE  EmbedInv'
<1>1. Embed!SlotsAreGivenBack'
  BY SlotsFollow, SlotsCount DEF EmbedInv
<1>2. /\ outbound \in 0 .. OutboundMaxConc /\ video \in 0 .. OutboundMaxConc
      /\ embedReq[r].at = "busy" => outbound > 0
      /\ r \in Viewers /\ embedReq[r].at = "stream" => video > 0
  BY SlotsFollow DEF EmbedInv, Embed!TypeOK
<1>3. outbound' \in 0 .. OutboundMaxConc
  BY <1>2, EmbedConstants
<1>4. video' \in 0 .. OutboundMaxConc
  BY <1>2, EmbedConstants
<1>5. Embed!TypeOK'
  BY <1>3, <1>4 DEF EmbedInv, Embed!TypeOK
<1> QED
  BY <1>1, <1>5 DEF EmbedInv

LEMMA EmbedTypes ==
    ASSUME EmbedInv
    PROVE  /\ embed \in Embed!Version \cup {None} /\ fresh \in BOOLEAN /\ links \subseteq Messages
           /\ embedSeen \in [Messages -> Embed!Version \cup {None}] /\ embedUnsure \subseteq Messages
           /\ page \in Embed!Version /\ outbound \in Int /\ video \in Int
           /\ embedReq \in [Embed!Askers -> Embed!Request]
           /\ \A r \in Embed!Askers : embedReq[r].got \in Embed!Version /\ embedReq[r].refs \subseteq Messages
BY DEF EmbedInv, Embed!TypeOK, Embed!Request

LEMMA GetByCacheKeyKeeps ==
    ASSUME Embed!Assumptions, EmbedInv, NEW r \in Embed!Askers, Embed!GetEmbedByCacheKey(r)
    PROVE  EmbedInv'
<1>1. /\ embedReq[r].at = "cache"
      /\ UNCHANGED <<provider, page, embed, fresh, links, embedSeen, outbound, video, embedUnsure>>
  BY DEF Embed!GetEmbedByCacheKey, Embed!At
<1>2. embedReq[r].at \in Early /\ CrawlingNow(r)
  BY <1>1 DEF Early, CrawlingNow, Embed!Crawling
<1>3. CASE embed # None /\ fresh
  <2> DEFINE a == IF r \in Messages THEN "link" ELSE "open"
             x == [embedReq[r] EXCEPT !.at = a, !.got = embed]
  <2>1. embedReq' = [embedReq EXCEPT ![r] = x]
    BY <1>3, EmbedTypes DEF Embed!GetEmbedByCacheKey
  <2>2. a \in {"link", "open"} /\ (r \in Messages <=> a = "link")
    OBVIOUS
  <2> HIDE DEF a
  <2>3. x \in Embed!Request /\ x.at = a /\ x.got = embed
    BY <1>3, <2>2, EmbedTypes DEF Embed!Request
  <2> HIDE DEF x
  <2>4. /\ embedReq' \in [Embed!Askers -> Embed!Request] /\ embedReq'[r] = x
        /\ \A q \in Embed!Askers \ {r} : embedReq'[q] = embedReq[q]
    BY <2>1, <2>3, RequestMoves
  <2>5. CASE a = "link"
    <3>1. LoneCrawl(r) => ReadersAgree
      BY <1>2 DEF EmbedInv, ReadersInv, LoneCrawlKnowsTheRow, KnowsTheRow
    <3>2. LoneCrawl(r) => KnowsTheRow(r)'
      BY <1>1, <2>3, <2>4, <2>5, <3>1 DEF KnowsTheRow, ReadersAgree, Early
    <3>3. CrawlingNow(r)'
      BY <2>3, <2>4, <2>5 DEF CrawlingNow, Embed!Crawling
    <3>4. ReadersInv'
      BY <1>1, <1>2, <2>4, <3>2, <3>3, CrawlMoves DEF EmbedInv
    <3> QED
      BY <1>1, <2>3, <2>4, <2>5, <3>4, EmbedTypes, RequestKeeps
  <2>6. CASE a = "open"
    <3>1. ReadersInv'
      BY <1>1, <1>2, <2>3, <2>4, <2>6, EarlyMoves DEF EmbedInv
    <3> QED
      BY <1>1, <2>3, <2>4, <2>6, <3>1, EmbedTypes, RequestKeeps
  <2> QED
    BY <2>2, <2>5, <2>6
<1>4. CASE ~(embed # None /\ fresh)
  <2>1. PICK a \in {"next", "failed"} : Embed!Go(r, a)
    BY <1>4 DEF Embed!GetEmbedByCacheKey
  <2>2. /\ embedReq' \in [Embed!Askers -> Embed!Request] /\ embedReq'[r].at \in {"next", "failed"}
        /\ \A q \in Embed!Askers \ {r} : embedReq'[q] = embedReq[q]
    BY <2>1, GoMoves
  <2>3. ReadersInv'
    BY <1>1, <1>2, <2>2, EarlyMoves DEF EmbedInv, Early
  <2> QED
    BY <1>1, <2>2, <2>3, EmbedTypes, RequestKeeps
<1> QED
  BY <1>3, <1>4

LEMMA NotFetchedKeeps ==
    ASSUME Embed!Assumptions, EmbedInv, NEW r \in Embed!Askers, Embed!NotNeeded(r) \/ Embed!FetchRefused(r)
    PROVE  EmbedInv'
<1>1. /\ embedReq[r].at = "next" /\ (Embed!Proceed(r, embedReq[r].got) \/ Embed!StepFails(r))
      /\ UNCHANGED <<provider, page, embed, fresh, links, embedSeen, outbound, video, embedUnsure>>
  BY DEF Embed!NotNeeded, Embed!FetchRefused, Embed!At
<1>2. /\ embedReq' \in [Embed!Askers -> Embed!Request] /\ embedReq'[r].at \in {"upsert", "next", "failed"}
      /\ \A q \in Embed!Askers \ {r} : embedReq'[q] = embedReq[q]
  BY <1>1, EmbedTypes, ProceedMoves, StepFailsMoves
<1>3. ReadersInv'
  BY <1>1, <1>2, EarlyMoves DEF EmbedInv, Early
<1> QED
  BY <1>1, <1>2, <1>3, EmbedTypes, RequestKeeps

LEMMA AcquireKeeps ==
    ASSUME Embed!Assumptions, EmbedInv, NEW r \in Embed!Askers, Embed!AcquireOutboundSlot(r)
    PROVE  EmbedInv'
<1>1. /\ embedReq[r].at = "next" /\ outbound < OutboundMaxConc /\ outbound' = outbound + 1 /\ Embed!Go(r, "busy")
      /\ UNCHANGED <<provider, page, embed, fresh, links, embedSeen, video, embedUnsure>>
  BY DEF Embed!AcquireOutboundSlot, Embed!At
<1>2. /\ embedReq' \in [Embed!Askers -> Embed!Request] /\ embedReq'[r].at = "busy"
      /\ \A q \in Embed!Askers \ {r} : embedReq'[q] = embedReq[q]
  BY <1>1, GoMoves
<1>3. ReadersInv'
  BY <1>1, <1>2, EarlyMoves DEF EmbedInv, Early
<1> QED
  BY <1>1, <1>2, <1>3, EmbedTypes, RequestKeeps

LEMMA SafeFetchKeeps ==
    ASSUME Embed!Assumptions, EmbedInv, NEW r \in Embed!Askers, Embed!SafeFetch(r)
    PROVE  EmbedInv'
<1> DEFINE got == IF Embed!Kind(r) = "must" THEN page ELSE embedReq[r].got
<1>1. /\ embedReq[r].at = "busy" /\ outbound' = outbound - 1
      /\ Embed!Proceed(r, got) \/ Embed!StepFails(r)
      /\ UNCHANGED <<provider, page, embed, fresh, links, embedSeen, video, embedUnsure>>
  BY DEF Embed!SafeFetch, Embed!At
<1>2. got \in Embed!Version
  BY EmbedTypes
<1> HIDE DEF got
<1>3. /\ embedReq' \in [Embed!Askers -> Embed!Request] /\ embedReq'[r].at \in {"upsert", "next", "failed"}
      /\ \A q \in Embed!Askers \ {r} : embedReq'[q] = embedReq[q]
  BY <1>1, <1>2, ProceedMoves, StepFailsMoves
<1>4. ReadersInv'
  BY <1>1, <1>3, EarlyMoves DEF EmbedInv, Early
<1> QED
  BY <1>1, <1>3, <1>4, EmbedTypes, RequestKeeps

\* A crawl that is alone tells the messages that had the row; the relay, which
\* tells nobody, leaves them in doubt.
LEMMA UpsertKeeps ==
    ASSUME Embed!Assumptions, EmbedInv, NEW r \in Embed!Askers, Embed!UpsertLinkEmbed(r)
    PROVE  EmbedInv'
<1>1. embedReq[r].at = "upsert" /\ UNCHANGED <<provider, page, links, embedSeen, outbound, video>>
  BY DEF Embed!UpsertLinkEmbed, Embed!At
<1>2. embedReq[r].at \in Early /\ CrawlingNow(r)
  BY <1>1 DEF Early, CrawlingNow, Embed!Crawling
<1>3. CASE (Embed!FallBack(r) \/ Embed!Go(r, "failed")) /\ UNCHANGED <<embed, fresh, embedUnsure>>
  <2>1. /\ embedReq' \in [Embed!Askers -> Embed!Request] /\ embedReq'[r].at \in {"next", "failed"}
        /\ \A q \in Embed!Askers \ {r} : embedReq'[q] = embedReq[q]
    <3>1. CASE Embed!FallBack(r)
      BY <3>1, FallBackMoves
    <3>2. CASE Embed!Go(r, "failed")
      BY <3>2, GoMoves
    <3> QED
      BY <1>3, <3>1, <3>2
  <2>2. ReadersInv'
    <3>1. /\ embedReq[r].at \in Early /\ embedReq'[r].at \in Early \cup {"failed", "open"}
          /\ UNCHANGED <<embed, links, embedSeen, embedUnsure>> /\ ReadersInv
      BY <1>1, <1>2, <1>3, <2>1 DEF Early, EmbedInv
    <3> QED
      BY <2>1, <3>1, EarlyMoves
  <2> QED
    BY <1>1, <1>3, <2>1, <2>2, EmbedTypes, RequestKeeps
<1>4. CASE /\ embed' = embedReq[r].got /\ fresh' = TRUE
           /\ Embed!Go(r, IF r \in Messages THEN "refs" ELSE "open")
           /\ embedUnsure' = IF r \in Viewers THEN embedUnsure \cup links ELSE embedUnsure
  <2> DEFINE a == IF r \in Messages THEN "refs" ELSE "open"
  <2>1. a \in {"refs", "open"} /\ (a = "open" => r \in Viewers)
    BY DEF Embed!Askers
  <2>2. Embed!Go(r, a)
    BY <1>4
  <2> HIDE DEF a
  <2>3. /\ embedReq' \in [Embed!Askers -> Embed!Request] /\ embedReq'[r].at = a
        /\ embedReq'[r].got = embedReq[r].got
        /\ \A q \in Embed!Askers \ {r} : embedReq'[q] = embedReq[q]
    BY <2>1, <2>2, GoMoves
  <2>4. /\ embed' \in Embed!Version \cup {None} /\ embedUnsure \subseteq embedUnsure' /\ embedUnsure' \subseteq Messages
        /\ fresh' \in BOOLEAN
    BY <1>4, EmbedTypes
  <2>5. CASE a = "refs"
    <3>1. KnowsTheRow(r)'
      BY <1>4, <2>3, <2>5 DEF KnowsTheRow, Early
    <3>2. CrawlingNow(r)'
      BY <2>3, <2>5 DEF CrawlingNow, Embed!Crawling
    <3> QED
      <4>1. ReadersInv'
        BY <1>1, <1>2, <2>3, <2>4, <3>1, <3>2, CrawlMoves DEF EmbedInv
      <4> QED
        BY <1>1, <2>3, <2>4, <2>5, <4>1, EmbedTypes, RequestKeeps
  <2>6. CASE a = "open"
    <3>1. ReadersAgree'
      BY <1>1, <1>4, <2>1, <2>6 DEF ReadersAgree
    <3>2. ~CrawlingNow(r)'
      BY <2>3, <2>6 DEF CrawlingNow, Embed!Crawling
    <3>3. ReadersInv'
      BY <1>1, <1>2, <2>3, <2>4, <3>1, <3>2, CrawlMoves DEF EmbedInv
    <3> QED
      BY <1>1, <2>3, <2>4, <2>6, <3>3, EmbedTypes, RequestKeeps
  <2> QED
    BY <2>1, <2>5, <2>6
<1> QED
  BY <1>3, <1>4 DEF Embed!UpsertLinkEmbed

LEMMA CrawlEmbedsKeeps ==
    ASSUME Embed!Assumptions, EmbedInv, NEW m \in Messages, Embed!CrawlEmbeds(m)
    PROVE  EmbedInv'
<1>1. /\ m \in Embed!Askers /\ embedReq[m].at = "new" /\ Embed!Go(m, "cache")
      /\ embedUnsure' = embedUnsure \cup Embed!Unsure(m)
      /\ UNCHANGED <<provider, page, embed, fresh, links, embedSeen, outbound, video>>
  BY EmbedConstants DEF Embed!CrawlEmbeds, Embed!At
<1>2. /\ embedReq' \in [Embed!Askers -> Embed!Request] /\ embedReq'[m].at = "cache"
      /\ \A q \in Embed!Askers \ {m} : embedReq'[q] = embedReq[q]
  BY <1>1, GoMoves
<1>3. ReadersInv'
  BY <1>1, <1>2, CrawlBegins DEF EmbedInv, CrawlingNow, Embed!Crawling
<1>4. embedUnsure' \subseteq Messages
  BY <1>1, EmbedTypes DEF Embed!Unsure
<1> QED
  BY <1>1, <1>2, <1>3, <1>4, EmbedTypes, RequestKeeps

LEMMA ListRefsKeeps ==
    ASSUME Embed!Assumptions, EmbedInv, NEW m \in Messages, Embed!ListMessageRefsByEmbedID(m)
    PROVE  EmbedInv'
<1>1. /\ m \in Embed!Askers /\ embedReq[m].at = "refs"
      /\ embedReq' = [embedReq EXCEPT ![m].at = "link", ![m].refs = links]
      /\ UNCHANGED <<provider, page, embed, fresh, links, embedSeen, outbound, video, embedUnsure>>
  BY EmbedConstants DEF Embed!ListMessageRefsByEmbedID, Embed!At
<1> DEFINE x == [embedReq[m] EXCEPT !.at = "link", !.refs = links]
<1>2. embedReq' = [embedReq EXCEPT ![m] = x]
  BY <1>1, EmbedTypes
<1>3. x \in Embed!Request /\ x.at = "link" /\ x.refs = links /\ x.got = embedReq[m].got
  BY <1>1, EmbedTypes DEF Embed!Request
<1> HIDE DEF x
<1>4. /\ embedReq' \in [Embed!Askers -> Embed!Request] /\ embedReq'[m] = x
      /\ \A q \in Embed!Askers \ {m} : embedReq'[q] = embedReq[q]
  BY <1>1, <1>2, <1>3, RequestMoves
<1>5. CrawlingNow(m) /\ CrawlingNow(m)'
  BY <1>1, <1>3, <1>4 DEF CrawlingNow, Embed!Crawling
<1>6. LoneCrawl(m) => KnowsTheRow(m)
  BY <1>1, <1>5 DEF EmbedInv, ReadersInv, LoneCrawlKnowsTheRow
<1>7. LoneCrawl(m) => KnowsTheRow(m)'
  BY <1>1, <1>3, <1>4, <1>6 DEF KnowsTheRow, Early
<1>8. ReadersInv'
  BY <1>1, <1>4, <1>5, <1>7, CrawlMoves DEF EmbedInv
<1> QED
  BY <1>1, <1>3, <1>4, <1>8, EmbedTypes, RequestKeeps

LEMMA AddMessageEmbedsKeeps ==
    ASSUME Embed!Assumptions, EmbedInv, NEW m \in Messages, Embed!AddMessageEmbeds(m)
    PROVE  EmbedInv'
<1>1. /\ m \in Embed!Askers /\ embedReq[m].at = "link" /\ Embed!Go(m, "tell") /\ links' = links \cup {m}
      /\ UNCHANGED <<provider, page, embed, fresh, embedSeen, outbound, video, embedUnsure>>
  BY EmbedConstants DEF Embed!AddMessageEmbeds, Embed!At
<1>2. /\ embedReq' \in [Embed!Askers -> Embed!Request] /\ embedReq'[m].at = "tell"
      /\ embedReq'[m].got = embedReq[m].got /\ embedReq'[m].refs = embedReq[m].refs
      /\ \A q \in Embed!Askers \ {m} : embedReq'[q] = embedReq[q]
  BY <1>1, GoMoves
<1>3. CrawlingNow(m) /\ CrawlingNow(m)'
  BY <1>1, <1>2 DEF CrawlingNow, Embed!Crawling
<1>4. LoneCrawl(m) => KnowsTheRow(m)
  BY <1>1, <1>3 DEF EmbedInv, ReadersInv, LoneCrawlKnowsTheRow
<1>5. LoneCrawl(m) => KnowsTheRow(m)'
  BY <1>1, <1>2, <1>4 DEF KnowsTheRow, Early
<1>6. links' \subseteq links \cup ({m} \cap Messages) /\ links' \subseteq Messages
  BY <1>1, EmbedTypes
<1>7. ReadersInv'
  BY <1>1, <1>2, <1>3, <1>5, <1>6, CrawlMoves DEF EmbedInv
<1> QED
  BY <1>1, <1>2, <1>6, <1>7, EmbedTypes, RequestKeeps

LEMMA MessageEmbedsUpdateKeeps ==
    ASSUME Embed!Assumptions, EmbedInv, NEW m \in Messages, Embed!MessageEmbedsUpdate(m)
    PROVE  EmbedInv'
<1>1. /\ m \in Embed!Askers /\ embedReq[m].at = "tell" /\ Embed!Go(m, "done")
      /\ embedSeen' = [n \in Messages |->
            IF n \in embedReq[m].refs \cup {m} THEN embedReq[m].got ELSE embedSeen[n]]
      /\ UNCHANGED <<provider, page, embed, fresh, links, outbound, video, embedUnsure>>
  BY EmbedConstants DEF Embed!MessageEmbedsUpdate, Embed!At
<1>2. /\ embedReq' \in [Embed!Askers -> Embed!Request] /\ embedReq'[m].at = "done"
      /\ \A q \in Embed!Askers \ {m} : embedReq'[q] = embedReq[q]
  BY <1>1, GoMoves
<1>3. CrawlingNow(m) /\ ~CrawlingNow(m)'
  BY <1>1, <1>2 DEF CrawlingNow, Embed!Crawling
<1>4. LoneCrawl(m) => KnowsTheRow(m)
  BY <1>1, <1>3 DEF EmbedInv, ReadersInv, LoneCrawlKnowsTheRow
<1>5. LoneCrawl(m) => ReadersAgree'
  <2>1. SUFFICES ASSUME LoneCrawl(m), NEW n \in links \ embedUnsure PROVE embedSeen'[n] = embed
    BY <1>1 DEF ReadersAgree
  <2>2. embedReq[m].got = embed /\ (embedSeen[n] = embed \/ n \in embedReq[m].refs \cup {m})
    BY <1>1, <1>4, <2>1 DEF KnowsTheRow
  <2>3. n \in Messages
    BY <2>1, EmbedTypes
  <2> QED
    BY <1>1, <2>2, <2>3
<1>6. embedSeen' \in [Messages -> Embed!Version \cup {None}]
  BY <1>1, EmbedTypes
<1>7. ReadersInv'
  BY <1>1, <1>2, <1>3, <1>5, CrawlMoves DEF EmbedInv
<1> QED
  BY <1>1, <1>2, <1>6, <1>7, EmbedTypes, RequestKeeps

LEMMA GetEmbedKeeps ==
    ASSUME Embed!Assumptions, EmbedInv, NEW v \in Viewers, Embed!GetEmbed(v)
    PROVE  EmbedInv'
<1>1. /\ v \in Embed!Askers /\ embedReq[v].at = "new"
      /\ embedUnsure' = IF embedReq'[v].at = "cache" THEN embedUnsure \cup Embed!Unsure(v) ELSE embedUnsure
      /\ UNCHANGED <<provider, page, embed, fresh, links, embedSeen, outbound, video>>
  BY EmbedConstants DEF Embed!GetEmbed, Embed!At
<1>2. PICK a \in {"refused", "cache", "open"} : Embed!Go(v, a)
  <2>1. CASE links = {}
    BY <2>1 DEF Embed!GetEmbed
  <2>2. CASE links # {}
    <3>1. PICK m \in links :
            Embed!Go(v, IF ~Embed!CanReadMessage(v, m) THEN "refused"
                        ELSE IF provider = "reddit" /\ ~fresh THEN "cache" ELSE "open")
      BY <2>2 DEF Embed!GetEmbed
    <3> QED
      BY <3>1
  <2> QED
    BY <2>1, <2>2
<1>3. /\ embedReq' \in [Embed!Askers -> Embed!Request] /\ embedReq'[v].at = a
      /\ \A q \in Embed!Askers \ {v} : embedReq'[q] = embedReq[q]
  BY <1>1, <1>2, GoMoves
<1>4. ~CrawlingNow(v)
  BY <1>1 DEF CrawlingNow, Embed!Crawling
<1>5. CASE a = "cache"
  <2>1. ReadersInv'
    BY <1>1, <1>3, <1>4, <1>5, CrawlBegins DEF EmbedInv
  <2>2. embedUnsure' \subseteq Messages
    BY <1>1, <1>3, <1>5, EmbedTypes DEF Embed!Unsure
  <2> QED
    BY <1>1, <1>3, <1>5, <2>1, <2>2, EmbedTypes, RequestKeeps
<1>6. CASE a # "cache"
  <2>1. ~CrawlingNow(v)' /\ UNCHANGED embedUnsure
    BY <1>1, <1>3, <1>6 DEF CrawlingNow, Embed!Crawling
  <2>2. ReadersInv'
    BY <1>1, <1>3, <1>4, <2>1, NoCrawlMoves DEF EmbedInv
  <2> QED
    BY <1>1, <1>3, <2>1, <2>2, EmbedTypes, RequestKeeps
<1> QED
  BY <1>5, <1>6

LEMMA OpenEmbedVideoKeeps ==
    ASSUME Embed!Assumptions, EmbedInv, NEW v \in Viewers, Embed!OpenEmbedVideo(v)
    PROVE  EmbedInv'
<1>1. /\ v \in Embed!Askers /\ embedReq[v].at = "open"
      /\ UNCHANGED <<provider, page, embed, fresh, links, embedSeen, outbound, embedUnsure>>
  BY EmbedConstants DEF Embed!OpenEmbedVideo, Embed!At
<1>2. CASE Embed!Go(v, "failed") /\ UNCHANGED video
  <2>1. /\ embedReq' \in [Embed!Askers -> Embed!Request] /\ embedReq'[v].at = "failed"
        /\ \A q \in Embed!Askers \ {v} : embedReq'[q] = embedReq[q]
    BY <1>1, <1>2, GoMoves
  <2>2. ReadersInv'
    BY <1>1, <2>1, NoCrawlMoves DEF EmbedInv, CrawlingNow, Embed!Crawling
  <2> QED
    BY <1>1, <1>2, <2>1, <2>2, EmbedTypes, RequestKeeps
<1>3. CASE video < OutboundMaxConc /\ video' = video + 1 /\ Embed!Go(v, "stream")
  <2>1. /\ embedReq' \in [Embed!Askers -> Embed!Request] /\ embedReq'[v].at = "stream"
        /\ \A q \in Embed!Askers \ {v} : embedReq'[q] = embedReq[q]
    BY <1>1, <1>3, GoMoves
  <2>2. ReadersInv'
    BY <1>1, <2>1, NoCrawlMoves DEF EmbedInv, CrawlingNow, Embed!Crawling
  <2> QED
    BY <1>1, <1>3, <2>1, <2>2, EmbedTypes, RequestKeeps
<1> QED
  BY <1>2, <1>3 DEF Embed!OpenEmbedVideo

LEMMA VideoEndsKeeps ==
    ASSUME Embed!Assumptions, EmbedInv, NEW v \in Viewers, Embed!VideoEnds(v)
    PROVE  EmbedInv'
<1>1. /\ v \in Embed!Askers /\ embedReq[v].at = "stream" /\ Embed!Go(v, "done") /\ video' = video - 1
      /\ UNCHANGED <<provider, page, embed, fresh, links, embedSeen, outbound, embedUnsure>>
  BY EmbedConstants DEF Embed!VideoEnds, Embed!At
<1>2. /\ embedReq' \in [Embed!Askers -> Embed!Request] /\ embedReq'[v].at = "done"
      /\ \A q \in Embed!Askers \ {v} : embedReq'[q] = embedReq[q]
  BY <1>1, GoMoves
<1>3. ReadersInv'
  BY <1>1, <1>2, NoCrawlMoves DEF EmbedInv, CrawlingNow, Embed!Crawling
<1> QED
  BY <1>1, <1>2, <1>3, EmbedTypes, RequestKeeps

\* The page and the age of the row are nothing that the readers know.
LEMMA PageKeeps ==
    ASSUME Embed!Assumptions, EmbedInv, Embed!PageChanges \/ Embed!EmbedAges
    PROVE  EmbedInv'
<1>1. UNCHANGED <<provider, embed, links, embedSeen, embedReq, outbound, video, embedUnsure>>
  BY DEF Embed!PageChanges, Embed!EmbedAges
<1>2. page' \in Embed!Version /\ fresh' \in BOOLEAN
  <2>1. (page < MaxVersions /\ page' = page + 1) \/ page' = page
    BY DEF Embed!PageChanges, Embed!EmbedAges
  <2>2. page' \in Embed!Version
    BY <2>1, EmbedTypes, EmbedConstants DEF Embed!Version
  <2>3. fresh' = FALSE \/ fresh' = fresh
    BY DEF Embed!PageChanges, Embed!EmbedAges
  <2>4. fresh' \in BOOLEAN
    BY <2>3, EmbedTypes, Zenon
  <2> QED
    BY <2>2, <2>4
<1>3. Embed!TypeOK'
  BY <1>1, <1>2 DEF EmbedInv, Embed!TypeOK
<1>4. Embed!SlotsAreGivenBack'
  BY <1>1 DEF EmbedInv, Embed!SlotsAreGivenBack, Embed!At
<1>5. ReadersInv'
  BY <1>1, NoCrawlMoves DEF EmbedInv
<1> QED
  BY <1>3, <1>4, <1>5 DEF EmbedInv

LEMMA EmbedInit == ASSUME Embed!Assumptions, Embed!Init PROVE EmbedInv
<1>1. /\ provider \in Providers /\ page = 0 /\ embed = None /\ fresh = FALSE
      /\ links = {} /\ embedSeen = [m \in Messages |-> None] /\ outbound = 0 /\ video = 0 /\ embedUnsure = {}
      /\ embedReq = [r \in Embed!Askers |-> Embed!NoRequest]
  BY DEF Embed!Init
<1>2. Embed!NoRequest \in Embed!Request /\ Embed!NoRequest.at = "new"
  BY EmbedConstants DEF Embed!NoRequest, Embed!Request, Embed!Version
<1>3. \A r \in Embed!Askers : embedReq[r].at = "new"
  BY <1>1, <1>2
<1>4. Embed!TypeOK
  <2>1. fresh \in BOOLEAN
    BY <1>1, Zenon
  <2>2. page \in Embed!Version /\ outbound \in 0 .. OutboundMaxConc /\ video \in 0 .. OutboundMaxConc
    BY <1>1, EmbedConstants DEF Embed!Version
  <2>3. embedReq \in [Embed!Askers -> Embed!Request] /\ embedSeen \in [Messages -> Embed!Version \cup {None}]
    BY <1>1, <1>2
  <2> QED
    BY <1>1, <2>1, <2>2, <2>3 DEF Embed!TypeOK
<1>5. Embed!SlotsAreGivenBack
  <2>1. Busy = {} /\ Streaming = {}
    BY <1>3, EmbedConstants DEF Busy, Streaming
  <2>2. Cardinality(Busy) = 0 /\ Cardinality(Streaming) = 0
    BY <2>1, FS_EmptySet
  <2> QED
    BY <1>1, <2>2, SlotsCount
<1>6. \A r \in Embed!Askers : ~CrawlingNow(r)
  BY <1>3 DEF CrawlingNow, Embed!Crawling
<1>7. ReadersInv
  BY <1>1, <1>6 DEF ReadersInv, CrawlsAreSure, LoneCrawlKnowsTheRow, ReadersAgree
<1> QED
  BY <1>4, <1>5, <1>7 DEF EmbedInv

LEMMA EmbedStep == ASSUME Embed!Assumptions, EmbedInv, Embed!Next PROVE EmbedInv'
<1>1. ASSUME NEW r \in Embed!Askers, Embed!GetOrCreateEmbed(r) PROVE EmbedInv'
  BY <1>1, GetByCacheKeyKeeps, NotFetchedKeeps, AcquireKeeps, SafeFetchKeeps, UpsertKeeps DEF Embed!GetOrCreateEmbed
<1>2. ASSUME NEW m \in Messages,
             \/ Embed!CrawlEmbeds(m) \/ Embed!ListMessageRefsByEmbedID(m)
             \/ Embed!AddMessageEmbeds(m) \/ Embed!MessageEmbedsUpdate(m)
      PROVE  EmbedInv'
  BY <1>2, CrawlEmbedsKeeps, ListRefsKeeps, AddMessageEmbedsKeeps, MessageEmbedsUpdateKeeps
<1>3. ASSUME NEW v \in Viewers, Embed!GetEmbed(v) \/ Embed!OpenEmbedVideo(v) \/ Embed!VideoEnds(v)
      PROVE  EmbedInv'
  BY <1>3, GetEmbedKeeps, OpenEmbedVideoKeeps, VideoEndsKeeps
<1> QED
  BY <1>1, <1>2, <1>3, PageKeeps DEF Embed!Next

LEMMA EmbedIdle == ASSUME EmbedInv, UNCHANGED embedVars PROVE EmbedInv'
<1>1. UNCHANGED <<provider, page, embed, fresh, links, embedSeen, embedReq, outbound, video, embedUnsure>>
  BY DEF embedVars
<1>2. Embed!TypeOK' /\ Embed!SlotsAreGivenBack'
  BY <1>1 DEF EmbedInv, Embed!TypeOK, Embed!SlotsAreGivenBack, Embed!At
<1>3. ReadersInv'
  BY <1>1, NoCrawlMoves DEF EmbedInv
<1> QED
  BY <1>2, <1>3 DEF EmbedInv

LEMMA EmbedProperty == EmbedInv => Embed!SlotsAreGivenBack /\ Embed!ReadersHaveTheRow
BY DEF EmbedInv, ReadersInv, NobodyCrawls, CrawlingNow, ReadersAgree, Embed!ReadersHaveTheRow

EmbedsInv == part = "embeds" => EmbedInv

\* The slots of crawls and of videos are given back along every path of every
\* provider (safeFetch, OpenEmbedVideo), and whoever reads a message has the row
\* it shares with others unless crawls overlapped (CrawlEmbeds), for any
\* messages, viewers and number of slots.
THEOREM PreviewsAreServed == RealtimeSpec => []EmbedsAreServed
<1>1. Embed!Assumptions
  BY RealtimeAssumption
<1>2. RealtimeInit => EmbedsInv
  BY <1>1, EmbedInit DEF RealtimeInit, EmbedsInv
<1>3. EmbedsInv /\ [RealtimeNext]_realtimeVars => EmbedsInv'
  <2> SUFFICES ASSUME EmbedsInv, [RealtimeNext]_realtimeVars, part' = "embeds" PROVE EmbedInv'
    BY DEF EmbedsInv
  <2>1. CASE UNCHANGED realtimeVars
    BY <2>1, EmbedIdle DEF realtimeVars, EmbedsInv
  <2>2. CASE RealtimeNext
    <3>1. CASE part = "embeds" /\ Embed!Next
      BY <1>1, <3>1, EmbedStep DEF EmbedsInv
    <3>2. CASE UNCHANGED <<part, embedVars>>
      BY <3>2, EmbedIdle DEF EmbedsInv
    <3> QED
      BY <2>2, <3>1, <3>2 DEF RealtimeNext
  <2> QED
    BY <2>1, <2>2
<1>4. EmbedsInv => EmbedsAreServed
  BY EmbedProperty DEF EmbedsInv, EmbedInv, EmbedsAreServed
<1> QED
  BY <1>2, <1>3, <1>4, PTL DEF RealtimeSpec
-----------------------------------------------------------------------------
(***************************************************************************)
(* Messages (Messages), for any requests, links, limits and number of      *)
(* requests at a time.  A request walks through its steps and knows where  *)
(* its message came from; and as long as requests for a message come one   *)
(* after the other, the one at work knows what readers have been told.     *)
(***************************************************************************)
Named == {"get", "update", "old", "replace", "tell", "list", "send", "remove", "removed"}
Nameless == {"new", "read", "store", "insert", "reread"}

\* Which message a request is for, and what is known of it at each step.
Walks(r) ==
    /\ messageReq[r].at \in Nameless => messageReq[r].message = None /\ row[r] = None
    /\ messageReq[r].at \in {"link", "publish"} => messageReq[r].message = r
    /\ messageReq[r].at \in Named => messageReq[r].message \in Message!Posts \ {r}
    /\ messageReq[r].at = "customs" => messageReq[r].message \in Message!Posts
    /\ messageReq[r].message # None => row[messageReq[r].message] # None
    /\ row[r] = None => linked[r] = {}
    /\ messageReq[r].at \in {"customs", "link"} => messageReq[r].embeds = "some"
    /\ messageReq[r].at = "replace" => messageReq[r].embeds # "absent"
    /\ crawl[r].at # "idle" => messageReq[r].at = "done" /\ messageReq[r].message # None
    /\ crawl[r].at = "link" => messageReq[r].message = r
    /\ crawl[r].at \in {"before", "replace"} => messageReq[r].message # r

\* A message keeps its sender until it is gone.
From(m, sender) == row[m] = Gone \/ (Message!Live(m) /\ row[m].from = sender)

Origin(r) ==
    /\ messageReq[r].at \in {"customs", "link", "publish"} \cup (Named \ {"get", "remove"}) =>
          From(messageReq[r].message, messageReq[r].from)
    /\ messageReq[r].at = "removed" => row[messageReq[r].message] = Gone
    /\ messageReq[r].at = "done" /\ messageReq[r].from = "webhook" /\ messageReq[r].answer # None =>
          From(messageReq[r].answer, "webhook")

OneKeyed == \A m, n \in Message!WithKey : m = n

AnnouncedByItsOwn ==
    \A r \in Message!Posts :
        /\ announced[r] \in {0, 1}
        /\ announced[r] = 1 => messageReq[r].at = "done" /\ messageReq[r].answer = r

\* What holds of a message that nobody works on.
LinksFit(m) ==
    /\ linked[m] \cap Links \subseteq row[m].content
    /\ IsFiniteSet(linked[m]) /\ Cardinality(linked[m]) <= MaxEmbeds
Settled(m) ==
    /\ Message!Live(m) => LinksFit(m) /\ shown[m] = row[m].content /\ messageSeen[m] = linked[m]
    /\ row[m] = Gone => shown[m] = None /\ messageSeen[m] = {}

\* What holds while the request r alone works on it, ...
Given(r) == IF messageReq[r].embeds = "some" THEN {r} ELSE {}
Written(r, m) == Message!Live(m) /\ row[m].content = messageReq[r].content
Requested(r, m) ==
    /\ messageReq[r].at \in {"get", "update", "remove"} => Settled(m)
    /\ messageReq[r].at \in {"customs", "link", "publish", "old", "replace", "tell", "list", "send"} =>
          Written(r, m)
    /\ m = r /\ messageReq[r].at \in {"customs", "link"} => linked[m] = {}
    /\ messageReq[r].at = "publish" => linked[m] = Given(r)
    /\ m # r /\ messageReq[r].at \in {"customs", "replace", "tell", "list", "send"} =>
          messageReq[r].old = linked[m] \cap Message!Posts
    /\ messageReq[r].at \in {"list", "send"} => shown[m] = messageReq[r].content
    /\ messageReq[r].at = "send" => messageReq[r].held = linked[m]

\* ... or its crawl.
Fits(r, m) ==
    /\ crawl[r].found \subseteq row[m].content
    /\ Cardinality(crawl[r].found) + Cardinality(crawl[r].customs) <= MaxEmbeds
Crawled(r, m) ==
    /\ crawl[r].at # "idle" => Message!Live(m) /\ shown[m] = row[m].content
    /\ crawl[r].at \in {"before", "crawl"} => crawl[r].content = row[m].content
    /\ crawl[r].at \in {"before", "crawl", "replace"} => messageSeen[m] = linked[m]
    /\ crawl[r].at \in {"before", "crawl", "link", "replace"} =>
          crawl[r].customs = linked[m] \cap Message!Posts
    /\ m # r /\ crawl[r].at \in {"crawl", "replace"} => crawl[r].old = linked[m] \cap Links
    /\ m = r /\ crawl[r].at \in {"crawl", "link"} => linked[m] \subseteq {r}
    /\ crawl[r].at \in {"link", "replace"} => Fits(r, m)
    /\ crawl[r].at \in {"list", "send"} => LinksFit(m)
    /\ crawl[r].at = "send" => crawl[r].held = linked[m]

Works(r, m) == messageReq[r].message = m /\ Message!Active(r)
Alone(m) == \A r, q \in Message!Posts : Works(r, m) /\ Works(q, m) => r = q
Kept(m) ==
    /\ Alone(m)
    /\ row[m] # None /\ ~Message!Busy(m) => Settled(m)
    /\ \A r \in Message!Posts : Works(r, m) => Requested(r, m) /\ Crawled(r, m)

MessageInv ==
    /\ Message!TypeOK
    /\ \A r \in Message!Posts : Walks(r) /\ Origin(r)
    /\ OneKeyed /\ AnnouncedByItsOwn
    /\ \A m \in Message!Posts \ messageUnsure : Kept(m)

LEMMA MessageConstants ==
    ASSUME Message!Assumptions
    PROVE  /\ MaxPosts \in Nat /\ MaxEmbeds \in Nat /\ MaxEmbeds >= 1
           /\ None \notin Message!Posts /\ None # Gone /\ Message!Posts \cap Links = {}
           /\ \A stored \in Message!Row : stored \notin {None, Gone}
           /\ \A text \in Contents : text \subseteq Links /\ IsFiniteSet(text)
           /\ {} \in Contents
           /\ IsFiniteSet(Message!Posts)
           /\ \A S : Message!Cardinality(S) = Cardinality(S)
<1>1. \A S : Message!IsFiniteSet(S) <=> IsFiniteSet(S)
  BY DEF Message!IsFiniteSet, IsFiniteSet
<1>2. \A S : Message!Cardinality(S) = Cardinality(S)
  BY DEF Message!Cardinality, Cardinality, Message!IsFiniteSet, IsFiniteSet
<1>3. MaxPosts \in Nat
  BY DEF Message!Assumptions
<1>4. IsFiniteSet(Message!Posts)
  BY <1>3, FS_Interval DEF Message!Posts
<1>5. \A stored \in Message!Row : stored \notin {None, Gone}
  BY DEF Message!Assumptions
<1>6. \A text \in Contents : text \subseteq Links /\ IsFiniteSet(text)
  BY <1>1 DEF Message!Assumptions
<1> QED
  BY <1>2, <1>3, <1>4, <1>5, <1>6 DEF Message!Assumptions

\* What is live has a row.
LEMMA LiveRow ==
    ASSUME Message!Assumptions, Message!TypeOK, NEW m \in Message!Posts
    PROVE  /\ Message!Live(m) <=> row[m] \in Message!Row
           /\ Message!Live(m) => row[m].content \in Contents /\ row[m].from \in {"user", "webhook"}
           /\ ~Message!Live(m) => row[m] \in {None, Gone}
<1>1. row[m] \in Message!Row \cup {None, Gone}
  BY DEF Message!TypeOK
<1>2. row[m] \in Message!Row => row[m].content \in Contents /\ row[m].from \in {"user", "webhook"}
  BY DEF Message!Row
<1> QED
  BY <1>1, <1>2, MessageConstants DEF Message!Live

\* The fields of requests and crawls.
LEMMA RequestFields ==
    ASSUME Message!TypeOK, NEW r \in Message!Posts
    PROVE  /\ messageReq[r] \in Message!Request
           /\ messageReq[r].from \in {"user", "webhook"}
           /\ messageReq[r].message \in Message!Posts \cup {None}
           /\ messageReq[r].content \in Contents
           /\ messageReq[r].embeds \in {"absent", "none", "some"}
           /\ messageReq[r].old \subseteq Message!Embeds /\ messageReq[r].held \subseteq Message!Embeds
           /\ messageReq[r].answer \in Message!Posts \cup {None}
<1>1. messageReq[r] \in Message!Request
  BY DEF Message!TypeOK
<1> QED
  BY <1>1 DEF Message!Request

LEMMA CrawlFields ==
    ASSUME Message!TypeOK, NEW r \in Message!Posts
    PROVE  /\ crawl[r] \in Message!Crawl
           /\ crawl[r].at \in {"idle", "before", "crawl", "link", "replace", "list", "send"}
           /\ crawl[r].content \in Contents
           /\ crawl[r].old \subseteq Message!Embeds /\ crawl[r].customs \subseteq Message!Embeds
           /\ crawl[r].found \subseteq Links /\ crawl[r].held \subseteq Message!Embeds
<1>1. crawl[r] \in Message!Crawl
  BY DEF Message!TypeOK
<1> QED
  BY <1>1 DEF Message!Crawl

\* A request takes a step, or ends with an answer or with an error.
SameRequest(r) ==
    /\ messageReq'[r].from = messageReq[r].from /\ messageReq'[r].message = messageReq[r].message
    /\ messageReq'[r].content = messageReq[r].content /\ messageReq'[r].embeds = messageReq[r].embeds
    /\ messageReq'[r].old = messageReq[r].old /\ messageReq'[r].held = messageReq[r].held
    /\ messageReq'[r].answer = messageReq[r].answer
OtherRequests(r) == \A q \in Message!Posts \ {r} : messageReq'[q] = messageReq[q]

Steps == {"new", "read", "store", "insert", "reread", "customs", "link", "publish", "get", "update", "old",
          "replace", "tell", "list", "send", "remove", "removed", "done"}

LEMMA GoFacts ==
    ASSUME Message!TypeOK, NEW r \in Message!Posts, NEW step \in Steps, Message!Go(r, step)
    PROVE  /\ messageReq' \in [Message!Posts -> Message!Request]
           /\ messageReq'[r].at = step /\ SameRequest(r) /\ OtherRequests(r)
<1>1. messageReq \in [Message!Posts -> Message!Request]
  BY DEF Message!TypeOK
<1>2. messageReq' = [messageReq EXCEPT ![r] = [messageReq[r] EXCEPT !.at = step]]
  BY DEF Message!Go
<1>3. [messageReq[r] EXCEPT !.at = step] \in Message!Request
  BY <1>1 DEF Message!Request, Steps
<1>4. messageReq'[r] = [messageReq[r] EXCEPT !.at = step]
  BY <1>1, <1>2
<1>5. messageReq'[r].at = step /\ SameRequest(r)
  BY <1>1, <1>4 DEF Message!Request, SameRequest
<1> QED
  BY <1>1, <1>2, <1>3, <1>5 DEF OtherRequests

LEMMA AnswerFacts ==
    ASSUME Message!Assumptions, Message!TypeOK, NEW r \in Message!Posts, NEW a \in Message!Posts \cup {None},
           Message!Answer(r, a)
    PROVE  /\ messageReq' \in [Message!Posts -> Message!Request]
           /\ messageReq'[r].at = "done" /\ messageReq'[r].answer = a
           /\ messageReq'[r].from = messageReq[r].from /\ messageReq'[r].message = messageReq[r].message
           /\ OtherRequests(r)
<1>1. messageReq \in [Message!Posts -> Message!Request]
  BY DEF Message!TypeOK
<1>2. messageReq' = [messageReq EXCEPT ![r] = Message!Done(r, a)]
  BY DEF Message!Answer
<1>3. Message!NoRequest \in Message!Request
  BY MessageConstants DEF Message!NoRequest, Message!Request
<1>4. /\ Message!Done(r, a) \in Message!Request
      /\ Message!Done(r, a).at = "done" /\ Message!Done(r, a).answer = a
      /\ Message!Done(r, a).from = messageReq[r].from /\ Message!Done(r, a).message = messageReq[r].message
  BY <1>3, RequestFields DEF Message!Done, Message!Request
<1> QED
  BY <1>1, <1>2, <1>4 DEF OtherRequests

LEMMA FailFacts ==
    ASSUME Message!Assumptions, Message!TypeOK, NEW r \in Message!Posts, Message!Fail(r)
    PROVE  /\ Message!Answer(r, None)
           /\ messageReq[r].message # None => messageReq[r].message \in messageUnsure'
           /\ messageUnsure \subseteq messageUnsure' /\ messageUnsure' \subseteq Message!Posts
<1>1. messageReq[r].message \in Message!Posts \cup {None} /\ messageUnsure \subseteq Message!Posts
  BY RequestFields DEF Message!TypeOK
<1> QED
  BY <1>1 DEF Message!Fail, Message!Answer

LEMMA CrawlEndsFacts ==
    ASSUME Message!Assumptions, Message!TypeOK, NEW r \in Message!Posts, Message!CrawlEnds(r)
    PROVE  /\ crawl' \in [Message!Posts -> Message!Crawl]
           /\ crawl'[r].at = "idle"
           /\ \A q \in Message!Posts \ {r} : crawl'[q] = crawl[q]
<1>1. Message!NoCrawl \in Message!Crawl /\ Message!NoCrawl.at = "idle"
  BY MessageConstants DEF Message!NoCrawl, Message!Crawl
<1> QED
  BY <1>1 DEF Message!CrawlEnds, Message!TypeOK

LEMMA CrawledFacts ==
    ASSUME Message!TypeOK, NEW r \in Message!Posts, Message!Crawled(r, "list")
    PROVE  /\ crawl' \in [Message!Posts -> Message!Crawl]
           /\ crawl'[r].at = "list"
           /\ \A q \in Message!Posts \ {r} : crawl'[q] = crawl[q]
<1>1. crawl \in [Message!Posts -> Message!Crawl]
  BY DEF Message!TypeOK
<1>2. crawl' = [crawl EXCEPT ![r] = [crawl[r] EXCEPT !.at = "list"]]
  BY DEF Message!Crawled
<1>3. [crawl[r] EXCEPT !.at = "list"] \in Message!Crawl
  BY <1>1 DEF Message!Crawl
<1> QED
  BY <1>1, <1>2, <1>3

\* A step of one request or of its crawl leaves the others alone.
Others(r) ==
    \A q \in Message!Posts \ {r} :
        messageReq'[q] = messageReq[q] /\ crawl'[q] = crawl[q] /\ announced'[q] = announced[q]

\* The row of a message is inserted by its own request, changed or taken away.
RowMoves(m) ==
    \/ row'[m] = row[m]
    \/ Message!Live(m) /\ (row'[m] = Gone \/ (Message!Live(m)' /\ row'[m].from = row[m].from))

LEMMA FromStays ==
    ASSUME NEW m \in Message!Posts, NEW sender, RowMoves(m), From(m, sender)
    PROVE  From(m, sender)'
BY DEF RowMoves, From, Message!Live

LEMMA OthersWalk ==
    ASSUME Message!Assumptions, MessageInv, NEW r \in Message!Posts, Others(r),
           \A n \in Message!Posts \ {r} : RowMoves(n) /\ (row'[n] = None => linked'[n] = {}),
           RowMoves(r) \/ (row[r] = None /\ row'[r] # None),
           NEW q \in Message!Posts \ {r}
    PROVE  Walks(q)' /\ Origin(q)'
<1>1. messageReq'[q] = messageReq[q] /\ crawl'[q] = crawl[q]
  BY DEF Others
<1>2. Walks(q) /\ Origin(q) /\ messageReq[q].message \in Message!Posts \cup {None}
      /\ messageReq[q].answer \in Message!Posts \cup {None}
  BY RequestFields DEF MessageInv
<1>3. \A n \in Message!Posts : (row[n] # None => row'[n] # None) /\ (n # r /\ row[n] = None => row'[n] = None)
  BY MessageConstants DEF RowMoves, Message!Live
<1>4. Walks(q)'
  BY <1>1, <1>2, <1>3 DEF Walks
<1>5. \A n \in Message!Posts : \A sender : From(n, sender) => From(n, sender)'
  <2> SUFFICES ASSUME NEW n \in Message!Posts, NEW sender, From(n, sender) PROVE From(n, sender)'
    OBVIOUS
  <2>1. row[n] # None
    BY MessageConstants DEF From, Message!Live
  <2> QED
    BY <2>1, FromStays
<1>6. \A n \in Message!Posts : row[n] = Gone => row'[n] = Gone
  BY MessageConstants, <1>5 DEF RowMoves, Message!Live
<1>7. messageReq[q].at \in {"customs", "link", "publish"} \cup (Named \ {"get", "remove"}) =>
         messageReq[q].message \in Message!Posts
  BY <1>2, MessageConstants DEF Walks, Named
<1>8. messageReq[q].at \in {"customs", "link", "publish"} \cup (Named \ {"get", "remove"}) =>
         From(messageReq[q].message, messageReq[q].from)'
  BY <1>1, <1>2, <1>5, <1>7 DEF Origin, Named, From, Message!Live
<1>9. messageReq[q].at = "removed" => row'[messageReq[q].message] = Gone
  BY <1>2, <1>6, <1>7 DEF Origin, Named
<1>10. messageReq[q].at = "done" /\ messageReq[q].from = "webhook" /\ messageReq[q].answer # None =>
         From(messageReq[q].answer, "webhook")'
  BY <1>1, <1>2, <1>5 DEF Origin, From, Message!Live
<1> QED
  BY <1>1, <1>4, <1>8, <1>9, <1>10 DEF Origin, From, Message!Live

\* What is known of a message that the step is not about stays.
LEMMA KeptElsewhere ==
    ASSUME NEW r \in Message!Posts, NEW n \in Message!Posts, Others(r), Kept(n),
           row'[n] = row[n], linked'[n] = linked[n], shown'[n] = shown[n], messageSeen'[n] = messageSeen[n],
           messageReq[r].message # n, messageReq'[r].message # n
    PROVE  Kept(n)'
<1>1. \A q \in Message!Posts \ {r} : messageReq'[q] = messageReq[q] /\ crawl'[q] = crawl[q]
  BY DEF Others
<1>2. \A q \in Message!Posts : (Works(q, n)' <=> Works(q, n)) /\ (Works(q, n) => q # r)
  BY <1>1 DEF Works, Message!Active
<1>3. Alone(n)'
  BY <1>2 DEF Kept, Alone
<1>4. Message!Busy(n)' <=> Message!Busy(n)
  BY <1>2 DEF Message!Busy, Works
<1>5. Settled(n)' <=> Settled(n)
  BY DEF Settled, LinksFit, Message!Live
<1>6. \A q \in Message!Posts \ {r} : Requested(q, n) => Requested(q, n)'
  BY <1>1, <1>5 DEF Requested, Written, Given, Message!Live
<1>7. \A q \in Message!Posts \ {r} : Crawled(q, n) => Crawled(q, n)'
  BY <1>1 DEF Crawled, Fits, LinksFit, Message!Live
<1> QED
  BY <1>2, <1>3, <1>4, <1>5, <1>6, <1>7 DEF Kept

\* The message the step is about is its alone.
LEMMA KeptHere ==
    ASSUME NEW r \in Message!Posts, NEW m \in Message!Posts, Others(r),
           messageReq'[r].message = m,
           \A q \in Message!Posts \ {r} : ~Works(q, m),
           Message!Active(r)' => Requested(r, m)' /\ Crawled(r, m)',
           ~Message!Active(r)' => Settled(m)'
    PROVE  Kept(m)'
<1>1. \A q \in Message!Posts \ {r} : ~Works(q, m)'
  BY DEF Others, Works, Message!Active
<1>2. Alone(m)'
  BY <1>1 DEF Alone
<1>3. ~Message!Busy(m)' => ~Message!Active(r)'
  BY DEF Message!Busy
<1> QED
  BY <1>1, <1>2, <1>3 DEF Kept, Works

\* A step of a request for a message, or of its crawl.
StepOn(r, m) ==
    /\ Message!TypeOK' /\ Others(r)
    /\ messageReq[r].message \in {None, m} /\ messageReq'[r].message = m
    /\ \A n \in Message!Posts \ {m} :
          row'[n] = row[n] /\ linked'[n] = linked[n] /\ shown'[n] = shown[n] /\ messageSeen'[n] = messageSeen[n]
    /\ row'[m] # None
    /\ RowMoves(m) \/ (m = r /\ row[m] = None /\ (row'[m].from = "webhook" => Message!WithKey = {}))
    /\ Walks(r)' /\ Origin(r)'
    /\ announced'[r] \in {0, 1} /\ (announced'[r] = 1 => messageReq'[r].at = "done" /\ messageReq'[r].answer = r)
    /\ messageUnsure \subseteq messageUnsure'
    /\ m \notin messageUnsure' =>
          /\ \A q \in Message!Posts \ {r} : ~Works(q, m)
          /\ Message!Active(r)' => Requested(r, m)' /\ Crawled(r, m)'
          /\ ~Message!Active(r)' => Settled(m)'

LEMMA StepOnKeeps ==
    ASSUME Message!Assumptions, MessageInv, NEW r \in Message!Posts, NEW m \in Message!Posts, StepOn(r, m)
    PROVE  MessageInv'
<1>1. \A n \in Message!Posts \ {r} : RowMoves(n) /\ (row'[n] = None => linked'[n] = {})
  <2> SUFFICES ASSUME NEW n \in Message!Posts \ {r} PROVE RowMoves(n) /\ (row'[n] = None => linked'[n] = {})
    OBVIOUS
  <2>1. Walks(n)
    BY DEF MessageInv
  <2> QED
    BY <2>1 DEF StepOn, RowMoves, Walks
<1>2. RowMoves(r) \/ (row[r] = None /\ row'[r] # None)
  BY DEF StepOn, RowMoves
<1>3. \A q \in Message!Posts : Walks(q)' /\ Origin(q)'
  BY <1>1, <1>2, OthersWalk DEF StepOn
<1>4. OneKeyed'
  <2>1. OneKeyed
    BY DEF MessageInv
  <2>2. \A n \in Message!Posts : RowMoves(n) /\ n \in Message!WithKey' => n \in Message!WithKey
    BY DEF RowMoves, Message!WithKey, Message!Live
  <2>3. CASE RowMoves(r)
    BY <1>1, <2>1, <2>2, <2>3 DEF OneKeyed, Message!WithKey
  <2>4. CASE ~RowMoves(r) /\ row'[r].from = "webhook"
    <3>1. Message!WithKey = {} /\ \A n \in Message!Posts \ {r} : row'[n] = row[n]
      BY <2>4 DEF StepOn, RowMoves
    <3>2. \A n \in Message!WithKey' : n = r
      BY <3>1 DEF Message!WithKey, Message!Live
    <3> QED
      BY <3>2 DEF OneKeyed
  <2>5. CASE row'[r].from # "webhook"
    <3>1. r \notin Message!WithKey'
      BY <2>5 DEF Message!WithKey
    <3>2. \A n \in Message!WithKey' : n \in Message!WithKey
      BY <3>1, <1>1, <2>2 DEF Message!WithKey
    <3> QED
      BY <3>2, <2>1 DEF OneKeyed
  <2> QED
    BY <2>3, <2>4, <2>5
<1>5. AnnouncedByItsOwn'
  BY DEF MessageInv, AnnouncedByItsOwn, StepOn, Others
<1>6. \A n \in Message!Posts \ messageUnsure' : Kept(n)'
  <2>1. \A n \in (Message!Posts \ {m}) \ messageUnsure' : Kept(n)'
    <3> SUFFICES ASSUME NEW n \in Message!Posts, n # m, n \notin messageUnsure' PROVE Kept(n)'
      OBVIOUS
    <3>1. Kept(n)
      BY DEF MessageInv, StepOn
    <3>2. messageReq[r].message # n /\ messageReq'[r].message # n
      BY MessageConstants DEF StepOn
    <3>3. row'[n] = row[n] /\ linked'[n] = linked[n] /\ shown'[n] = shown[n] /\ messageSeen'[n] = messageSeen[n] /\ Others(r)
      BY DEF StepOn
    <3> QED
      BY <3>1, <3>2, <3>3, KeptElsewhere
  <2>2. m \notin messageUnsure' => Kept(m)'
    BY KeptHere DEF StepOn
  <2> QED
    BY <2>1, <2>2
<1> QED
  BY <1>3, <1>4, <1>5, <1>6 DEF MessageInv, StepOn

Bounded == revoked \in BOOLEAN /\ failures \in 0 .. MaxPosts

\* A step of a request that has no message yet.
LEMMA NamelessKeeps ==
    ASSUME Message!Assumptions, MessageInv, NEW r \in Message!Posts, Bounded',
           messageReq' \in [Message!Posts -> Message!Request], OtherRequests(r), orphans' \subseteq Message!Posts,
           messageReq[r].message = None, messageReq'[r].message = None,
           UNCHANGED <<row, customs, linked, crawl, Message!tellVars, messageUnsure>>,
           Walks(r)', Origin(r)', messageReq[r].at # "done"
    PROVE  MessageInv'
<1>1. Others(r)
  BY DEF Others, OtherRequests, Message!tellVars
<1>2. \A n \in Message!Posts : RowMoves(n)
  BY DEF RowMoves
<1>3. \A q \in Message!Posts : Walks(q)' /\ Origin(q)'
  BY <1>1, <1>2, OthersWalk DEF MessageInv, Walks
<1>4. OneKeyed'
  BY DEF MessageInv, OneKeyed, Message!WithKey, Message!Live
<1>5. AnnouncedByItsOwn'
  BY DEF MessageInv, AnnouncedByItsOwn, OtherRequests, Message!tellVars
<1>6. \A n \in Message!Posts \ messageUnsure' : Kept(n)'
  <2> SUFFICES ASSUME NEW n \in Message!Posts \ messageUnsure' PROVE Kept(n)'
    OBVIOUS
  <2>1. Kept(n)
    BY DEF MessageInv
  <2> QED
    BY <1>1, <2>1, KeptElsewhere, MessageConstants DEF Message!tellVars
<1>7. Message!TypeOK'
  BY DEF MessageInv, Message!TypeOK, Message!tellVars, Bounded
<1> QED
  BY <1>3, <1>4, <1>5, <1>6, <1>7 DEF MessageInv

\* Nothing of what the invariant is about changes.
LEMMA NothingMoves ==
    ASSUME Message!Assumptions, MessageInv, Message!TypeOK',
           UNCHANGED <<row, linked, messageReq, crawl, Message!tellVars, messageUnsure>>
    PROVE  MessageInv'
<1>1. \A q \in Message!Posts : Walks(q)' /\ Origin(q)'
  BY DEF MessageInv, Walks, Origin, From, Message!Live
<1>2. OneKeyed' /\ AnnouncedByItsOwn'
  BY DEF MessageInv, OneKeyed, Message!WithKey, Message!Live, AnnouncedByItsOwn, Message!tellVars
<1>3. \A n \in Message!Posts \ messageUnsure' : Kept(n)'
  <2> SUFFICES ASSUME NEW n \in Message!Posts \ messageUnsure' PROVE Kept(n)'
    OBVIOUS
  <2>1. Kept(n)
    BY DEF MessageInv
  <2>2. PICK r \in Message!Posts : TRUE
    OBVIOUS
  <2>3. \A q \in Message!Posts : messageReq'[q] = messageReq[q] /\ crawl'[q] = crawl[q]
    OBVIOUS
  <2>4. \A q \in Message!Posts : (Works(q, n)' <=> Works(q, n))
        /\ (Requested(q, n)' <=> Requested(q, n)) /\ (Crawled(q, n)' <=> Crawled(q, n))
    BY <2>3 DEF Works, Message!Active, Requested, Written, Given, Settled, LinksFit, Crawled, Fits, Message!Live,
       Message!tellVars
  <2>5. (Settled(n)' <=> Settled(n)) /\ (Message!Busy(n)' <=> Message!Busy(n))
    BY <2>4 DEF Settled, LinksFit, Message!Live, Message!tellVars, Message!Busy, Works
  <2> QED
    BY <2>1, <2>4, <2>5 DEF Kept, Alone
<1> QED
  BY <1>1, <1>2, <1>3 DEF MessageInv

\* What the request at work, or its crawl, knows.
LEMMA AtWork ==
    ASSUME MessageInv, NEW r \in Message!Posts, NEW m \in Message!Posts, messageReq[r].message = m, Message!Active(r),
           m \notin messageUnsure
    PROVE  Requested(r, m) /\ Crawled(r, m) /\ \A q \in Message!Posts \ {r} : ~Works(q, m)
BY DEF MessageInv, Kept, Alone, Works

LEMMA RequestAtWork ==
    ASSUME MessageInv, NEW r \in Message!Posts, messageReq[r].at # "done"
    PROVE  crawl[r].at = "idle"
BY DEF MessageInv, Walks

LEMMA CrawlAtWork ==
    ASSUME Message!Assumptions, MessageInv, NEW r \in Message!Posts, crawl[r].at # "idle"
    PROVE  /\ messageReq[r].at = "done" /\ messageReq[r].message \in Message!Posts
           /\ Message!Active(r) /\ row[messageReq[r].message] # None
<1>1. messageReq[r].message \in Message!Posts \cup {None}
  BY RequestFields DEF MessageInv
<1> QED
  BY <1>1 DEF MessageInv, Walks, Message!Active

\* The parts of a step of a request that goes on, or that ends with nothing
\* left to crawl, and of a step of a crawl.
LEMMA RequestGoesOn ==
    ASSUME NEW r \in Message!Posts, NEW m, messageReq'[r].at \notin {"new", "done"}, crawl'[r].at = "idle"
    PROVE  Message!Active(r)' /\ Crawled(r, m)'
BY DEF Message!Active, Crawled

LEMMA RequestEnds ==
    ASSUME NEW r \in Message!Posts, messageReq'[r].at = "done", crawl'[r].at = "idle"
    PROVE  ~Message!Active(r)'
BY DEF Message!Active

LEMMA CrawlGoesOn ==
    ASSUME NEW r \in Message!Posts, NEW m, messageReq'[r].at = "done", crawl'[r].at # "idle"
    PROVE  Message!Active(r)' /\ Requested(r, m)'
BY DEF Message!Active, Requested

\* Such a request ends with no message, or with the one its webhook posted before.
LEMMA NamelessAnswerKeeps ==
    ASSUME Message!Assumptions, MessageInv, NEW r \in Message!Posts, NEW a \in Message!WithKey \cup {None},
           Message!Answer(r, a), Bounded', messageReq[r].message = None, messageReq[r].at # "done",
           UNCHANGED <<row, customs, linked, crawl, Message!tellVars, messageUnsure>>,
           orphans' \subseteq Message!Posts
    PROVE  MessageInv'
<1>1. a \in Message!Posts \cup {None} /\ (a # None => From(a, "webhook"))
  BY DEF Message!WithKey, From
<1>2. /\ messageReq' \in [Message!Posts -> Message!Request]
      /\ messageReq'[r].at = "done" /\ messageReq'[r].answer = a /\ messageReq'[r].message = None /\ OtherRequests(r)
  BY <1>1, AnswerFacts DEF MessageInv
<1>3. crawl'[r].at = "idle" /\ (row'[r] = None => linked'[r] = {})
  BY RequestAtWork DEF MessageInv, Walks
<1>4. Walks(r)' /\ Origin(r)'
  <2>1. Walks(r)'
    BY <1>2, <1>3 DEF Walks, Nameless, Named
  <2>2. Origin(r)'
    BY <1>1, <1>2 DEF Origin, Named, From, Message!Live
  <2> QED
    BY <2>1, <2>2
<1> QED
  BY <1>2, <1>4, NamelessKeeps

\* Posting.
LEMMA GetWebhookMessageKeeps ==
    ASSUME Message!Assumptions, MessageInv, NEW r \in Message!Posts, Message!GetWebhookMessage(r), Bounded'
    PROVE  MessageInv'
<1>0. Message!TypeOK /\ Walks(r) /\ messageReq[r].at = "read" /\ messageReq[r].message = None /\ row[r] = None
  BY DEF MessageInv, Walks, Nameless, Message!GetWebhookMessage, Message!At
<1>1. UNCHANGED <<row, orphans, customs, linked, crawl, Message!tellVars, messageUnsure>>
      /\ orphans \subseteq Message!Posts
  BY <1>0 DEF Message!GetWebhookMessage, Message!rowVars, Message!TypeOK
<1>2. CASE Message!Go(r, "store")
  <2>1. /\ messageReq' \in [Message!Posts -> Message!Request]
        /\ messageReq'[r].at = "store" /\ SameRequest(r) /\ OtherRequests(r)
    BY <1>0, <1>2, GoFacts DEF Steps
  <2>2. Walks(r)' /\ Origin(r)'
    BY <1>0, <1>1, <2>1, RequestAtWork DEF Walks, Origin, Nameless, Named, SameRequest
  <2> QED
    BY <1>0, <1>1, <2>1, <2>2, NamelessKeeps DEF SameRequest
<1>3. CASE \E m \in Message!WithKey : Message!Answer(r, m)
  <2>0. PICK m \in Message!WithKey : Message!Answer(r, m)
    BY <1>3
  <2> QED
    BY <1>0, <1>1, <2>0, NamelessAnswerKeeps DEF Message!WithKey
<1> QED
  BY <1>2, <1>3 DEF Message!GetWebhookMessage

LEMMA StoreAttachmentKeeps ==
    ASSUME Message!Assumptions, MessageInv, NEW r \in Message!Posts, Message!StoreAttachment(r), Bounded'
    PROVE  MessageInv'
<1>0. Message!TypeOK /\ Walks(r) /\ messageReq[r].at = "store" /\ messageReq[r].message = None /\ row[r] = None
  BY DEF MessageInv, Walks, Nameless, Message!StoreAttachment, Message!At
<1>1. UNCHANGED <<row, customs, linked, crawl, Message!tellVars>> /\ orphans' \subseteq Message!Posts
  BY <1>0 DEF Message!StoreAttachment, Message!TypeOK
<1>2. CASE Message!Go(r, "insert") /\ messageUnsure' = messageUnsure
  <2>1. /\ messageReq' \in [Message!Posts -> Message!Request]
        /\ messageReq'[r].at = "insert" /\ SameRequest(r) /\ OtherRequests(r)
    BY <1>0, <1>2, GoFacts DEF Steps
  <2>2. Walks(r)' /\ Origin(r)'
    BY <1>0, <1>1, <2>1, RequestAtWork DEF Walks, Origin, Nameless, Named, SameRequest
  <2> QED
    BY <1>0, <1>1, <1>2, <2>1, <2>2, NamelessKeeps DEF SameRequest
<1>3. CASE Message!Fail(r)
  <2>1. Message!Answer(r, None) /\ messageUnsure' = messageUnsure
    BY <1>0, <1>3, FailFacts DEF Message!Fail
  <2> QED
    BY <1>0, <1>1, <2>1, NamelessAnswerKeeps
<1> QED
  BY <1>2, <1>3 DEF Message!StoreAttachment

LEMMA RereadWebhookMessageKeeps ==
    ASSUME Message!Assumptions, MessageInv, NEW r \in Message!Posts, Message!RereadWebhookMessage(r), Bounded'
    PROVE  MessageInv'
<1>0. Message!TypeOK /\ Walks(r) /\ messageReq[r].at = "reread" /\ messageReq[r].message = None /\ row[r] = None
  BY DEF MessageInv, Walks, Nameless, Message!RereadWebhookMessage, Message!At
<1>1. UNCHANGED <<row, orphans, customs, linked, crawl, Message!tellVars, messageUnsure>>
      /\ orphans \subseteq Message!Posts
  BY <1>0 DEF Message!RereadWebhookMessage, Message!rowVars, Message!TypeOK
<1>2. PICK a \in Message!WithKey \cup {None} : Message!Answer(r, a)
  BY DEF Message!RereadWebhookMessage
<1> QED
  BY <1>0, <1>1, <1>2, NamelessAnswerKeeps DEF Message!WithKey

\* Only the request itself moves.
LEMMA OnlyRequestMoves ==
    ASSUME Message!Assumptions, MessageInv, NEW r \in Message!Posts, NEW m \in Message!Posts,
           messageReq[r].message = m, messageReq[r].at \notin {"new", "done"},
           messageReq' \in [Message!Posts -> Message!Request], OtherRequests(r), messageReq'[r].message = m,
           messageReq'[r].at # "new",
           UNCHANGED <<row, orphans, linked, crawl, Message!tellVars>>, customs' \subseteq Message!Posts, Bounded',
           messageUnsure \subseteq messageUnsure', messageUnsure' \subseteq Message!Posts,
           Walks(r)', Origin(r)',
           m \notin messageUnsure' =>
               IF messageReq'[r].at = "done" THEN Settled(m)' ELSE Requested(r, m)'
    PROVE  MessageInv'
<1>1. crawl'[r].at = "idle" /\ Others(r)
  BY RequestAtWork DEF Others, OtherRequests, Message!tellVars
<1>2. m \notin messageUnsure' => \A q \in Message!Posts \ {r} : ~Works(q, m)
  BY AtWork DEF Message!Active
<1>3. m \notin messageUnsure' =>
          /\ Message!Active(r)' => Requested(r, m)' /\ Crawled(r, m)'
          /\ ~Message!Active(r)' => Settled(m)'
  BY <1>1, RequestGoesOn, RequestEnds
<1>4. Message!TypeOK'
  BY DEF MessageInv, Message!TypeOK, Message!tellVars, Bounded
<1>5. announced'[r] \in {0, 1} /\ announced'[r] # 1
  BY DEF MessageInv, AnnouncedByItsOwn, Message!tellVars
<1>6. row'[m] # None /\ RowMoves(m)
  BY MessageConstants DEF MessageInv, Walks, RowMoves
<1>7. \A n \in Message!Posts \ {m} :
          row'[n] = row[n] /\ linked'[n] = linked[n] /\ shown'[n] = shown[n] /\ messageSeen'[n] = messageSeen[n]
  BY DEF Message!tellVars
<1> QED
  BY <1>1, <1>2, <1>3, <1>4, <1>5, <1>6, <1>7, StepOnKeeps DEF StepOn

\* It ends without an answer.
LEMMA NoAnswerKeeps ==
    ASSUME Message!Assumptions, MessageInv, NEW r \in Message!Posts, messageReq[r].message \in Message!Posts,
           messageReq[r].at \notin {"new", "done"}, Message!Answer(r, None),
           UNCHANGED <<row, orphans, customs, linked, crawl, Message!tellVars>>, Bounded',
           messageUnsure \subseteq messageUnsure', messageUnsure' \subseteq Message!Posts,
           messageReq[r].message \notin messageUnsure' => Settled(messageReq[r].message)
    PROVE  MessageInv'
<1> PICK m \in Message!Posts : messageReq[r].message = m
  OBVIOUS
<1>0. Message!TypeOK /\ Walks(r) /\ customs \subseteq Message!Posts
  BY DEF MessageInv, Message!TypeOK
<1>1. /\ messageReq' \in [Message!Posts -> Message!Request]
      /\ messageReq'[r].at = "done" /\ messageReq'[r].answer = None /\ messageReq'[r].message = m /\ OtherRequests(r)
  BY <1>0, AnswerFacts
<1>2. crawl'[r].at = "idle"
  BY RequestAtWork
<1>3. Walks(r)' /\ Origin(r)'
  BY <1>0, <1>1, <1>2 DEF Walks, Origin, Nameless, Named
<1>4. m \notin messageUnsure' => Settled(m)'
  BY <1>1 DEF Settled, LinksFit, Message!Live, Message!tellVars
<1> QED
  BY <1>0, <1>1, <1>3, <1>4, OnlyRequestMoves

LEMMA FailKeeps ==
    ASSUME Message!Assumptions, MessageInv, NEW r \in Message!Posts, Message!Fail(r),
           messageReq[r].at \notin {"new", "done"},
           UNCHANGED <<row, orphans, customs, linked, crawl, Message!tellVars>>, Bounded'
    PROVE  MessageInv'
<1>0. Message!TypeOK /\ messageReq[r].message \in Message!Posts \cup {None} /\ orphans \subseteq Message!Posts
  BY RequestFields DEF MessageInv, Message!TypeOK
<1>1. /\ Message!Answer(r, None)
      /\ messageReq[r].message # None => messageReq[r].message \in messageUnsure'
      /\ messageUnsure \subseteq messageUnsure' /\ messageUnsure' \subseteq Message!Posts
  BY <1>0, FailFacts
<1>2. CASE messageReq[r].message # None
  BY <1>0, <1>1, <1>2, NoAnswerKeeps
<1>3. CASE messageReq[r].message = None
  <2>1. messageUnsure' = messageUnsure
    BY <1>3 DEF Message!Fail
  <2> QED
    BY <1>0, <1>1, <1>3, <2>1, NamelessAnswerKeeps
<1> QED
  BY <1>2, <1>3

\* The row of a message is inserted.
LEMMA InsertKeeps ==
    ASSUME Message!Assumptions, MessageInv, NEW r \in Message!Posts, Message!Insert(r), messageReq[r].at = "insert",
           messageReq[r].from = "webhook" => Message!WithKey = {},
           UNCHANGED <<customs, linked, crawl, Message!tellVars, messageUnsure>>, Bounded'
    PROVE  MessageInv'
<1>0. Message!TypeOK /\ Walks(r) /\ messageReq[r].message = None /\ row[r] = None /\ linked[r] = {}
  BY DEF MessageInv, Walks, Nameless
<1>1. messageReq[r].content \in Contents /\ messageReq[r].from \in {"user", "webhook"}
      /\ messageReq[r].embeds \in {"absent", "none", "some"}
  BY <1>0, RequestFields
<1> DEFINE stored == [from |-> messageReq[r].from, content |-> messageReq[r].content]
           next == IF messageReq[r].embeds = "some" THEN "customs" ELSE "publish"
<1>2. stored \in Message!Row /\ stored.from = messageReq[r].from /\ stored.content = messageReq[r].content
      /\ stored \notin {None, Gone}
  BY <1>1, MessageConstants DEF Message!Row
<1>3. row' = [row EXCEPT ![r] = stored] /\ row \in [Message!Posts -> Message!Row \cup {None, Gone}]
  BY <1>0 DEF Message!Insert, Message!TypeOK
<1> HIDE DEF stored
<1>4. row' \in [Message!Posts -> Message!Row \cup {None, Gone}] /\ row'[r] = stored
      /\ \A n \in Message!Posts \ {r} : row'[n] = row[n]
  BY <1>2, <1>3
<1>5. messageReq \in [Message!Posts -> Message!Request]
      /\ messageReq' = [messageReq EXCEPT ![r] = [messageReq[r] EXCEPT !.message = r, !.at = next]]
  <2>1. messageReq' = [messageReq EXCEPT ![r].message = r, ![r].at = next]
    BY DEF Message!Insert
  <2>2. messageReq \in [Message!Posts -> Message!Request]
    BY <1>0 DEF Message!TypeOK
  <2> HIDE DEF next
  <2>3. [messageReq EXCEPT ![r].message = r, ![r].at = next] = [messageReq EXCEPT ![r] = [messageReq[r] EXCEPT !.message = r, !.at = next]]
    BY <2>2
  <2> QED
    BY <2>1, <2>2, <2>3
<1> DEFINE moved == [messageReq[r] EXCEPT !.message = r, !.at = next]
<1>6. /\ moved \in Message!Request /\ moved.at = next /\ moved.message = r /\ moved.from = messageReq[r].from
      /\ moved.content = messageReq[r].content /\ moved.embeds = messageReq[r].embeds
  BY <1>5 DEF Message!Request
<1> HIDE DEF moved
<1>7. messageReq' = [messageReq EXCEPT ![r] = moved]
  BY <1>5 DEF moved
<1>8. /\ messageReq' \in [Message!Posts -> Message!Request] /\ OtherRequests(r)
      /\ messageReq'[r].at = next /\ messageReq'[r].message = r /\ messageReq'[r].from = messageReq[r].from
      /\ messageReq'[r].content = messageReq[r].content /\ messageReq'[r].embeds = messageReq[r].embeds
  BY <1>5, <1>6, <1>7 DEF OtherRequests
<1>9. Message!TypeOK'
  <2>1. orphans' \subseteq Message!Posts
    BY <1>0 DEF Message!Insert, Message!TypeOK
  <2> QED
    BY <1>0, <1>4, <1>8, <2>1 DEF Message!TypeOK, Message!tellVars, Bounded
<1>10. crawl'[r].at = "idle" /\ Others(r)
  BY <1>8, RequestAtWork DEF Others, OtherRequests, Message!tellVars
<1>11. Message!Live(r)' /\ row'[r].from = messageReq[r].from /\ row'[r].content = messageReq[r].content
  BY <1>2, <1>4 DEF Message!Live
<1>12. Walks(r)' /\ Origin(r)'
  <2>1. Walks(r)'
    BY <1>8, <1>10, <1>11, <1>4, <1>2, MessageConstants DEF Walks, Nameless, Named
  <2>2. Origin(r)'
    BY <1>8, <1>11 DEF Origin, From, Message!Live, Named
  <2> QED
    BY <2>1, <2>2
<1>13. \A q \in Message!Posts \ {r} : ~Works(q, r)
  BY <1>0, MessageConstants DEF MessageInv, Walks, Works
<1>14. Message!Active(r)' /\ Crawled(r, r)'
  BY <1>8, <1>10, RequestGoesOn
<1>15. Requested(r, r)'
  BY <1>0, <1>8, <1>11 DEF Requested, Written, Given, Message!Live
<1>16. announced'[r] \in {0, 1} /\ announced'[r] # 1
  BY DEF MessageInv, AnnouncedByItsOwn, Message!tellVars
<1>17. row'[r] # None /\ \A n \in Message!Posts \ {r} :
          row'[n] = row[n] /\ linked'[n] = linked[n] /\ shown'[n] = shown[n] /\ messageSeen'[n] = messageSeen[n]
  BY <1>4, <1>2 DEF Message!tellVars
<1> HIDE DEF next
<1> QED
  BY <1>0, <1>8, <1>9, <1>10, <1>11, <1>12, <1>13, <1>14, <1>15, <1>16, <1>17, StepOnKeeps DEF StepOn

LEMMA CreateMessageAsKeeps ==
    ASSUME Message!Assumptions, MessageInv, NEW r \in Message!Posts, Message!CreateMessageAs(r), Bounded'
    PROVE  MessageInv'
<1>0. Message!TypeOK /\ Walks(r) /\ messageReq[r].at = "insert" /\ messageReq[r].message = None /\ row[r] = None
  BY DEF MessageInv, Walks, Nameless, Message!CreateMessageAs, Message!At
<1>1. CASE messageReq[r].from = "webhook" /\ Message!WithKey # {}
  <2>1. Message!Go(r, "reread") /\ UNCHANGED <<row, orphans, customs, linked, crawl, Message!tellVars, messageUnsure>>
        /\ orphans \subseteq Message!Posts
    BY <1>0, <1>1 DEF Message!CreateMessageAs, Message!TypeOK
  <2>2. /\ messageReq' \in [Message!Posts -> Message!Request]
        /\ messageReq'[r].at = "reread" /\ SameRequest(r) /\ OtherRequests(r)
    BY <1>0, <2>1, GoFacts DEF Steps
  <2>3. Walks(r)' /\ Origin(r)'
    BY <1>0, <2>1, <2>2, RequestAtWork DEF Walks, Origin, Nameless, Named, SameRequest
  <2> QED
    BY <1>0, <2>1, <2>2, <2>3, NamelessKeeps DEF SameRequest
<1>2. CASE ~(messageReq[r].from = "webhook" /\ Message!WithKey # {})
  BY <1>0, <1>2, InsertKeeps DEF Message!CreateMessageAs
<1> QED
  BY <1>1, <1>2

LEMMA CreateCustomEmbedsKeeps ==
    ASSUME Message!Assumptions, MessageInv, NEW r \in Message!Posts, Message!CreateCustomEmbeds(r), Bounded'
    PROVE  MessageInv'
<1> DEFINE m == messageReq[r].message
           next == IF messageReq[r].message = r THEN "link" ELSE "replace"
<1>0. Message!TypeOK /\ Walks(r) /\ Origin(r) /\ messageReq[r].at = "customs"
  BY DEF MessageInv, Message!CreateCustomEmbeds, Message!At
<1>1. m \in Message!Posts /\ messageReq[r].embeds = "some" /\ next \in Steps /\ messageUnsure \subseteq Message!Posts
  BY <1>0 DEF Walks, Steps, Message!TypeOK
<1>2. UNCHANGED <<row, orphans, linked, crawl, Message!tellVars, messageUnsure>> /\ customs' \subseteq Message!Posts
      /\ Message!Go(r, next)
  BY <1>0 DEF Message!CreateCustomEmbeds, Message!TypeOK
<1> HIDE DEF next
<1>3. messageReq' \in [Message!Posts -> Message!Request] /\ messageReq'[r].at = next /\ SameRequest(r) /\ OtherRequests(r)
  BY <1>0, <1>1, <1>2, GoFacts
<1>4. Walks(r)' /\ Origin(r)'
  BY <1>0, <1>1, <1>2, <1>3, RequestAtWork DEF Walks, Origin, Nameless, Named, SameRequest, next, From, Message!Live
<1>5. m \notin messageUnsure => Requested(r, m)
  BY <1>0, <1>1, AtWork DEF Message!Active
<1>6. m \notin messageUnsure => Requested(r, m)'
  BY <1>0, <1>2, <1>3, <1>5 DEF Requested, Written, Given, Message!Live, SameRequest, next, Message!tellVars
<1> QED
  BY <1>0, <1>1, <1>2, <1>3, <1>4, <1>6, OnlyRequestMoves DEF SameRequest, next

LEMMA LinkCustomEmbedKeeps ==
    ASSUME Message!Assumptions, MessageInv, NEW r \in Message!Posts, Message!AddMessageEmbeds(r), Bounded'
    PROVE  MessageInv'
<1>0. Message!TypeOK /\ Walks(r) /\ Origin(r) /\ messageReq[r].at = "link" /\ messageReq[r].message = r
      /\ messageReq[r].embeds = "some" /\ row[r] # None
  BY MessageConstants DEF MessageInv, Walks, Message!AddMessageEmbeds, Message!At
<1>1. UNCHANGED <<row, orphans, customs, crawl, Message!tellVars>>
  BY DEF Message!AddMessageEmbeds
<1>2. CASE Message!Live(r)
  <2>1. linked' = [linked EXCEPT ![r] = @ \cup {r}] /\ Message!Go(r, "publish") /\ messageUnsure' = messageUnsure
    BY <1>2 DEF Message!AddMessageEmbeds
  <2>2. /\ messageReq' \in [Message!Posts -> Message!Request]
        /\ messageReq'[r].at = "publish" /\ SameRequest(r) /\ OtherRequests(r)
    BY <1>0, <2>1, GoFacts DEF Steps
  <2>3. /\ linked' \in [Message!Posts -> SUBSET Message!Embeds] /\ linked'[r] = linked[r] \cup {r}
        /\ \A n \in Message!Posts \ {r} : linked'[n] = linked[n]
    BY <1>0, <2>1 DEF Message!TypeOK, Message!Embeds
  <2>4. Message!TypeOK'
    BY <1>0, <1>1, <2>1, <2>2, <2>3 DEF Message!TypeOK, Message!tellVars, Bounded
  <2>5. crawl'[r].at = "idle" /\ Others(r)
    BY <1>0, <1>1, <2>2, RequestAtWork DEF Others, OtherRequests, Message!tellVars
  <2>6. Walks(r)' /\ Origin(r)'
    BY <1>0, <1>1, <2>2, <2>5 DEF Walks, Origin, Nameless, Named, SameRequest, From, Message!Live
  <2>7. r \notin messageUnsure' =>
          (\A q \in Message!Posts \ {r} : ~Works(q, r)) /\ Message!Active(r)' /\ Requested(r, r)' /\ Crawled(r, r)'
    <3> SUFFICES ASSUME r \notin messageUnsure'
                 PROVE  /\ (\A q \in Message!Posts \ {r} : ~Works(q, r))
                        /\ Message!Active(r)' /\ Requested(r, r)' /\ Crawled(r, r)'
      OBVIOUS
    <3>1. Requested(r, r) /\ \A q \in Message!Posts \ {r} : ~Works(q, r)
      BY <1>0, <2>1, AtWork DEF Message!Active
    <3>2. Requested(r, r)'
      BY <1>0, <1>1, <1>2, <2>2, <2>3, <3>1 DEF Requested, Written, Given, SameRequest, Message!Live
    <3> QED
      BY <2>2, <2>5, <3>1, <3>2, RequestGoesOn
  <2>8. announced'[r] \in {0, 1} /\ announced'[r] # 1
    BY <1>0, <1>1 DEF MessageInv, AnnouncedByItsOwn, Message!tellVars
  <2> QED
    BY <1>0, <1>1, <2>1, <2>2, <2>3, <2>4, <2>5, <2>6, <2>7, <2>8, StepOnKeeps DEF StepOn, RowMoves, SameRequest, Message!tellVars
<1>3. CASE ~Message!Live(r)
  <2>1. Message!Fail(r) /\ UNCHANGED linked
    BY <1>3 DEF Message!AddMessageEmbeds
  <2> QED
    BY <1>0, <1>1, <2>1, FailKeeps
<1> QED
  BY <1>2, <1>3

LEMMA PublishCreatedMessageKeeps ==
    ASSUME Message!Assumptions, MessageInv, NEW r \in Message!Posts, Message!PublishCreatedMessage(r), Bounded'
    PROVE  MessageInv'
<1> DEFINE own == IF messageReq[r].embeds = "some" THEN {r} ELSE {}
           begun == [Message!NoCrawl EXCEPT !.at = "crawl", !.customs = own, !.content = messageReq[r].content]
<1>0. Message!TypeOK /\ Walks(r) /\ Origin(r) /\ messageReq[r].at = "publish" /\ messageReq[r].message = r /\ row[r] # None
  BY MessageConstants DEF MessageInv, Walks, Message!PublishCreatedMessage, Message!At
<1>1. UNCHANGED <<row, orphans, customs, linked, messageUnsure>>
  BY DEF Message!PublishCreatedMessage, Message!rowVars
<1>2. /\ Message!Answer(r, r)
      /\ announced' = [announced EXCEPT ![r] = @ + 1]
      /\ shown' = [shown EXCEPT ![r] = messageReq[r].content]
      /\ messageSeen' = [messageSeen EXCEPT ![r] = own]
      /\ crawl' = [crawl EXCEPT ![r] = begun]
  BY DEF Message!PublishCreatedMessage
<1>3. /\ messageReq' \in [Message!Posts -> Message!Request]
      /\ messageReq'[r].at = "done" /\ messageReq'[r].answer = r /\ messageReq'[r].message = r
      /\ messageReq'[r].from = messageReq[r].from /\ OtherRequests(r)
  BY <1>0, <1>2, AnswerFacts
<1>4. messageReq[r].content \in Contents /\ own \subseteq Message!Posts /\ own \subseteq Message!Embeds
  BY <1>0, RequestFields DEF Message!Embeds
<1> HIDE DEF own
<1>5. Message!NoCrawl \in Message!Crawl
  BY MessageConstants DEF Message!NoCrawl, Message!Crawl
<1>6. begun \in Message!Crawl /\ begun.at = "crawl" /\ begun.customs = own /\ begun.content = messageReq[r].content
  BY <1>4, <1>5 DEF Message!Crawl
<1> HIDE DEF begun
<1>7. /\ crawl' \in [Message!Posts -> Message!Crawl] /\ crawl'[r] = begun
      /\ \A q \in Message!Posts \ {r} : crawl'[q] = crawl[q]
  BY <1>0, <1>2, <1>6 DEF Message!TypeOK
<1>8. announced[r] = 0
  BY <1>0 DEF MessageInv, AnnouncedByItsOwn
<1>9. /\ announced' \in [Message!Posts -> 0 .. 2] /\ announced'[r] = 1
      /\ \A q \in Message!Posts \ {r} : announced'[q] = announced[q]
  BY <1>0, <1>2, <1>8 DEF Message!TypeOK
<1>10. /\ shown' \in [Message!Posts -> Contents \cup {None}] /\ shown'[r] = messageReq[r].content
       /\ messageSeen' \in [Message!Posts -> SUBSET Message!Embeds] /\ messageSeen'[r] = own
       /\ \A q \in Message!Posts \ {r} : shown'[q] = shown[q] /\ messageSeen'[q] = messageSeen[q]
  BY <1>0, <1>2, <1>4 DEF Message!TypeOK
<1>11. Message!TypeOK'
  BY <1>0, <1>1, <1>3, <1>7, <1>9, <1>10 DEF Message!TypeOK, Bounded
<1>12. Others(r)
  BY <1>3, <1>7, <1>9 DEF Others, OtherRequests
<1>13. Walks(r)' /\ Origin(r)'
  <2>1. Walks(r)'
    BY <1>0, <1>1, <1>3, <1>6, <1>7, MessageConstants DEF Walks, Nameless, Named
  <2>2. From(r, messageReq[r].from)
    BY <1>0 DEF Origin, Named
  <2>3. Origin(r)'
    BY <1>1, <1>3, <2>2 DEF Origin, Named, From, Message!Live
  <2> QED
    BY <2>1, <2>3
<1>14. r \notin messageUnsure' =>
          (\A q \in Message!Posts \ {r} : ~Works(q, r)) /\ Message!Active(r)' /\ Requested(r, r)' /\ Crawled(r, r)'
  <2> SUFFICES ASSUME r \notin messageUnsure'
               PROVE  /\ (\A q \in Message!Posts \ {r} : ~Works(q, r))
                      /\ Message!Active(r)' /\ Requested(r, r)' /\ Crawled(r, r)'
    OBVIOUS
  <2>1. Requested(r, r) /\ \A q \in Message!Posts \ {r} : ~Works(q, r)
    BY <1>0, <1>1, AtWork DEF Message!Active
  <2>2. Message!Live(r) /\ row[r].content = messageReq[r].content /\ linked[r] = own
    BY <1>0, <2>1 DEF Requested, Written, Given, own
  <2>3. Crawled(r, r)'
    BY <1>1, <1>4, <1>6, <1>7, <1>10, <2>2 DEF Crawled, Message!Live, own
  <2> QED
    BY <1>3, <1>6, <1>7, <2>1, <2>3, CrawlGoesOn
<1> QED
  BY <1>0, <1>1, <1>3, <1>9, <1>10, <1>11, <1>12, <1>13, <1>14, StepOnKeeps DEF StepOn, RowMoves

LEMMA CreateStepKeeps ==
    ASSUME Message!Assumptions, MessageInv, NEW r \in Message!Posts, Message!CreateStep(r), Bounded'
    PROVE  MessageInv'
BY GetWebhookMessageKeeps, StoreAttachmentKeeps, CreateMessageAsKeeps, RereadWebhookMessageKeeps,
   CreateCustomEmbedsKeeps, LinkCustomEmbedKeeps, PublishCreatedMessageKeeps DEF Message!CreateStep

\* Editing and deleting.
LEMMA GetMessageByIDKeeps ==
    ASSUME Message!Assumptions, MessageInv, NEW r \in Message!Posts, Message!GetMessageByID(r), Bounded'
    PROVE  MessageInv'
<1>0. Message!TypeOK /\ Walks(r) /\ messageReq[r].at = "get" /\ messageReq[r].message \in Message!Posts
      /\ customs \subseteq Message!Posts /\ messageUnsure \subseteq Message!Posts
  BY DEF MessageInv, Walks, Named, Message!TypeOK, Message!GetMessageByID, Message!At
<1> PICK m \in Message!Posts : messageReq[r].message = m
  BY <1>0
<1>1. UNCHANGED <<row, orphans, customs, linked, crawl, Message!tellVars, messageUnsure>>
  BY DEF Message!GetMessageByID, Message!rowVars
<1>2. m \notin messageUnsure => Settled(m)
  BY <1>0, AtWork DEF Requested, Message!Active
<1>3. CASE Message!Live(m) /\ row[m].from = messageReq[r].from
  <2>1. Message!Go(r, "update")
    BY <1>3 DEF Message!GetMessageByID
  <2>2. /\ messageReq' \in [Message!Posts -> Message!Request]
        /\ messageReq'[r].at = "update" /\ SameRequest(r) /\ OtherRequests(r)
    BY <1>0, <2>1, GoFacts DEF Steps
  <2>3. Walks(r)' /\ Origin(r)'
    BY <1>0, <1>1, <1>3, <2>2, RequestAtWork DEF Walks, Origin, Nameless, Named, SameRequest, From, Message!Live
  <2>4. m \notin messageUnsure' => Requested(r, m)'
    BY <1>1, <1>2, <2>2 DEF Requested, Settled, LinksFit, Message!Live, Message!tellVars
  <2> QED
    BY <1>0, <1>1, <2>2, <2>3, <2>4, OnlyRequestMoves DEF SameRequest
<1>4. CASE ~(Message!Live(m) /\ row[m].from = messageReq[r].from)
  BY <1>0, <1>1, <1>2, <1>4, NoAnswerKeeps DEF Message!GetMessageByID
<1> QED
  BY <1>3, <1>4

LEMMA UpdateMessageKeeps ==
    ASSUME Message!Assumptions, MessageInv, NEW r \in Message!Posts, Message!UpdateMessage(r), Bounded'
    PROVE  MessageInv'
<1>0. Message!TypeOK /\ Walks(r) /\ Origin(r) /\ messageReq[r].at = "update"
      /\ messageReq[r].message \in Message!Posts \ {r} /\ messageUnsure \subseteq Message!Posts
  BY DEF MessageInv, Walks, Named, Message!TypeOK, Message!UpdateMessage, Message!At
<1> PICK m \in Message!Posts : messageReq[r].message = m /\ m # r
  BY <1>0
<1>1. UNCHANGED <<orphans, customs, linked, crawl, Message!tellVars, messageUnsure>>
  BY DEF Message!UpdateMessage
<1>2. m \notin messageUnsure => Settled(m) /\ \A q \in Message!Posts \ {r} : ~Works(q, m)
  BY <1>0, AtWork DEF Requested, Message!Active
<1>3. CASE Message!Live(m)
  <2> DEFINE edited == [row[m] EXCEPT !.content = messageReq[r].content]
  <2>1. row' = [row EXCEPT ![m] = edited] /\ Message!Go(r, "old")
    BY <1>3 DEF Message!UpdateMessage
  <2>2. row[m] \in Message!Row /\ messageReq[r].content \in Contents
    BY <1>0, <1>3, LiveRow, RequestFields
  <2>3. edited \in Message!Row /\ edited.from = row[m].from /\ edited.content = messageReq[r].content
        /\ edited \notin {None, Gone}
    BY <2>2, MessageConstants DEF Message!Row
  <2> HIDE DEF edited
  <2>4. row' \in [Message!Posts -> Message!Row \cup {None, Gone}] /\ row'[m] = edited
        /\ \A n \in Message!Posts \ {m} : row'[n] = row[n]
    BY <1>0, <2>1, <2>3 DEF Message!TypeOK
  <2>5. /\ messageReq' \in [Message!Posts -> Message!Request]
        /\ messageReq'[r].at = "old" /\ SameRequest(r) /\ OtherRequests(r)
    BY <1>0, <2>1, GoFacts DEF Steps
  <2>6. Message!TypeOK'
    BY <1>0, <1>1, <2>4, <2>5 DEF Message!TypeOK, Message!tellVars, Bounded
  <2>7. crawl'[r].at = "idle" /\ Others(r)
    BY <1>0, <1>1, <2>5, RequestAtWork DEF Others, OtherRequests, Message!tellVars
  <2>8. Message!Live(m)' /\ row'[m].from = row[m].from /\ row'[m].content = messageReq[r].content /\ row'[m] # None
    BY <2>3, <2>4 DEF Message!Live
  <2>9. Walks(r)' /\ Origin(r)'
    <3>1. Walks(r)'
      BY <1>0, <1>1, <2>4, <2>5, <2>7, <2>8 DEF Walks, Nameless, Named, SameRequest
    <3>2. row[m].from = messageReq[r].from
      BY <1>0, <1>3 DEF Origin, Named, From, Message!Live
    <3>3. Origin(r)'
      BY <2>5, <2>8, <3>2 DEF Origin, Named, SameRequest, From, Message!Live
    <3> QED
      BY <3>1, <3>3
  <2>10. Message!Active(r)' /\ Crawled(r, m)'
    BY <2>5, <2>7, RequestGoesOn
  <2>11. Requested(r, m)'
    BY <2>5, <2>8 DEF Requested, Written, SameRequest, Message!Live
  <2>12. announced'[r] \in {0, 1} /\ announced'[r] # 1
    BY <1>0, <1>1 DEF MessageInv, AnnouncedByItsOwn, Message!tellVars
  <2>13. RowMoves(m)
    BY <1>3, <2>8 DEF RowMoves
  <2> QED
    BY <1>0, <1>1, <1>2, <2>4, <2>5, <2>6, <2>7, <2>8, <2>9, <2>10, <2>11, <2>12, <2>13, StepOnKeeps
       DEF StepOn, SameRequest, Message!tellVars
<1>4. CASE ~Message!Live(m)
  BY <1>0, <1>1, <1>2, <1>4, NoAnswerKeeps DEF Message!UpdateMessage
<1> QED
  BY <1>3, <1>4

LEMMA ListOldCustomsKeeps ==
    ASSUME Message!Assumptions, MessageInv, NEW r \in Message!Posts, Message!ListOldCustoms(r), Bounded'
    PROVE  MessageInv'
<1>0. Message!TypeOK /\ Walks(r) /\ Origin(r) /\ messageReq[r].at = "old"
      /\ messageReq[r].message \in Message!Posts \ {r} /\ messageUnsure \subseteq Message!Posts
      /\ customs \subseteq Message!Posts
  BY DEF MessageInv, Walks, Named, Message!TypeOK, Message!ListOldCustoms, Message!At
<1> PICK m \in Message!Posts : messageReq[r].message = m /\ m # r
  BY <1>0
<1>1. UNCHANGED <<row, orphans, customs, linked, crawl, Message!tellVars, messageUnsure>>
  BY DEF Message!ListOldCustoms, Message!rowVars
<1> DEFINE next == CASE messageReq[r].embeds = "absent" -> "tell"
                     [] messageReq[r].embeds = "none" -> "replace"
                     [] messageReq[r].embeds = "some" -> "customs"
           moved == [messageReq[r] EXCEPT !.old = linked[m] \cap Message!Posts, !.at = next]
<1>2. /\ messageReq[r] \in Message!Request /\ messageReq[r].embeds \in {"absent", "none", "some"}
      /\ messageReq \in [Message!Posts -> Message!Request]
  BY <1>0, RequestFields DEF Message!TypeOK
<1>3. /\ next \in {"tell", "replace", "customs"} /\ (next = "replace" => messageReq[r].embeds # "absent")
      /\ (next = "customs" => messageReq[r].embeds = "some")
  BY <1>2
<1> HIDE DEF next
<1>4. messageReq' = [messageReq EXCEPT ![r] = moved]
  <2>1. messageReq' = [messageReq EXCEPT ![r].old = linked[m] \cap Message!Posts, ![r].at = next]
    BY DEF Message!ListOldCustoms, Message!CustomsOf, next
  <2> QED
    BY <1>2, <2>1
<1>5. /\ moved \in Message!Request /\ moved.at = next /\ moved.old = linked[m] \cap Message!Posts
      /\ moved.from = messageReq[r].from /\ moved.message = m
      /\ moved.content = messageReq[r].content /\ moved.embeds = messageReq[r].embeds
  BY <1>2, <1>3 DEF Message!Request, Message!Embeds
<1> HIDE DEF moved
<1>6. messageReq' \in [Message!Posts -> Message!Request] /\ messageReq'[r] = moved /\ OtherRequests(r)
  BY <1>2, <1>4, <1>5 DEF OtherRequests
<1>7. Walks(r)' /\ Origin(r)'
  <2>1. Walks(r)'
    BY <1>0, <1>1, <1>3, <1>5, <1>6, RequestAtWork DEF Walks, Nameless, Named
  <2>2. From(m, messageReq[r].from)
    BY <1>0 DEF Origin, Named
  <2>3. Origin(r)'
    BY <1>1, <1>3, <1>5, <1>6, <2>2 DEF Origin, Named, From, Message!Live
  <2> QED
    BY <2>1, <2>3
<1>8. m \notin messageUnsure' => Requested(r, m)'
  <2> SUFFICES ASSUME m \notin messageUnsure' PROVE Requested(r, m)'
    OBVIOUS
  <2>1. Written(r, m)
    BY <1>0, <1>1, AtWork DEF Requested, Message!Active
  <2> QED
    BY <1>1, <1>3, <1>5, <1>6, <2>1 DEF Requested, Written, Message!Live
<1> QED
  BY <1>0, <1>1, <1>3, <1>5, <1>6, <1>7, <1>8, OnlyRequestMoves

LEMMA ReplaceMessageCustomEmbedsKeeps ==
    ASSUME Message!Assumptions, MessageInv, NEW r \in Message!Posts, Message!ReplaceMessageCustomEmbeds(r), Bounded'
    PROVE  MessageInv'
<1>0. Message!TypeOK /\ Walks(r) /\ Origin(r) /\ messageReq[r].at = "replace"
      /\ messageReq[r].message \in Message!Posts \ {r}
  BY DEF MessageInv, Walks, Named, Message!ReplaceMessageCustomEmbeds, Message!At
<1> PICK m \in Message!Posts : messageReq[r].message = m /\ m # r
  BY <1>0
<1>1. UNCHANGED <<row, orphans, crawl, Message!tellVars>>
  BY DEF Message!ReplaceMessageCustomEmbeds
<1> DEFINE own == IF messageReq[r].embeds = "some" THEN {r} ELSE {}
           moved == [messageReq[r] EXCEPT !.at = "tell", !.old = own]
<1>2. CASE Message!Live(m) \/ own = {}
  <2>1. /\ linked' = [linked EXCEPT ![m] = (@ \ messageReq[r].old) \cup own]
        /\ customs' = customs \ messageReq[r].old
        /\ messageReq' = [messageReq EXCEPT ![r].at = "tell", ![r].old = own]
        /\ messageUnsure' = messageUnsure
    BY <1>2 DEF Message!ReplaceMessageCustomEmbeds
  <2>2. own \subseteq Message!Posts /\ own \subseteq Message!Embeds
    BY DEF Message!Embeds
  <2>3. messageReq[r] \in Message!Request /\ messageReq \in [Message!Posts -> Message!Request]
    BY <1>0 DEF Message!TypeOK
  <2>4. own = Given(r)
    BY DEF Given
  <2> HIDE DEF own
  <2>5. messageReq' = [messageReq EXCEPT ![r] = moved]
    BY <2>1, <2>3
  <2>6. /\ moved \in Message!Request /\ moved.at = "tell" /\ moved.old = own
        /\ moved.from = messageReq[r].from /\ moved.message = m
        /\ moved.content = messageReq[r].content /\ moved.embeds = messageReq[r].embeds
    BY <2>2, <2>3 DEF Message!Request
  <2> HIDE DEF moved
  <2>7. messageReq' \in [Message!Posts -> Message!Request] /\ messageReq'[r] = moved /\ OtherRequests(r)
    BY <2>3, <2>5, <2>6 DEF OtherRequests
  <2>8. /\ linked' \in [Message!Posts -> SUBSET Message!Embeds] /\ linked'[m] = (linked[m] \ messageReq[r].old) \cup own
        /\ \A n \in Message!Posts \ {m} : linked'[n] = linked[n]
    BY <1>0, <2>1, <2>2 DEF Message!TypeOK
  <2>9. Message!TypeOK'
    BY <1>0, <1>1, <2>1, <2>7, <2>8 DEF Message!TypeOK, Message!tellVars, Bounded
  <2>10. crawl'[r].at = "idle" /\ Others(r)
    BY <1>0, <1>1, <2>7, RequestAtWork DEF Others, OtherRequests, Message!tellVars
  <2>11. Walks(r)' /\ Origin(r)' /\ row'[m] # None
    <3>1. From(m, messageReq[r].from)
      BY <1>0 DEF Origin, Named
    <3>2. row'[m] # None
      BY <1>0, <1>1, MessageConstants DEF Walks
    <3>3. Walks(r)'
      BY <1>0, <1>1, <2>6, <2>7, <2>8, <2>10 DEF Walks, Nameless, Named
    <3>4. Origin(r)'
      BY <1>1, <2>6, <2>7, <3>1 DEF Origin, Named, From, Message!Live
    <3> QED
      BY <3>2, <3>3, <3>4
  <2>12. m \notin messageUnsure' =>
          (\A q \in Message!Posts \ {r} : ~Works(q, m)) /\ Message!Active(r)' /\ Requested(r, m)' /\ Crawled(r, m)'
    <3> SUFFICES ASSUME m \notin messageUnsure'
                 PROVE  /\ (\A q \in Message!Posts \ {r} : ~Works(q, m))
                        /\ Message!Active(r)' /\ Requested(r, m)' /\ Crawled(r, m)'
      OBVIOUS
    <3>1. Requested(r, m) /\ \A q \in Message!Posts \ {r} : ~Works(q, m)
      BY <1>0, <2>1, AtWork DEF Message!Active
    <3>2. Written(r, m) /\ messageReq[r].old = linked[m] \cap Message!Posts
      BY <1>0, <3>1 DEF Requested
    <3>3. linked'[m] \cap Message!Posts = own
      BY <2>2, <2>8, <3>2
    <3>4. Requested(r, m)'
      BY <1>1, <2>6, <2>7, <3>2, <3>3 DEF Requested, Written, Message!Live
    <3> QED
      BY <2>6, <2>7, <2>10, <3>1, <3>4, RequestGoesOn
  <2>13. announced'[r] \in {0, 1} /\ announced'[r] # 1
    BY <1>0, <1>1 DEF MessageInv, AnnouncedByItsOwn, Message!tellVars
  <2> QED
    BY <1>0, <1>1, <2>1, <2>6, <2>7, <2>8, <2>9, <2>10, <2>11, <2>12, <2>13, StepOnKeeps
       DEF StepOn, RowMoves, Message!tellVars
<1>3. CASE ~(Message!Live(m) \/ own = {})
  <2>1. Message!Fail(r) /\ UNCHANGED <<linked, customs>>
    BY <1>3 DEF Message!ReplaceMessageCustomEmbeds
  <2> QED
    BY <1>0, <1>1, <2>1, FailKeeps
<1> QED
  BY <1>2, <1>3

LEMMA TellEditKeeps ==
    ASSUME Message!Assumptions, MessageInv, NEW r \in Message!Posts, Message!TellEdit(r), Bounded'
    PROVE  MessageInv'
<1>0. Message!TypeOK /\ Walks(r) /\ Origin(r) /\ messageReq[r].at = "tell"
      /\ messageReq[r].message \in Message!Posts \ {r}
  BY DEF MessageInv, Walks, Named, Message!TellEdit, Message!At
<1> PICK m \in Message!Posts : messageReq[r].message = m /\ m # r
  BY <1>0
<1>1. UNCHANGED <<row, orphans, customs, linked, crawl, messageSeen, announced, messageUnsure>>
      /\ Message!Go(r, "list") /\ shown' = [shown EXCEPT ![m] = messageReq[r].content]
  BY DEF Message!TellEdit, Message!rowVars
<1>2. /\ messageReq' \in [Message!Posts -> Message!Request]
      /\ messageReq'[r].at = "list" /\ SameRequest(r) /\ OtherRequests(r)
  BY <1>0, <1>1, GoFacts DEF Steps
<1>3. /\ shown' \in [Message!Posts -> Contents \cup {None}] /\ shown'[m] = messageReq[r].content
      /\ \A n \in Message!Posts \ {m} : shown'[n] = shown[n]
  BY <1>0, <1>1, RequestFields DEF Message!TypeOK
<1>4. Message!TypeOK'
  BY <1>0, <1>1, <1>2, <1>3 DEF Message!TypeOK, Bounded
<1>5. crawl'[r].at = "idle" /\ Others(r)
  BY <1>0, <1>1, <1>2, RequestAtWork DEF Others, OtherRequests
<1>6. Walks(r)' /\ Origin(r)' /\ row'[m] # None
  <2>1. From(m, messageReq[r].from)
    BY <1>0 DEF Origin, Named
  <2>2. row'[m] # None
    BY <1>0, <1>1, MessageConstants DEF Walks
  <2>3. Walks(r)'
    BY <1>0, <1>1, <1>2, <1>5 DEF Walks, Nameless, Named, SameRequest
  <2>4. Origin(r)'
    BY <1>1, <1>2, <2>1 DEF Origin, Named, From, Message!Live, SameRequest
  <2> QED
    BY <2>2, <2>3, <2>4
<1>7. m \notin messageUnsure' =>
        (\A q \in Message!Posts \ {r} : ~Works(q, m)) /\ Message!Active(r)' /\ Requested(r, m)' /\ Crawled(r, m)'
  <2> SUFFICES ASSUME m \notin messageUnsure'
               PROVE  /\ (\A q \in Message!Posts \ {r} : ~Works(q, m))
                      /\ Message!Active(r)' /\ Requested(r, m)' /\ Crawled(r, m)'
    OBVIOUS
  <2>1. Requested(r, m) /\ \A q \in Message!Posts \ {r} : ~Works(q, m)
    BY <1>0, <1>1, AtWork DEF Message!Active
  <2>2. Requested(r, m)'
    BY <1>0, <1>1, <1>2, <1>3, <2>1 DEF Requested, Written, Message!Live, SameRequest
  <2> QED
    BY <1>2, <1>5, <2>1, <2>2, RequestGoesOn
<1>8. announced'[r] \in {0, 1} /\ announced'[r] # 1
  BY <1>0, <1>1 DEF MessageInv, AnnouncedByItsOwn
<1> QED
  BY <1>0, <1>1, <1>2, <1>3, <1>4, <1>5, <1>6, <1>7, <1>8, StepOnKeeps DEF StepOn, RowMoves, SameRequest

LEMMA ListEditedKeeps ==
    ASSUME Message!Assumptions, MessageInv, NEW r \in Message!Posts, Message!ListEdited(r), Bounded'
    PROVE  MessageInv'
<1>0. Message!TypeOK /\ Walks(r) /\ Origin(r) /\ messageReq[r].at = "list"
      /\ messageReq[r].message \in Message!Posts \ {r} /\ messageUnsure \subseteq Message!Posts
      /\ customs \subseteq Message!Posts
  BY DEF MessageInv, Walks, Named, Message!TypeOK, Message!ListEdited, Message!At
<1> PICK m \in Message!Posts : messageReq[r].message = m /\ m # r
  BY <1>0
<1>1. UNCHANGED <<row, orphans, customs, linked, crawl, Message!tellVars, messageUnsure>>
  BY DEF Message!ListEdited, Message!rowVars
<1> DEFINE moved == [messageReq[r] EXCEPT !.held = linked[m], !.at = "send"]
<1>2. messageReq[r] \in Message!Request /\ messageReq \in [Message!Posts -> Message!Request]
      /\ linked[m] \subseteq Message!Embeds
  BY <1>0 DEF Message!TypeOK
<1>3. messageReq' = [messageReq EXCEPT ![r] = moved]
  BY <1>2 DEF Message!ListEdited
<1>4. /\ moved \in Message!Request /\ moved.at = "send" /\ moved.held = linked[m]
      /\ moved.from = messageReq[r].from /\ moved.message = m /\ moved.old = messageReq[r].old
      /\ moved.content = messageReq[r].content /\ moved.embeds = messageReq[r].embeds
  BY <1>2 DEF Message!Request
<1> HIDE DEF moved
<1>5. messageReq' \in [Message!Posts -> Message!Request] /\ messageReq'[r] = moved /\ OtherRequests(r)
  BY <1>2, <1>3, <1>4 DEF OtherRequests
<1>6. Walks(r)' /\ Origin(r)'
  <2>1. Walks(r)'
    BY <1>0, <1>1, <1>4, <1>5, RequestAtWork DEF Walks, Nameless, Named
  <2>2. From(m, messageReq[r].from)
    BY <1>0 DEF Origin, Named
  <2>3. Origin(r)'
    BY <1>1, <1>4, <1>5, <2>2 DEF Origin, Named, From, Message!Live
  <2> QED
    BY <2>1, <2>3
<1>7. m \notin messageUnsure' => Requested(r, m)'
  <2> SUFFICES ASSUME m \notin messageUnsure' PROVE Requested(r, m)'
    OBVIOUS
  <2>1. Requested(r, m)
    BY <1>0, <1>1, AtWork DEF Message!Active
  <2> QED
    BY <1>0, <1>1, <1>4, <1>5, <2>1 DEF Requested, Written, Message!Live, Message!tellVars
<1> QED
  BY <1>0, <1>1, <1>4, <1>5, <1>6, <1>7, OnlyRequestMoves

LEMMA SendEditedKeeps ==
    ASSUME Message!Assumptions, MessageInv, NEW r \in Message!Posts, Message!SendEdited(r), Bounded'
    PROVE  MessageInv'
<1>0. Message!TypeOK /\ Walks(r) /\ Origin(r) /\ messageReq[r].at = "send"
      /\ messageReq[r].message \in Message!Posts \ {r}
  BY DEF MessageInv, Walks, Named, Message!SendEdited, Message!At
<1> PICK m \in Message!Posts : messageReq[r].message = m /\ m # r
  BY <1>0
<1> DEFINE begun == [Message!NoCrawl EXCEPT !.at = "before", !.customs = messageReq[r].old,
                                            !.content = messageReq[r].content]
<1>1. /\ UNCHANGED <<row, orphans, customs, linked, shown, announced, messageUnsure>>
      /\ Message!Answer(r, m)
      /\ messageSeen' = [messageSeen EXCEPT ![m] = messageReq[r].held]
      /\ crawl' = [crawl EXCEPT ![r] = begun]
  BY DEF Message!SendEdited, Message!rowVars
<1>2. /\ messageReq' \in [Message!Posts -> Message!Request]
      /\ messageReq'[r].at = "done" /\ messageReq'[r].answer = m /\ messageReq'[r].message = m
      /\ messageReq'[r].from = messageReq[r].from /\ OtherRequests(r)
  BY <1>0, <1>1, AnswerFacts
<1>3. /\ messageReq[r].content \in Contents /\ messageReq[r].old \subseteq Message!Embeds
      /\ messageReq[r].held \subseteq Message!Embeds
  BY <1>0, RequestFields
<1>4. Message!NoCrawl \in Message!Crawl
  BY MessageConstants DEF Message!NoCrawl, Message!Crawl
<1>5. begun \in Message!Crawl /\ begun.at = "before" /\ begun.customs = messageReq[r].old
      /\ begun.content = messageReq[r].content
  BY <1>3, <1>4 DEF Message!Crawl
<1> HIDE DEF begun
<1>6. /\ crawl' \in [Message!Posts -> Message!Crawl] /\ crawl'[r] = begun
      /\ \A q \in Message!Posts \ {r} : crawl'[q] = crawl[q]
  BY <1>0, <1>1, <1>5 DEF Message!TypeOK
<1>7. /\ messageSeen' \in [Message!Posts -> SUBSET Message!Embeds] /\ messageSeen'[m] = messageReq[r].held
      /\ \A n \in Message!Posts \ {m} : messageSeen'[n] = messageSeen[n]
  BY <1>0, <1>1, <1>3 DEF Message!TypeOK
<1>8. Message!TypeOK'
  BY <1>0, <1>1, <1>2, <1>6, <1>7 DEF Message!TypeOK, Bounded
<1>9. Others(r)
  BY <1>1, <1>2, <1>6 DEF Others, OtherRequests
<1>10. Walks(r)' /\ Origin(r)' /\ row'[m] # None
  <2>1. From(m, messageReq[r].from)
    BY <1>0 DEF Origin, Named
  <2>2. row'[m] # None
    BY <1>0, <1>1, MessageConstants DEF Walks
  <2>3. Walks(r)'
    BY <1>0, <1>1, <1>2, <1>5, <1>6, MessageConstants DEF Walks, Nameless, Named
  <2>4. Origin(r)'
    BY <1>1, <1>2, <2>1 DEF Origin, Named, From, Message!Live
  <2> QED
    BY <2>2, <2>3, <2>4
<1>11. m \notin messageUnsure' =>
        (\A q \in Message!Posts \ {r} : ~Works(q, m)) /\ Message!Active(r)' /\ Requested(r, m)' /\ Crawled(r, m)'
  <2> SUFFICES ASSUME m \notin messageUnsure'
               PROVE  /\ (\A q \in Message!Posts \ {r} : ~Works(q, m))
                      /\ Message!Active(r)' /\ Requested(r, m)' /\ Crawled(r, m)'
    OBVIOUS
  <2>1. Requested(r, m) /\ \A q \in Message!Posts \ {r} : ~Works(q, m)
    BY <1>0, <1>1, AtWork DEF Message!Active
  <2>2. /\ Written(r, m) /\ messageReq[r].held = linked[m] /\ messageReq[r].old = linked[m] \cap Message!Posts
        /\ shown[m] = messageReq[r].content
    BY <1>0, <2>1 DEF Requested
  <2>3. Crawled(r, m)'
    BY <1>1, <1>5, <1>6, <1>7, <2>2 DEF Crawled, Written, Message!Live
  <2> QED
    BY <1>2, <1>5, <1>6, <2>1, <2>3, CrawlGoesOn
<1>12. announced'[r] \in {0, 1} /\ announced'[r] # 1
  BY <1>0, <1>1 DEF MessageInv, AnnouncedByItsOwn
<1> QED
  BY <1>0, <1>1, <1>2, <1>7, <1>8, <1>9, <1>10, <1>11, <1>12, StepOnKeeps DEF StepOn, RowMoves

LEMMA EditStepKeeps ==
    ASSUME Message!Assumptions, MessageInv, NEW r \in Message!Posts, Message!EditStep(r), Bounded'
    PROVE  MessageInv'
BY GetMessageByIDKeeps, UpdateMessageKeeps, ListOldCustomsKeeps, ReplaceMessageCustomEmbedsKeeps, TellEditKeeps,
   ListEditedKeeps, SendEditedKeeps DEF Message!EditStep

LEMMA DeleteMessageKeeps ==
    ASSUME Message!Assumptions, MessageInv, NEW r \in Message!Posts, Message!DeleteMessage(r), Bounded'
    PROVE  MessageInv'
<1>0. Message!TypeOK /\ Walks(r) /\ messageReq[r].at = "remove"
      /\ messageReq[r].message \in Message!Posts \ {r} /\ messageUnsure \subseteq Message!Posts
  BY DEF MessageInv, Walks, Named, Message!TypeOK, Message!DeleteMessage, Message!At
<1> PICK m \in Message!Posts : messageReq[r].message = m /\ m # r
  BY <1>0
<1>1. UNCHANGED <<orphans, customs, crawl, Message!tellVars, messageUnsure>>
  BY DEF Message!DeleteMessage
<1>2. m \notin messageUnsure => Settled(m) /\ \A q \in Message!Posts \ {r} : ~Works(q, m)
  BY <1>0, AtWork DEF Requested, Message!Active
<1>3. CASE Message!Live(m)
  <2>1. row' = [row EXCEPT ![m] = Gone] /\ linked' = [linked EXCEPT ![m] = {}] /\ Message!Go(r, "removed")
    BY <1>3 DEF Message!DeleteMessage
  <2>2. /\ row' \in [Message!Posts -> Message!Row \cup {None, Gone}] /\ row'[m] = Gone
        /\ linked' \in [Message!Posts -> SUBSET Message!Embeds] /\ linked'[m] = {}
        /\ \A n \in Message!Posts \ {m} : row'[n] = row[n] /\ linked'[n] = linked[n]
    BY <1>0, <2>1 DEF Message!TypeOK
  <2>3. /\ messageReq' \in [Message!Posts -> Message!Request]
        /\ messageReq'[r].at = "removed" /\ SameRequest(r) /\ OtherRequests(r)
    BY <1>0, <2>1, GoFacts DEF Steps
  <2>4. Message!TypeOK'
    BY <1>0, <1>1, <2>2, <2>3 DEF Message!TypeOK, Message!tellVars, Bounded
  <2>5. crawl'[r].at = "idle" /\ Others(r)
    BY <1>0, <1>1, <2>3, RequestAtWork DEF Others, OtherRequests, Message!tellVars
  <2>6. row'[m] # None /\ RowMoves(m)
    BY <1>3, <2>2, MessageConstants DEF RowMoves
  <2>7. Walks(r)'
    BY <1>0, <1>1, <2>2, <2>3, <2>5, <2>6 DEF Walks, Nameless, Named, SameRequest
  <2>8. Origin(r)'
    BY <2>2, <2>3 DEF Origin, Named, From, SameRequest
  <2>9. Message!Active(r)' /\ Crawled(r, m)' /\ Requested(r, m)'
    BY <2>3, <2>5, RequestGoesOn DEF Requested
  <2>10. announced'[r] \in {0, 1} /\ announced'[r] # 1
    BY <1>0, <1>1 DEF MessageInv, AnnouncedByItsOwn, Message!tellVars
  <2> QED
    BY <1>1, <1>2, <2>2, <2>3, <2>4, <2>5, <2>6, <2>7, <2>8, <2>9, <2>10, StepOnKeeps
       DEF StepOn, SameRequest, Message!tellVars
<1>4. CASE ~Message!Live(m)
  BY <1>0, <1>1, <1>2, <1>4, NoAnswerKeeps DEF Message!DeleteMessage
<1> QED
  BY <1>3, <1>4

LEMMA TellDeletionKeeps ==
    ASSUME Message!Assumptions, MessageInv, NEW r \in Message!Posts, Message!TellDeletion(r), Bounded'
    PROVE  MessageInv'
<1>0. Message!TypeOK /\ Walks(r) /\ Origin(r) /\ messageReq[r].at = "removed"
      /\ messageReq[r].message \in Message!Posts \ {r}
  BY DEF MessageInv, Walks, Named, Message!TellDeletion, Message!At
<1> PICK m \in Message!Posts : messageReq[r].message = m /\ m # r
  BY <1>0
<1>1. /\ UNCHANGED <<row, orphans, customs, linked, crawl, announced, messageUnsure>>
      /\ Message!Answer(r, m)
      /\ shown' = [shown EXCEPT ![m] = None] /\ messageSeen' = [messageSeen EXCEPT ![m] = {}]
  BY DEF Message!TellDeletion, Message!rowVars
<1>2. /\ messageReq' \in [Message!Posts -> Message!Request]
      /\ messageReq'[r].at = "done" /\ messageReq'[r].answer = m /\ messageReq'[r].message = m /\ OtherRequests(r)
  BY <1>0, <1>1, AnswerFacts
<1>3. /\ shown' \in [Message!Posts -> Contents \cup {None}] /\ shown'[m] = None
      /\ messageSeen' \in [Message!Posts -> SUBSET Message!Embeds] /\ messageSeen'[m] = {}
      /\ \A n \in Message!Posts \ {m} : shown'[n] = shown[n] /\ messageSeen'[n] = messageSeen[n]
  BY <1>0, <1>1 DEF Message!TypeOK
<1>4. Message!TypeOK'
  BY <1>0, <1>1, <1>2, <1>3 DEF Message!TypeOK, Bounded
<1>5. crawl'[r].at = "idle" /\ Others(r)
  BY <1>0, <1>1, <1>2, RequestAtWork DEF Others, OtherRequests
<1>6. row'[m] = Gone /\ row'[m] # None
  BY <1>0, <1>1, MessageConstants DEF Origin, Named
<1>7. Walks(r)'
  BY <1>0, <1>1, <1>2, <1>5, <1>6 DEF Walks, Nameless, Named
<1>8. Origin(r)'
  BY <1>2, <1>6 DEF Origin, Named, From
<1>9. m \notin messageUnsure' => \A q \in Message!Posts \ {r} : ~Works(q, m)
  BY <1>0, <1>1, AtWork DEF Message!Active
<1>10. ~Message!Active(r)' /\ Settled(m)'
  BY <1>2, <1>3, <1>5, <1>6, RequestEnds DEF Settled, Message!Live
<1>11. announced'[r] \in {0, 1} /\ announced'[r] # 1
  BY <1>0, <1>1 DEF MessageInv, AnnouncedByItsOwn
<1> QED
  BY <1>1, <1>2, <1>3, <1>4, <1>5, <1>6, <1>7, <1>8, <1>9, <1>10, <1>11, StepOnKeeps DEF StepOn, RowMoves

LEMMA DeleteStepKeeps ==
    ASSUME Message!Assumptions, MessageInv, NEW r \in Message!Posts, Message!DeleteStep(r), Bounded'
    PROVE  MessageInv'
BY DeleteMessageKeeps, TellDeletionKeeps DEF Message!DeleteStep

\* Failures are counted up to the bound.
LEMMA FailsIsBounded ==
    ASSUME Message!Assumptions, Message!TypeOK, Message!Fails, revoked' \in BOOLEAN
    PROVE  Bounded'
<1>1. Message!Begun \subseteq Message!Posts
  BY DEF Message!Begun
<1>2. IsFiniteSet(Message!Begun)
  BY <1>1, MessageConstants, FS_Subset
<1>3. Cardinality(Message!Begun) \in Nat /\ Message!Cardinality(Message!Begun) = Cardinality(Message!Begun)
  BY <1>2, FS_CardinalityType, MessageConstants
<1>4. failures \in 0 .. MaxPosts /\ MaxPosts \in Nat /\ failures' = failures + 1
      /\ Cardinality(Message!Begun) + failures < MaxPosts
  BY <1>3, MessageConstants DEF Message!Fails, Message!TypeOK
<1>5. failures' \in 0 .. MaxPosts
  BY <1>3, <1>4
<1> QED
  BY <1>5 DEF Bounded

\* The crawl.
LEMMA MessageCrawlMoves ==
    ASSUME Message!Assumptions, MessageInv, NEW r \in Message!Posts, NEW m \in Message!Posts,
           messageReq[r].message = m, crawl[r].at # "idle",
           crawl' \in [Message!Posts -> Message!Crawl], \A q \in Message!Posts \ {r} : crawl'[q] = crawl[q],
           UNCHANGED <<row, orphans, customs, messageReq, shown, announced>>, Bounded',
           linked' \in [Message!Posts -> SUBSET Message!Embeds],
           messageSeen' \in [Message!Posts -> SUBSET Message!Embeds],
           \A n \in Message!Posts \ {m} : linked'[n] = linked[n] /\ messageSeen'[n] = messageSeen[n],
           messageUnsure \subseteq messageUnsure', messageUnsure' \subseteq Message!Posts,
           crawl'[r].at = "link" => m = r, crawl'[r].at \in {"before", "replace"} => m # r,
           m \notin messageUnsure' => IF crawl'[r].at = "idle" THEN Settled(m)' ELSE Crawled(r, m)'
    PROVE  MessageInv'
<1>1. /\ Message!TypeOK /\ Walks(r) /\ Origin(r) /\ messageReq[r].at = "done" /\ row[m] # None
      /\ Message!Active(r)
  BY CrawlAtWork DEF MessageInv
<1>2. Message!TypeOK'
  BY <1>1 DEF Message!TypeOK, Bounded
<1>3. Others(r)
  BY DEF Others
<1>4. Walks(r)'
  BY <1>1, MessageConstants DEF Walks, Nameless, Named
<1>5. Origin(r)'
  BY <1>1 DEF Origin, From, Message!Live
<1>6. announced'[r] \in {0, 1} /\ (announced'[r] = 1 => messageReq'[r].at = "done" /\ messageReq'[r].answer = r)
  BY DEF MessageInv, AnnouncedByItsOwn
<1>7. m \notin messageUnsure' => \A q \in Message!Posts \ {r} : ~Works(q, m)
  BY <1>1, AtWork
<1>8. CASE crawl'[r].at = "idle"
  <2>1. ~Message!Active(r)'
    BY <1>1, <1>8, RequestEnds
  <2> QED
    BY <1>1, <1>2, <1>3, <1>4, <1>5, <1>6, <1>7, <1>8, <2>1, StepOnKeeps DEF StepOn, RowMoves
<1>9. CASE crawl'[r].at # "idle"
  <2>1. Message!Active(r)' /\ Requested(r, m)'
    BY <1>1, <1>9, CrawlGoesOn
  <2> QED
    BY <1>1, <1>2, <1>3, <1>4, <1>5, <1>6, <1>7, <1>9, <2>1, StepOnKeeps DEF StepOn, RowMoves
<1> QED
  BY <1>8, <1>9

\* What a crawl found fits with the custom embeds there are.
LEMMA FoundFits ==
    ASSUME Message!Assumptions, NEW own \in SUBSET Message!Posts, NEW text \in Contents, NEW found \in SUBSET text,
           Cardinality(found) + Cardinality(own) <= MaxEmbeds, NEW kept \in SUBSET own
    PROVE  IsFiniteSet(kept \cup found) /\ Cardinality(kept \cup found) <= MaxEmbeds
<1>1. IsFiniteSet(text) /\ IsFiniteSet(Message!Posts) /\ MaxEmbeds \in Nat
  BY MessageConstants
<1>2. IsFiniteSet(found) /\ IsFiniteSet(own)
  BY <1>1, FS_Subset
<1>3. IsFiniteSet(kept) /\ Cardinality(kept) <= Cardinality(own)
  BY <1>2, FS_Subset
<1>4. IsFiniteSet(kept \cup found)
      /\ Cardinality(kept \cup found) = Cardinality(kept) + Cardinality(found) - Cardinality(kept \cap found)
  BY <1>2, <1>3, FS_Union
<1>5. IsFiniteSet(kept \cap found)
  BY <1>3, FS_Subset
<1>6. Cardinality(kept) \in Nat /\ Cardinality(own) \in Nat /\ Cardinality(found) \in Nat
      /\ Cardinality(kept \cap found) \in Nat
  BY <1>2, <1>3, <1>5, FS_CardinalityType
<1> QED
  BY <1>1, <1>3, <1>4, <1>6

LEMMA ListOldLinksKeeps ==
    ASSUME Message!Assumptions, MessageInv, NEW r \in Message!Posts, Message!ListOldLinks(r),
           UNCHANGED <<row, orphans, customs, messageReq, shown, announced, messageUnsure>>, Bounded'
    PROVE  MessageInv'
<1>0. /\ Message!TypeOK /\ Walks(r) /\ crawl[r].at = "before" /\ messageReq[r].message \in Message!Posts
      /\ Message!Active(r) /\ messageUnsure \subseteq Message!Posts
  BY CrawlAtWork DEF MessageInv, Message!TypeOK, Message!ListOldLinks, Message!Crawling
<1> PICK m \in Message!Posts : messageReq[r].message = m
  BY <1>0
<1> DEFINE moved == [crawl[r] EXCEPT !.old = linked[m] \cap Links, !.at = "crawl"]
<1>1. UNCHANGED <<linked, messageSeen>>
  BY DEF Message!ListOldLinks
<1>2. crawl[r] \in Message!Crawl /\ crawl \in [Message!Posts -> Message!Crawl]
  BY <1>0 DEF Message!TypeOK
<1>3. crawl' = [crawl EXCEPT ![r] = moved]
  BY <1>2 DEF Message!ListOldLinks
<1>4. /\ moved \in Message!Crawl /\ moved.at = "crawl" /\ moved.old = linked[m] \cap Links
      /\ moved.content = crawl[r].content /\ moved.customs = crawl[r].customs
  BY <1>2 DEF Message!Crawl, Message!Embeds
<1> HIDE DEF moved
<1>5. crawl' \in [Message!Posts -> Message!Crawl] /\ crawl'[r] = moved /\ \A q \in Message!Posts \ {r} : crawl'[q] = crawl[q]
  BY <1>2, <1>3, <1>4
<1>6. m \notin messageUnsure' => Crawled(r, m)'
  <2> SUFFICES ASSUME m \notin messageUnsure' PROVE Crawled(r, m)'
    OBVIOUS
  <2>1. Crawled(r, m) /\ m # r
    BY <1>0, AtWork DEF Walks
  <2> QED
    BY <1>0, <1>1, <1>4, <1>5, <2>1 DEF Crawled, Message!Live
<1> QED
  BY <1>0, <1>1, <1>4, <1>5, <1>6, MessageCrawlMoves DEF Message!TypeOK

LEMMA FindEmbedsKeeps ==
    ASSUME Message!Assumptions, MessageInv, NEW r \in Message!Posts, Message!CrawlEmbeds(r),
           UNCHANGED <<row, orphans, customs, messageReq, shown, announced, messageUnsure>>, Bounded'
    PROVE  MessageInv'
<1>0. /\ Message!TypeOK /\ Walks(r) /\ crawl[r].at = "crawl" /\ messageReq[r].message \in Message!Posts
      /\ Message!Active(r) /\ messageUnsure \subseteq Message!Posts
  BY CrawlAtWork DEF MessageInv, Message!TypeOK, Message!CrawlEmbeds, Message!Crawling
<1> PICK m \in Message!Posts : messageReq[r].message = m
  BY <1>0
<1>1. UNCHANGED <<linked, messageSeen>>
  BY DEF Message!CrawlEmbeds
<1>2. PICK found \in SUBSET crawl[r].content :
        /\ Cardinality(found) <= MaxEmbeds - Cardinality(crawl[r].customs)
        /\ IF m = r /\ found = {} THEN Message!CrawlEnds(r)
           ELSE crawl' = [crawl EXCEPT ![r].found = found, ![r].at = IF m = r THEN "link" ELSE "replace"]
  BY MessageConstants DEF Message!CrawlEmbeds, Message!EmbedBudget
<1>3. crawl[r] \in Message!Crawl /\ crawl \in [Message!Posts -> Message!Crawl] /\ crawl[r].content \in Contents
      /\ crawl[r].content \subseteq Links
  BY <1>0, CrawlFields, MessageConstants DEF Message!TypeOK
<1>4. m \notin messageUnsure' => Crawled(r, m)
  BY <1>0, AtWork
<1>5. CASE m = r /\ found = {}
  <2>1. /\ crawl' \in [Message!Posts -> Message!Crawl] /\ crawl'[r].at = "idle"
        /\ \A q \in Message!Posts \ {r} : crawl'[q] = crawl[q]
    BY <1>0, <1>2, <1>5, CrawlEndsFacts
  <2>2. m \notin messageUnsure' => Settled(m)'
    <3> SUFFICES ASSUME m \notin messageUnsure' PROVE Settled(m)'
      OBVIOUS
    <3>1. /\ Message!Live(m) /\ shown[m] = row[m].content /\ messageSeen[m] = linked[m] /\ linked[m] \subseteq {r}
      BY <1>0, <1>4, <1>5 DEF Crawled
    <3>2. linked[m] \cap Links \subseteq row[m].content
      BY <3>1, MessageConstants
    <3>3. IsFiniteSet(linked[m]) /\ Cardinality(linked[m]) <= Cardinality({r}) /\ Cardinality({r}) = 1
      BY <3>1, FS_Subset, FS_Singleton
    <3>4. Cardinality(linked[m]) \in Nat
      BY <3>3, FS_CardinalityType
    <3>5. Cardinality(linked[m]) <= MaxEmbeds
      BY <3>3, <3>4, MessageConstants
    <3> QED
      BY <1>1, <3>1, <3>2, <3>3, <3>5 DEF Settled, LinksFit, Message!Live
  <2> QED
    BY <1>0, <1>1, <2>1, <2>2, MessageCrawlMoves DEF Message!TypeOK
<1>6. CASE ~(m = r /\ found = {})
  <2> DEFINE next == IF m = r THEN "link" ELSE "replace"
             moved == [crawl[r] EXCEPT !.found = found, !.at = next]
  <2>1. next \in {"link", "replace"} /\ (next = "link" <=> m = r)
    OBVIOUS
  <2>2. crawl' = [crawl EXCEPT ![r].found = found, ![r].at = next]
    BY <1>2, <1>6
  <2> HIDE DEF next
  <2>3. crawl' = [crawl EXCEPT ![r] = moved]
    BY <1>3, <2>2
  <2>4. found \subseteq Links
    BY <1>3
  <2>5. /\ moved \in Message!Crawl /\ moved.at = next /\ moved.found = found /\ moved.old = crawl[r].old
        /\ moved.content = crawl[r].content /\ moved.customs = crawl[r].customs
    BY <1>3, <2>1, <2>4 DEF Message!Crawl
  <2> HIDE DEF moved
  <2>6. crawl' \in [Message!Posts -> Message!Crawl] /\ crawl'[r] = moved /\ \A q \in Message!Posts \ {r} : crawl'[q] = crawl[q]
    BY <1>3, <2>3, <2>5
  <2>7. m \notin messageUnsure' => Crawled(r, m)'
    <3> SUFFICES ASSUME m \notin messageUnsure' PROVE Crawled(r, m)'
      OBVIOUS
    <3>1. Crawled(r, m)
      BY <1>4
    <3>2. /\ Message!Live(m) /\ shown[m] = row[m].content /\ crawl[r].content = row[m].content
          /\ messageSeen[m] = linked[m] /\ crawl[r].customs = linked[m] \cap Message!Posts
          /\ m # r => crawl[r].old = linked[m] \cap Links
          /\ m = r => linked[m] \subseteq {r}
      BY <1>0, <3>1 DEF Crawled
    <3>3. IsFiniteSet(found) /\ IsFiniteSet(crawl[r].customs)
      BY <1>3, <3>2, MessageConstants, FS_Subset
    <3>4. Cardinality(found) \in Nat /\ Cardinality(crawl[r].customs) \in Nat /\ MaxEmbeds \in Nat
      BY <3>3, FS_CardinalityType, MessageConstants
    <3>5. Cardinality(found) + Cardinality(crawl[r].customs) <= MaxEmbeds
      BY <1>2, <3>4
    <3>6. Fits(r, m)'
      BY <2>5, <2>6, <3>2, <3>5 DEF Fits
    <3> QED
      BY <1>1, <2>1, <2>5, <2>6, <3>2, <3>6 DEF Crawled, Message!Live
  <2> QED
    BY <1>0, <1>1, <2>1, <2>5, <2>6, <2>7, MessageCrawlMoves DEF Message!TypeOK
<1> QED
  BY <1>5, <1>6

LEMMA ProcessMessageEmbedsKeeps ==
    ASSUME Message!Assumptions, MessageInv, NEW r \in Message!Posts, Message!ProcessMessageEmbeds(r),
           UNCHANGED <<row, orphans, customs, messageReq, shown, announced, messageUnsure>>, Bounded'
    PROVE  MessageInv'
<1>0. /\ Message!TypeOK /\ Walks(r) /\ crawl[r].at = "link" /\ messageReq[r].message = r
      /\ Message!Active(r) /\ messageUnsure \subseteq Message!Posts
  BY CrawlAtWork DEF MessageInv, Message!TypeOK, Message!ProcessMessageEmbeds, Message!Crawling, Walks
<1>1. UNCHANGED messageSeen
  BY DEF Message!ProcessMessageEmbeds
<1>2. r \notin messageUnsure' => Crawled(r, r)
  BY <1>0, AtWork
<1>3. CASE Message!Live(r)
  <2>1. linked' = [linked EXCEPT ![r] = @ \cup crawl[r].found] /\ Message!Crawled(r, "list")
    BY <1>3 DEF Message!ProcessMessageEmbeds
  <2>2. /\ crawl' \in [Message!Posts -> Message!Crawl] /\ crawl'[r].at = "list"
        /\ \A q \in Message!Posts \ {r} : crawl'[q] = crawl[q]
    BY <1>0, <2>1, CrawledFacts
  <2>3. crawl[r].found \subseteq Message!Embeds
    BY <1>0, CrawlFields DEF Message!Embeds
  <2>4. /\ linked' \in [Message!Posts -> SUBSET Message!Embeds] /\ linked'[r] = linked[r] \cup crawl[r].found
        /\ \A n \in Message!Posts \ {r} : linked'[n] = linked[n]
    BY <1>0, <2>1, <2>3 DEF Message!TypeOK
  <2>5. r \notin messageUnsure' => Crawled(r, r)'
    <3> SUFFICES ASSUME r \notin messageUnsure' PROVE Crawled(r, r)'
      OBVIOUS
    <3>1. /\ shown[r] = row[r].content /\ crawl[r].customs = linked[r] \cap Message!Posts
          /\ linked[r] \subseteq {r} /\ crawl[r].found \subseteq row[r].content
          /\ Cardinality(crawl[r].found) + Cardinality(crawl[r].customs) <= MaxEmbeds
      BY <1>0, <1>2 DEF Crawled, Fits
    <3>2. row[r].content \in Contents /\ linked[r] \subseteq crawl[r].customs /\ crawl[r].customs \subseteq Message!Posts
      BY <1>0, <1>3, <3>1, LiveRow
    <3>3. IsFiniteSet(linked'[r]) /\ Cardinality(linked'[r]) <= MaxEmbeds
      <4>1. /\ IsFiniteSet(linked[r] \cup crawl[r].found)
            /\ Cardinality(linked[r] \cup crawl[r].found) <= MaxEmbeds
        BY <3>1, <3>2, FoundFits
      <4> QED
        BY <2>4, <4>1
    <3>4. linked'[r] \cap Links \subseteq row[r].content
      BY <2>4, <3>1, MessageConstants
    <3> QED
      BY <1>3, <2>2, <3>1, <3>3, <3>4 DEF Crawled, LinksFit, Message!Live
  <2> QED
    BY <1>0, <1>1, <2>2, <2>4, <2>5, MessageCrawlMoves DEF Message!TypeOK
<1>4. CASE ~Message!Live(r)
  <2>1. UNCHANGED linked /\ Message!CrawlEnds(r)
    BY <1>4 DEF Message!ProcessMessageEmbeds
  <2>2. /\ crawl' \in [Message!Posts -> Message!Crawl] /\ crawl'[r].at = "idle"
        /\ \A q \in Message!Posts \ {r} : crawl'[q] = crawl[q]
    BY <1>0, <2>1, CrawlEndsFacts
  <2>3. r \in messageUnsure'
    BY <1>0, <1>2, <1>4 DEF Crawled
  <2> QED
    BY <1>0, <1>1, <2>1, <2>2, <2>3, MessageCrawlMoves DEF Message!TypeOK
<1> QED
  BY <1>3, <1>4

LEMMA ProcessEditedMessageEmbedsKeeps ==
    ASSUME Message!Assumptions, MessageInv, NEW r \in Message!Posts, Message!ProcessEditedMessageEmbeds(r),
           UNCHANGED <<row, orphans, customs, messageReq, shown, announced, messageUnsure>>, Bounded'
    PROVE  MessageInv'
<1>0. /\ Message!TypeOK /\ Walks(r) /\ crawl[r].at = "replace" /\ messageReq[r].message \in Message!Posts \ {r}
      /\ Message!Active(r) /\ messageUnsure \subseteq Message!Posts
  BY CrawlAtWork DEF MessageInv, Message!TypeOK, Message!ProcessEditedMessageEmbeds, Message!Crawling, Walks
<1> PICK m \in Message!Posts : messageReq[r].message = m /\ m # r
  BY <1>0
<1>1. UNCHANGED messageSeen
  BY DEF Message!ProcessEditedMessageEmbeds
<1>2. m \notin messageUnsure' =>
        /\ Message!Live(m) /\ shown[m] = row[m].content /\ messageSeen[m] = linked[m]
        /\ crawl[r].customs = linked[m] \cap Message!Posts /\ crawl[r].old = linked[m] \cap Links
        /\ crawl[r].found \subseteq row[m].content
        /\ Cardinality(crawl[r].found) + Cardinality(crawl[r].customs) <= MaxEmbeds
  BY <1>0, AtWork DEF Crawled, Fits
<1>3. CASE Message!Live(m) \/ crawl[r].found = {}
  <2>1. linked' = [linked EXCEPT ![m] = (@ \ Links) \cup crawl[r].found]
    BY <1>3 DEF Message!ProcessEditedMessageEmbeds, Message!ReplaceMessageLinkEmbeds
  <2>2. crawl[r].found \subseteq Message!Embeds
    BY <1>0, CrawlFields DEF Message!Embeds
  <2>3. /\ linked' \in [Message!Posts -> SUBSET Message!Embeds] /\ linked'[m] = (linked[m] \ Links) \cup crawl[r].found
        /\ \A n \in Message!Posts \ {m} : linked'[n] = linked[n]
    BY <1>0, <2>1, <2>2 DEF Message!TypeOK
  <2>4. m \notin messageUnsure' => LinksFit(m)'
    <3> SUFFICES ASSUME m \notin messageUnsure' PROVE LinksFit(m)'
      OBVIOUS
    <3>1. linked[m] \ Links \subseteq crawl[r].customs /\ crawl[r].customs \subseteq Message!Posts
      BY <1>0, <1>2 DEF Message!TypeOK, Message!Embeds
    <3>2. row[m].content \in Contents
      BY <1>0, <1>2, LiveRow
    <3>3. IsFiniteSet(linked'[m]) /\ Cardinality(linked'[m]) <= MaxEmbeds
      <4>1. /\ IsFiniteSet((linked[m] \ Links) \cup crawl[r].found)
            /\ Cardinality((linked[m] \ Links) \cup crawl[r].found) <= MaxEmbeds
        BY <1>2, <3>1, <3>2, FoundFits
      <4> QED
        BY <2>3, <4>1
    <3>4. linked'[m] \cap Links \subseteq row[m].content
      BY <1>2, <2>3
    <3> QED
      BY <3>3, <3>4 DEF LinksFit
  <2>5. CASE crawl[r].found = crawl[r].old
    <3>1. Message!CrawlEnds(r)
      BY <1>3, <2>5 DEF Message!ProcessEditedMessageEmbeds
    <3>2. /\ crawl' \in [Message!Posts -> Message!Crawl] /\ crawl'[r].at = "idle"
          /\ \A q \in Message!Posts \ {r} : crawl'[q] = crawl[q]
      BY <1>0, <3>1, CrawlEndsFacts
    <3>3. m \notin messageUnsure' => linked'[m] = linked[m]
      BY <1>2, <2>3, <2>5
    <3>4. m \notin messageUnsure' => Settled(m)'
      BY <1>1, <1>2, <2>4, <3>3, MessageConstants DEF Settled, Message!Live
    <3> QED
      BY <1>0, <1>1, <2>3, <3>2, <3>4, MessageCrawlMoves DEF Message!TypeOK
  <2>6. CASE crawl[r].found # crawl[r].old
    <3>1. Message!Crawled(r, "list")
      BY <1>3, <2>6 DEF Message!ProcessEditedMessageEmbeds
    <3>2. /\ crawl' \in [Message!Posts -> Message!Crawl] /\ crawl'[r].at = "list"
          /\ \A q \in Message!Posts \ {r} : crawl'[q] = crawl[q]
      BY <1>0, <3>1, CrawledFacts
    <3>3. m \notin messageUnsure' => Crawled(r, m)'
      BY <1>2, <2>4, <3>2 DEF Crawled, Message!Live
    <3> QED
      BY <1>0, <1>1, <2>3, <3>2, <3>3, MessageCrawlMoves DEF Message!TypeOK
  <2> QED
    BY <2>5, <2>6
<1>4. CASE ~(Message!Live(m) \/ crawl[r].found = {})
  <2>1. UNCHANGED linked /\ Message!CrawlEnds(r)
    BY <1>4 DEF Message!ProcessEditedMessageEmbeds
  <2>2. /\ crawl' \in [Message!Posts -> Message!Crawl] /\ crawl'[r].at = "idle"
        /\ \A q \in Message!Posts \ {r} : crawl'[q] = crawl[q]
    BY <1>0, <2>1, CrawlEndsFacts
  <2> QED
    BY <1>0, <1>1, <1>2, <1>4, <2>1, <2>2, MessageCrawlMoves DEF Message!TypeOK
<1> QED
  BY <1>3, <1>4

LEMMA ListCrawledKeeps ==
    ASSUME Message!Assumptions, MessageInv, NEW r \in Message!Posts, Message!ListCrawled(r),
           UNCHANGED <<row, orphans, customs, messageReq, shown, announced, messageUnsure>>, Bounded'
    PROVE  MessageInv'
<1>0. /\ Message!TypeOK /\ crawl[r].at = "list" /\ messageReq[r].message \in Message!Posts
      /\ Message!Active(r) /\ messageUnsure \subseteq Message!Posts
  BY CrawlAtWork DEF MessageInv, Message!TypeOK, Message!ListCrawled, Message!Crawling
<1> PICK m \in Message!Posts : messageReq[r].message = m
  BY <1>0
<1> DEFINE moved == [crawl[r] EXCEPT !.held = linked[m], !.at = "send"]
<1>1. UNCHANGED <<linked, messageSeen>>
  BY DEF Message!ListCrawled
<1>2. crawl[r] \in Message!Crawl /\ crawl \in [Message!Posts -> Message!Crawl] /\ linked[m] \subseteq Message!Embeds
  BY <1>0 DEF Message!TypeOK
<1>3. crawl' = [crawl EXCEPT ![r] = moved]
  BY <1>2 DEF Message!ListCrawled
<1>4. moved \in Message!Crawl /\ moved.at = "send" /\ moved.held = linked[m]
  BY <1>2 DEF Message!Crawl
<1> HIDE DEF moved
<1>5. crawl' \in [Message!Posts -> Message!Crawl] /\ crawl'[r] = moved /\ \A q \in Message!Posts \ {r} : crawl'[q] = crawl[q]
  BY <1>2, <1>3, <1>4
<1>6. m \notin messageUnsure' => Crawled(r, m)'
  <2> SUFFICES ASSUME m \notin messageUnsure' PROVE Crawled(r, m)'
    OBVIOUS
  <2>1. Crawled(r, m)
    BY <1>0, AtWork
  <2> QED
    BY <1>0, <1>1, <1>4, <1>5, <2>1 DEF Crawled, LinksFit, Message!Live
<1> QED
  BY <1>0, <1>1, <1>4, <1>5, <1>6, MessageCrawlMoves DEF Message!TypeOK

LEMMA SendCrawledKeeps ==
    ASSUME Message!Assumptions, MessageInv, NEW r \in Message!Posts, Message!SendCrawled(r),
           UNCHANGED <<row, orphans, customs, messageReq, shown, announced, messageUnsure>>, Bounded'
    PROVE  MessageInv'
<1>0. /\ Message!TypeOK /\ crawl[r].at = "send" /\ messageReq[r].message \in Message!Posts
      /\ Message!Active(r) /\ messageUnsure \subseteq Message!Posts
  BY CrawlAtWork DEF MessageInv, Message!TypeOK, Message!SendCrawled, Message!Crawling
<1> PICK m \in Message!Posts : messageReq[r].message = m
  BY <1>0
<1>1. UNCHANGED linked /\ Message!CrawlEnds(r) /\ messageSeen' = [messageSeen EXCEPT ![m] = crawl[r].held]
  BY DEF Message!SendCrawled
<1>2. /\ crawl' \in [Message!Posts -> Message!Crawl] /\ crawl'[r].at = "idle"
      /\ \A q \in Message!Posts \ {r} : crawl'[q] = crawl[q]
  BY <1>0, <1>1, CrawlEndsFacts
<1>3. /\ messageSeen' \in [Message!Posts -> SUBSET Message!Embeds] /\ messageSeen'[m] = crawl[r].held
      /\ \A n \in Message!Posts \ {m} : messageSeen'[n] = messageSeen[n]
  BY <1>0, <1>1, CrawlFields DEF Message!TypeOK
<1>4. m \notin messageUnsure' => Settled(m)'
  <2> SUFFICES ASSUME m \notin messageUnsure' PROVE Settled(m)'
    OBVIOUS
  <2>1. Message!Live(m) /\ shown[m] = row[m].content /\ LinksFit(m) /\ crawl[r].held = linked[m]
    BY <1>0, AtWork DEF Crawled
  <2> QED
    BY <1>1, <1>3, <2>1 DEF Settled, LinksFit, Message!Live
<1> QED
  BY <1>0, <1>1, <1>2, <1>3, <1>4, MessageCrawlMoves DEF Message!TypeOK

LEMMA CrawlStepKeeps ==
    ASSUME Message!Assumptions, MessageInv, NEW r \in Message!Posts, Message!CrawlStep(r)
    PROVE  MessageInv'
<1>1. Bounded'
  BY DEF Message!CrawlStep, MessageInv, Message!TypeOK, Bounded
<1>2. UNCHANGED <<row, orphans, customs, messageReq, shown, announced, messageUnsure>>
  BY DEF Message!CrawlStep
<1> QED
  BY <1>1, <1>2, ListOldLinksKeeps, FindEmbedsKeeps, ProcessMessageEmbedsKeeps, ProcessEditedMessageEmbedsKeeps,
     ListCrawledKeeps, SendCrawledKeeps DEF Message!CrawlStep

LEMMA CrawlFailsKeeps ==
    ASSUME Message!Assumptions, MessageInv, NEW r \in Message!Posts, Message!CrawlFails(r)
    PROVE  MessageInv'
<1>0. /\ Message!TypeOK /\ crawl[r].at # "idle" /\ messageReq[r].message \in Message!Posts
      /\ messageUnsure \subseteq Message!Posts
  BY CrawlAtWork DEF MessageInv, Message!TypeOK, Message!CrawlFails
<1> PICK m \in Message!Posts : messageReq[r].message = m
  BY <1>0
<1>1. /\ UNCHANGED <<row, orphans, customs, linked, revoked, messageReq, shown, announced, messageSeen>>
      /\ Message!CrawlEnds(r) /\ Message!Fails /\ messageUnsure' = messageUnsure \cup {m}
  BY DEF Message!CrawlFails, Message!rowVars, Message!tellVars
<1>2. /\ crawl' \in [Message!Posts -> Message!Crawl] /\ crawl'[r].at = "idle"
      /\ \A q \in Message!Posts \ {r} : crawl'[q] = crawl[q]
  BY <1>0, <1>1, CrawlEndsFacts
<1>3. Bounded'
  BY <1>0, <1>1, FailsIsBounded DEF Message!TypeOK
<1> QED
  BY <1>0, <1>1, <1>2, <1>3, MessageCrawlMoves DEF Message!TypeOK

\* Requests that begin.
LEMMA BeginNameless ==
    ASSUME Message!Assumptions, MessageInv, NEW r \in Message!Posts, messageReq[r].at = "new",
           NEW fields \in Message!Request, Message!Begin(r, fields), fields.at \in {"store", "read"}, fields.message = None
    PROVE  MessageInv'
<1>0. Message!TypeOK /\ Walks(r) /\ messageReq[r].message = None /\ row[r] = None
  BY DEF MessageInv, Walks, Nameless
<1>1. UNCHANGED <<row, orphans, customs, linked, revoked, crawl, Message!tellVars, failures, messageUnsure>>
      /\ messageReq' = [messageReq EXCEPT ![r] = fields]
  BY DEF Message!Begin, Message!rowVars
<1>2. messageReq' \in [Message!Posts -> Message!Request] /\ messageReq'[r] = fields /\ OtherRequests(r)
  BY <1>0, <1>1 DEF Message!TypeOK, OtherRequests
<1>3. Walks(r)' /\ Origin(r)'
  BY <1>0, <1>1, <1>2, RequestAtWork DEF Walks, Origin, Nameless, Named
<1>4. Bounded' /\ orphans' \subseteq Message!Posts
  BY <1>0, <1>1 DEF Message!TypeOK, Bounded
<1> QED
  BY <1>0, <1>1, <1>2, <1>3, <1>4, NamelessKeeps

LEMMA BeginNamed ==
    ASSUME Message!Assumptions, MessageInv, NEW r \in Message!Posts, messageReq[r].at = "new",
           NEW fields \in Message!Request, Message!Begin(r, fields), fields.at \in {"get", "remove"},
           fields.message \in Message!Posts \ {r}, row[fields.message] # None
    PROVE  MessageInv'
<1>0. Message!TypeOK /\ Walks(r) /\ messageReq[r].message = None
  BY DEF MessageInv, Walks, Nameless
<1> PICK m \in Message!Posts : m = fields.message /\ m # r /\ row[m] # None /\ m # None
  BY MessageConstants
<1>1. /\ UNCHANGED <<row, orphans, customs, linked, revoked, crawl, Message!tellVars, failures>>
      /\ messageReq' = [messageReq EXCEPT ![r] = fields]
      /\ messageUnsure' = IF Message!Busy(m) THEN messageUnsure \cup {m} ELSE messageUnsure
  BY DEF Message!Begin, Message!rowVars
<1>2. messageReq' \in [Message!Posts -> Message!Request] /\ messageReq'[r] = fields /\ OtherRequests(r)
  BY <1>0, <1>1 DEF Message!TypeOK, OtherRequests
<1>3. crawl'[r].at = "idle" /\ Others(r)
  BY <1>1, <1>2, RequestAtWork DEF Others, OtherRequests, Message!tellVars
<1>4. Message!TypeOK'
  BY <1>0, <1>1, <1>2 DEF Message!TypeOK, Message!tellVars
<1>5. Walks(r)' /\ Origin(r)'
  BY <1>0, <1>1, <1>2, <1>3 DEF Walks, Origin, Nameless, Named
<1>6. m \notin messageUnsure' =>
        (\A q \in Message!Posts \ {r} : ~Works(q, m)) /\ Message!Active(r)' /\ Requested(r, m)' /\ Crawled(r, m)'
  <2> SUFFICES ASSUME m \notin messageUnsure'
               PROVE  (\A q \in Message!Posts \ {r} : ~Works(q, m)) /\ Message!Active(r)' /\ Requested(r, m)' /\ Crawled(r, m)'
    OBVIOUS
  <2>1. ~Message!Busy(m) /\ m \notin messageUnsure
    BY <1>1
  <2>2. Settled(m) /\ \A q \in Message!Posts \ {r} : ~Works(q, m)
    BY <2>1 DEF MessageInv, Kept, Works, Message!Busy
  <2>3. Requested(r, m)'
    BY <1>1, <1>2, <2>2 DEF Requested, Settled, LinksFit, Message!Live, Message!tellVars
  <2> QED
    BY <1>2, <1>3, <2>2, <2>3, RequestGoesOn
<1>7. announced'[r] \in {0, 1} /\ announced'[r] # 1
  BY <1>0, <1>1 DEF MessageInv, AnnouncedByItsOwn, Message!tellVars
<1> QED
  BY <1>0, <1>1, <1>2, <1>3, <1>4, <1>5, <1>6, <1>7, StepOnKeeps DEF StepOn, RowMoves, Message!tellVars

LEMMA HandlerKeeps ==
    ASSUME Message!Assumptions, MessageInv, NEW r \in Message!Posts, Message!Handler(r)
    PROVE  MessageInv'
<1>0. messageReq[r].at = "new"
  BY DEF Message!Handler, Message!MayBegin, Message!At
<1>1. Message!NoRequest \in Message!Request /\ Message!NoRequest.message = None
  BY MessageConstants DEF Message!NoRequest, Message!Request
<1>2. ASSUME Message!CreateMessageHandler(r) PROVE MessageInv'
  <2>1. PICK text \in Contents, e \in {"absent", "some"} :
          Message!Begin(r, [Message!NoRequest EXCEPT !.at = "store", !.content = text, !.embeds = e])
    BY <1>2 DEF Message!CreateMessageHandler
  <2> DEFINE fields == [Message!NoRequest EXCEPT !.at = "store", !.content = text, !.embeds = e]
  <2>2. fields \in Message!Request /\ fields.at = "store" /\ fields.message = None
    BY <1>1 DEF Message!Request
  <2> QED
    BY <1>0, <2>1, <2>2, BeginNameless
<1>3. ASSUME Message!ExecuteWebhookHandler(r) PROVE MessageInv'
  <2>1. PICK text \in Contents, e \in {"absent", "some"} :
          Message!Begin(r, [Message!NoRequest EXCEPT !.at = "read", !.from = "webhook", !.content = text, !.embeds = e])
    BY <1>3 DEF Message!ExecuteWebhookHandler
  <2> DEFINE fields == [Message!NoRequest EXCEPT !.at = "read", !.from = "webhook", !.content = text, !.embeds = e]
  <2>2. fields \in Message!Request /\ fields.at = "read" /\ fields.message = None
    BY <1>1 DEF Message!Request
  <2> QED
    BY <1>0, <2>1, <2>2, BeginNameless
<1>4. ASSUME NEW sender \in {"user", "webhook"}, Message!Edit(r, sender) PROVE MessageInv'
  <2>1. PICK m \in Message!Posts \ {r}, text \in Contents, e \in {"absent", "none", "some"} :
          /\ row[m] # None
          /\ Message!Begin(r, [Message!NoRequest EXCEPT !.at = "get", !.from = sender, !.message = m, !.content = text,
                                                        !.embeds = e])
    BY <1>4 DEF Message!Edit
  <2> DEFINE fields == [Message!NoRequest EXCEPT !.at = "get", !.from = sender, !.message = m, !.content = text,
                                                 !.embeds = e]
  <2>2. fields \in Message!Request /\ fields.at = "get" /\ fields.message = m
    BY <1>1 DEF Message!Request
  <2> QED
    BY <1>0, <2>1, <2>2, BeginNamed
<1>5. ASSUME Message!DeleteMessageHandler(r) PROVE MessageInv'
  <2>1. PICK m \in Message!Posts \ {r} :
          row[m] # None /\ Message!Begin(r, [Message!NoRequest EXCEPT !.at = "remove", !.message = m])
    BY <1>5 DEF Message!DeleteMessageHandler
  <2> DEFINE fields == [Message!NoRequest EXCEPT !.at = "remove", !.message = m]
  <2>2. fields \in Message!Request /\ fields.at = "remove" /\ fields.message = m
    BY <1>1 DEF Message!Request
  <2> QED
    BY <1>0, <2>1, <2>2, BeginNamed
<1>6. ASSUME Message!DeleteWebhookMessageHandler(r) PROVE MessageInv'
  <2>1. PICK m \in Message!Posts \ {r} :
          /\ Message!Live(m)
          /\ Message!Begin(r, [Message!NoRequest EXCEPT !.at = "remove", !.from = "webhook", !.message = m])
    BY <1>6 DEF Message!DeleteWebhookMessageHandler
  <2> DEFINE fields == [Message!NoRequest EXCEPT !.at = "remove", !.from = "webhook", !.message = m]
  <2>2. fields \in Message!Request /\ fields.at = "remove" /\ fields.message = m /\ row[m] # None
    BY <1>1, <2>1 DEF Message!Request, Message!Live
  <2> QED
    BY <1>0, <2>1, <2>2, BeginNamed
<1> QED
  BY <1>2, <1>3, <1>4, <1>5, <1>6 DEF Message!Handler, Message!UpdateMessageHandler, Message!EditWebhookMessageHandler

LEMMA MessageNextKeeps ==
    ASSUME Message!Assumptions, MessageInv, Message!Next
    PROVE  MessageInv'
<1>0. Message!TypeOK
  BY DEF MessageInv
<1>1. ASSUME NEW r \in Message!Posts, Message!RequestStep(r) PROVE MessageInv'
  <2>1. Bounded'
    BY <1>0, <1>1 DEF Message!RequestStep, Message!TypeOK, Bounded
  <2> QED
    BY <1>1, <2>1, CreateStepKeeps, EditStepKeeps, DeleteStepKeeps DEF Message!RequestStep
<1>2. ASSUME NEW r \in Message!Posts, Message!StatementFails(r) PROVE MessageInv'
  <2>1. /\ UNCHANGED <<row, orphans, customs, linked, revoked, crawl, Message!tellVars>>
        /\ Message!Fails /\ Message!Fail(r) /\ messageReq[r].at \notin {"new", "done"}
    BY <1>2 DEF Message!StatementFails, Message!rowVars
  <2>2. Bounded'
    BY <1>0, <2>1, FailsIsBounded DEF Message!TypeOK
  <2> QED
    BY <2>1, <2>2, FailKeeps
<1>3. ASSUME Message!RevokeWebhook PROVE MessageInv'
  <2>1. UNCHANGED <<row, orphans, customs, linked, messageReq, crawl, Message!tellVars, messageUnsure>>
        /\ Message!Fails /\ revoked' \in BOOLEAN
    BY <1>3 DEF Message!RevokeWebhook, Message!rowVars
  <2>2. Bounded'
    BY <1>0, <2>1, FailsIsBounded
  <2>3. Message!TypeOK'
    BY <1>0, <2>1, <2>2 DEF Message!TypeOK, Message!tellVars, Bounded
  <2> QED
    BY <2>1, <2>3, NothingMoves
<1> QED
  BY <1>1, <1>2, <1>3, HandlerKeeps, CrawlStepKeeps, CrawlFailsKeeps DEF Message!Next

\* Embeds are taken from a message only where its custom ones, or its links, are
\* replaced and where it is deleted.
LEMMA LinkedShrinks ==
    ASSUME Message!Assumptions, MessageInv, NEW r \in Message!Posts, NEW m \in Message!Posts,
           Message!CreateStep(r) \/ Message!EditStep(r) \/ Message!DeleteStep(r) \/ Message!CrawlStep(r)
    PROVE  \/ linked[m] \cap Message!Posts \subseteq linked'[m]
           \/ row'[m] = Gone
           \/ messageReq[r].at = "replace" /\ messageReq[r].message = m
<1>0. linked \in [Message!Posts -> SUBSET Message!Embeds] /\ row \in [Message!Posts -> Message!Row \cup {None, Gone}]
      /\ Message!Posts \cap Links = {}
  BY MessageConstants DEF MessageInv, Message!TypeOK
<1>1. CASE Message!CreateStep(r)
  <2>1. UNCHANGED linked \/ linked' = [linked EXCEPT ![r] = @ \cup {r}]
    BY <1>1 DEF Message!CreateStep, Message!GetWebhookMessage, Message!StoreAttachment, Message!CreateMessageAs,
       Message!RereadWebhookMessage, Message!CreateCustomEmbeds, Message!AddMessageEmbeds, Message!PublishCreatedMessage,
       Message!rowVars
  <2> QED
    BY <1>0, <2>1
<1>2. CASE Message!EditStep(r)
  <2>1. \/ UNCHANGED linked
        \/ /\ messageReq[r].at = "replace"
           /\ \E S : linked' = [linked EXCEPT ![messageReq[r].message] = S]
    BY <1>2 DEF Message!EditStep, Message!GetMessageByID, Message!UpdateMessage, Message!ListOldCustoms,
       Message!ReplaceMessageCustomEmbeds, Message!TellEdit, Message!ListEdited, Message!SendEdited, Message!rowVars,
       Message!At
  <2> QED
    BY <1>0, <2>1
<1>3. CASE Message!DeleteStep(r)
  <2>1. \/ UNCHANGED linked
        \/ /\ row' = [row EXCEPT ![messageReq[r].message] = Gone]
           /\ linked' = [linked EXCEPT ![messageReq[r].message] = {}]
    BY <1>3 DEF Message!DeleteStep, Message!DeleteMessage, Message!TellDeletion, Message!rowVars
  <2> QED
    BY <1>0, <2>1
<1>4. CASE Message!CrawlStep(r)
  <2>1. \/ UNCHANGED linked
        \/ \E n \in Message!Posts : \E found : linked' = [linked EXCEPT ![n] = @ \cup found]
        \/ \E n : \E found : linked' = [linked EXCEPT ![n] = (@ \ Links) \cup found]
    BY <1>4 DEF Message!CrawlStep, Message!ListOldLinks, Message!CrawlEmbeds, Message!ProcessMessageEmbeds,
       Message!ProcessEditedMessageEmbeds, Message!ListCrawled, Message!SendCrawled, Message!ReplaceMessageLinkEmbeds
  <2> QED
    BY <1>0, <2>1
<1> QED
  BY <1>1, <1>2, <1>3, <1>4

LEMMA CustomsAreKept ==
    ASSUME Message!Assumptions, MessageInv, Message!Next
    PROVE  Message!TextEditsKeepCustomsStep
<1> SUFFICES ASSUME NEW m \in Message!Posts, ~(linked[m] \cap Message!Posts \subseteq linked'[m] \cap Message!Posts)
             PROVE  row'[m] = Gone \/ \E r \in Message!Posts :
                       messageReq[r].at = "replace" /\ messageReq[r].message = m /\ messageReq[r].embeds # "absent"
  BY DEF Message!TextEditsKeepCustomsStep, Message!CustomsOf, Message!At
<1>1. linked' # linked
  OBVIOUS
<1>2. PICK r \in Message!Posts : Message!CreateStep(r) \/ Message!EditStep(r) \/ Message!DeleteStep(r) \/ Message!CrawlStep(r)
  BY <1>1 DEF Message!Next, Message!Handler, Message!RequestStep, Message!StatementFails, Message!CrawlFails,
     Message!RevokeWebhook, Message!CreateMessageHandler, Message!ExecuteWebhookHandler, Message!UpdateMessageHandler,
     Message!EditWebhookMessageHandler, Message!Edit, Message!DeleteMessageHandler, Message!DeleteWebhookMessageHandler,
     Message!Begin, Message!rowVars
<1>3. row'[m] = Gone \/ (messageReq[r].at = "replace" /\ messageReq[r].message = m)
  BY <1>2, LinkedShrinks
<1>4. messageReq[r].at = "replace" => messageReq[r].embeds # "absent"
  BY DEF MessageInv, Walks
<1> QED
  BY <1>3, <1>4

LEMMA MessageInitInv ==
    ASSUME Message!Assumptions, Message!Init
    PROVE  MessageInv
<1>1. Message!NoRequest \in Message!Request /\ Message!NoRequest.at = "new" /\ Message!NoRequest.message = None
  BY MessageConstants DEF Message!NoRequest, Message!Request
<1>2. Message!NoCrawl \in Message!Crawl /\ Message!NoCrawl.at = "idle"
  BY MessageConstants DEF Message!NoCrawl, Message!Crawl
<1>3. Message!TypeOK
  <2>1. announced \in [Message!Posts -> 0 .. 2] /\ failures \in 0 .. MaxPosts
    BY MessageConstants DEF Message!Init
  <2>2. messageReq \in [Message!Posts -> Message!Request] /\ crawl \in [Message!Posts -> Message!Crawl]
    BY <1>1, <1>2 DEF Message!Init
  <2> QED
    BY <2>1, <2>2 DEF Message!Init, Message!TypeOK
<1>4. \A r \in Message!Posts : Walks(r) /\ Origin(r) /\ ~Message!Active(r)
  BY <1>1, <1>2 DEF Message!Init, Walks, Origin, Nameless, Named, Message!Active
<1>5. OneKeyed /\ AnnouncedByItsOwn
  BY DEF Message!Init, OneKeyed, AnnouncedByItsOwn, Message!WithKey, Message!Live
<1>6. \A m \in Message!Posts : Kept(m)
  BY <1>4 DEF Message!Init, Kept, Alone, Works
<1> QED
  BY <1>3, <1>4, <1>5, <1>6 DEF MessageInv

LEMMA MessagesHold ==
    ASSUME Message!Assumptions, MessageInv
    PROVE  /\ Message!TypeOK /\ Message!RetriesAgree /\ Message!AnnouncedOnce
           /\ Message!LinksAreOfTheContent /\ Message!ReadersKnow
<1>1. Message!RetriesAgree
  <2> SUFFICES ASSUME NEW r \in Message!Posts, messageReq[r].at = "done", messageReq[r].from = "webhook",
                      messageReq[r].answer # None,
                      NEW q \in Message!Posts, messageReq[q].at = "done", messageReq[q].from = "webhook",
                      messageReq[q].answer # None,
                      row[messageReq[r].answer] # Gone, row[messageReq[q].answer] # Gone
               PROVE  messageReq[r].answer = messageReq[q].answer
    BY DEF Message!RetriesAgree
  <2>1. messageReq[r].answer \in Message!Posts /\ messageReq[q].answer \in Message!Posts
    BY RequestFields DEF MessageInv
  <2>2. From(messageReq[r].answer, "webhook") /\ From(messageReq[q].answer, "webhook")
    BY DEF MessageInv, Origin
  <2>3. messageReq[r].answer \in Message!WithKey /\ messageReq[q].answer \in Message!WithKey
    BY <2>1, <2>2 DEF From, Message!WithKey
  <2> QED
    BY <2>3 DEF MessageInv, OneKeyed
<1>2. Message!AnnouncedOnce
  BY MessageConstants DEF MessageInv, AnnouncedByItsOwn, Message!AnnouncedOnce
<1>3. \A m \in Message!Posts \ messageUnsure : row[m] # None /\ ~Message!Busy(m) => Settled(m)
  BY DEF MessageInv, Kept
<1>4. Message!LinksAreOfTheContent
  BY <1>3, MessageConstants DEF Message!LinksAreOfTheContent, Message!Quiet, Message!Live, Settled, LinksFit
<1>5. Message!ReadersKnow
  BY <1>3, MessageConstants DEF Message!ReadersKnow, Message!Live, Settled
<1> QED
  BY <1>1, <1>2, <1>4, <1>5 DEF MessageInv

MessagesInv == part = "messages" => MessageInv

LEMMA RealtimeMessages ==
    MessagesInv /\ [RealtimeNext]_realtimeVars =>
        /\ MessagesInv'
        /\ [part = "messages" => Message!TextEditsKeepCustomsStep]_realtimeVars
<1> SUFFICES ASSUME part = "messages" => MessageInv, [RealtimeNext]_realtimeVars,
                    part = "messages" \/ part' = "messages"
             PROVE  MessageInv' /\ [Message!TextEditsKeepCustomsStep]_realtimeVars
  BY DEF MessagesInv
<1>1. part = "messages" /\ (Message!Next \/ UNCHANGED realtimeVars)
  BY DEF RealtimeNext, realtimeVars
<1>2. CASE Message!Next
  BY <1>1, <1>2, MessageNextKeeps, CustomsAreKept, RealtimeAssumption
<1>3. CASE UNCHANGED realtimeVars
  <2>1. UNCHANGED messageVars
    BY <1>3 DEF realtimeVars
  <2>2. Message!TypeOK'
    BY <1>1, <2>1 DEF messageVars, MessageInv, Message!TypeOK
  <2>3. UNCHANGED <<row, linked, messageReq, crawl, Message!tellVars, messageUnsure>>
    BY <2>1 DEF messageVars, Message!tellVars
  <2> QED
    BY <1>1, <1>3, <2>2, <2>3, NothingMoves, RealtimeAssumption
<1> QED
  BY <1>1, <1>2, <1>3

\* Retries are answered with one message that is announced once, a message that
\* is edited one request at a time has the links of its content and readers know
\* it, and only an edit with its own embeds takes custom ones away; for any
\* number of requests, links and failures.
THEOREM MessagesStayRight == RealtimeSpec => MessagesAgree
<1>1. RealtimeInit => MessagesInv
  BY RealtimeAssumption, MessageInitInv DEF RealtimeInit, MessagesInv
<1>2. MessagesInv =>
        (part = "messages" =>
            /\ Message!TypeOK
            /\ Message!RetriesAgree
            /\ Message!AnnouncedOnce
            /\ Message!LinksAreOfTheContent
            /\ Message!ReadersKnow)
  BY MessagesHold, RealtimeAssumption DEF MessagesInv
<1> QED
  BY <1>1, <1>2, RealtimeMessages, PTL DEF RealtimeSpec, MessagesAgree
=============================================================================
