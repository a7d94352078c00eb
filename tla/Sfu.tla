-------------------------------- MODULE Sfu --------------------------------
(***************************************************************************)
(* The peers of one voice room (webrtc/peer.go, sfu.go, room.go): who      *)
(* publishes which track, the single reader (fanout) of each track, and    *)
(* the sending slots of every subscriber, which are bound to a publisher   *)
(* without renegotiation.                                                  *)
(*                                                                         *)
(* No lock spans two peers.  A slot is bound in three critical sections:   *)
(* read the publisher's track, get its fanout from the publisher, bind the *)
(* slot under the subscriber's lock.  These run in the WebSocket reader of *)
(* the subscriber ("client"), its renegotiation worker ("worker"), the     *)
(* OnTrack callback of the publisher ("track"), the goroutine that removes *)
(* a peer ("leave") and the room's ticker ("tick").                        *)
(*                                                                         *)
(* A track is a number: the n-th TrackRemote of its peer and kind.  A      *)
(* fanout is the pair of its publisher and kind, as at most one of a pair  *)
(* is alive (Peer.fanouts); a goroutine that resolved one keeps the pair   *)
(* in "held" until that fanout is destroyed.  Screens are one more video   *)
(* kind and packets are left to module Forwarder.                          *)
(***************************************************************************)
EXTENDS Integers, FiniteSets

CONSTANTS
  Peers,        \* the users of the room, each with one Peer
  Publishers,   \* the peers that offer tracks
  Ready,        \* the peers whose first offer, with no track, is answered at the start
  Kinds,        \* subset of {"audio", "video"}
  SlotCount,    \* VoiceVideoSlots and VoiceAudioSlots
  MaxTracks,    \* bound: TrackRemotes of one kind of a peer
  MaxEvents,    \* bound: offers, tracks, subscriptions, departures, ticks
  None

Assumptions ==
  /\ None \notin Peers /\ Publishers \subseteq Peers /\ Ready \subseteq Peers
  /\ Kinds \subseteq {"audio", "video"}
  /\ SlotCount \in Nat \ {0} /\ MaxTracks \in Nat /\ MaxEvents \in Nat

Slots == 1 .. SlotCount
Threads == {"client", "worker", "track", "leave"} \X Peers \cup {<<"tick", None>>}

VARIABLES
  room,      \* Room.peers
  closed,    \* the peers with Peer.closed
  active,    \* Peer.activeMidRole: the kinds of the last offer
  remote,    \* the last TrackRemote stored for a kind, 0 before the first
  flowing,   \* the kinds whose stored track still delivers packets
  fanouts,   \* Peer.fanouts: the track of the reader of a kind, 0 for none
  alive,     \* the pairs <<peer, kind>> whose fanout is not destroyed
  ready,     \* the peers whose slots are allocated
  slots,     \* Peer.videoSlots, Peer.audioSlots
  pending,   \* Peer.pendingVideoSubs
  asked,     \* subscriptions that were accepted and not ended since
  jobs,      \* what every goroutine is doing
  events     \* bound

vars == <<room, closed, active, remote, flowing, fanouts, alive, ready, slots,
          pending, asked, jobs, events>>

Free == [owner |-> None, src |-> 0, live |-> FALSE]
Rest == [at |-> "rest", sub |-> None, pub |-> None, kind |-> "video", track |-> 0,
         held |-> {}, todo |-> {}, left |-> {}, want |-> {},
         views |-> [p \in Peers |-> 0]]

Job == [at : {"rest", "remote", "next", "track", "fanout", "slot", "replace", "read",
              "rebind", "bind", "sync", "resolve"},
        sub : Peers \cup {None}, pub : Peers \cup {None}, kind : {"audio", "video"},
        track : 0 .. MaxTracks, held : SUBSET (Peers \X Kinds), todo : SUBSET Peers,
        left : SUBSET Peers, want : (SUBSET Kinds) \cup (SUBSET Peers),
        views : [Peers -> 0 .. MaxTracks]]

TypeOK ==
  /\ room \subseteq Peers /\ closed \subseteq Peers /\ ready \subseteq Peers
  /\ active \in [Peers -> SUBSET Kinds] /\ flowing \in [Peers -> SUBSET Kinds]
  /\ remote \in [Peers -> [Kinds -> 0 .. MaxTracks]]
  /\ fanouts \in [Peers -> [Kinds -> 0 .. MaxTracks]]
  /\ alive \subseteq {pk \in Peers \X Kinds : fanouts[pk[1]][pk[2]] # 0}
  /\ slots \in [Peers -> [Kinds -> [Slots ->
        [owner : Peers \cup {None}, src : 0 .. MaxTracks, live : BOOLEAN]]]]
  /\ pending \in [Peers -> SUBSET Peers] /\ asked \in [Peers -> SUBSET Peers]
  /\ jobs \in [Threads -> Job]
  /\ events \in 0 .. MaxEvents

(* The room just after everybody joined: nobody has offered a track. *)
Init ==
  /\ room = Peers /\ closed = {} /\ ready = Ready
  /\ active = [p \in Peers |-> {}] /\ flowing = active
  /\ remote = [p \in Peers |-> [k \in Kinds |-> 0]] /\ fanouts = remote
  /\ alive = {} /\ events = 0
  /\ slots = [p \in Peers |-> [k \in Kinds |-> [i \in Slots |-> Free]]]
  /\ pending = active /\ asked = active
  /\ jobs = [t \in Threads |-> Rest]

Event == events < MaxEvents /\ events' = events + 1

(* trackOfKindLocked: the stored track, if its line is active. *)
TrackOf(p, k) == IF k \in Kinds /\ k \in active[p] THEN remote[p][k] ELSE 0

At(t, where) == jobs[t].at = where
Goes(t, where) == jobs' = [jobs EXCEPT ![t].at = where]
Rests(t) == jobs' = [jobs EXCEPT ![t] = Rest]

(* fanout.destroy: its forwarders end, wherever it is still held. *)
Unheld(js, p, k) == [t \in Threads |-> [js[t] EXCEPT !.held = @ \ {<<p, k>>}]]
Cut(ss, p, k) ==
  [q \in Peers |-> [ss[q] EXCEPT ![k] = [i \in Slots |->
     IF @[i].owner = p THEN [@[i] EXCEPT !.live = FALSE] ELSE @[i]]]]

(* fanoutFor(kind, track) called by t, which goes on as "next": the reader of
   another track of the kind is destroyed, whichever of the two is newer. *)
FanoutFor(t, p, k, track, next) ==
  IF fanouts[p][k] = track
  THEN /\ jobs' = [jobs EXCEPT ![t] = IF <<p, k>> \in alive
                                     THEN [next EXCEPT !.held = @ \cup {<<p, k>>}] ELSE next]
       /\ UNCHANGED <<fanouts, alive, slots>>
  ELSE /\ jobs' = [Unheld(jobs, p, k) EXCEPT ![t] = [next EXCEPT !.held = @ \cup {<<p, k>>}]]
       /\ fanouts' = [fanouts EXCEPT ![p][k] = track]
       /\ alive' = alive \cup {<<p, k>>}
       /\ slots' = Cut(slots, p, k)

(* slot.assignWithFanout: a destroyed fanout takes no subscriber. *)
Bound(t, pub, k, track) ==
  [owner |-> pub, src |-> track, live |-> <<pub, k>> \in jobs[t].held]

(* slot.release on the slots of s that forward kinds ks of pub. *)
Released(ss, s, pub, ks) ==
  [ss EXCEPT ![s] = [k \in Kinds |-> [i \in Slots |->
     IF k \in ks /\ @[k][i].owner = pub THEN Free ELSE @[k][i]]]]

-----------------------------------------------------------------------------
(* Offers, in the renegotiation worker of a peer. *)

(* handleOffer up to SetRemoteDescription; the previous roles are kept. *)
HandleOffer(p) ==
  LET t == <<"worker", p>>
  IN  \E ks \in SUBSET (IF p \in Publishers THEN Kinds ELSE {}) :
        /\ Event /\ At(t, "rest") /\ p \notin closed
        /\ p \in ready => ks # active[p]
        /\ active' = [active EXCEPT ![p] = ks]
        /\ jobs' = [jobs EXCEPT ![t] = [Rest EXCEPT !.at = "remote", !.want = active[p]]]
        /\ UNCHANGED <<room, closed, remote, flowing, fanouts, alive, ready, slots, pending, asked>>

(* SetRemoteDescription fails: the roles are put back. *)
OfferFails(p) ==
  LET t == <<"worker", p>>
  IN  /\ At(t, "remote")
      /\ active' = [active EXCEPT ![p] = jobs[t].want]
      /\ Rests(t)
      /\ UNCHANGED <<room, closed, remote, flowing, fanouts, alive, ready, slots, pending, asked, events>>

(* allocateSlots publishes the slots and takes the pending subscriptions, if
   this is the first offer.  A track that left the offer stops. *)
AllocateSlots(p) ==
  LET t == <<"worker", p>>
  IN  /\ At(t, "remote")
      /\ flowing' = [flowing EXCEPT ![p] = @ \cap active[p]]
      /\ ready' = ready \cup {p}
      /\ jobs' = [jobs EXCEPT ![t].at = "next", ![t].todo = IF p \in ready THEN {} ELSE pending[p]]
      /\ pending' = IF p \in ready THEN pending ELSE [pending EXCEPT ![p] = {}]
      /\ UNCHANGED <<room, closed, active, remote, fanouts, alive, slots, asked, events>>

(* The next pending subscription is given to assignVideoSlot. *)
NextPending(p) ==
  LET t == <<"worker", p>>
  IN  /\ At(t, "next")
      /\ \E q \in jobs[t].todo :
           jobs' = [jobs EXCEPT ![t].at = "track", ![t].sub = p, ![t].pub = q, ![t].todo = @ \ {q}]
      /\ UNCHANGED <<room, closed, active, remote, flowing, fanouts, alive, ready, slots, pending,
                     asked, events>>

(* Kinds that were stopped are released by every subscriber of the room
   (releasePublishedKind), and the answer is sent. *)
OfferEnds(p) ==
  LET t == <<"worker", p>>
      stopped == (jobs[t].want \ active[p]) \ {"audio"}
  IN  /\ At(t, "next") /\ jobs[t].todo = {}
      /\ slots' = [q \in Peers |-> IF q \in room \ {p} THEN Released(slots, q, p, stopped)[q] ELSE slots[q]]
      /\ asked' = [q \in Peers |-> IF stopped # {} /\ q \in room THEN asked[q] \ {p} ELSE asked[q]]
      /\ Rests(t)
      /\ UNCHANGED <<room, closed, active, remote, flowing, fanouts, alive, ready, pending, events>>

-----------------------------------------------------------------------------
(* Subscriptions: the steps of assignVideoSlot in the WebSocket reader of the
   subscriber or in its worker. *)

(* Manager.Subscribe and subscribeVideo, which keeps what comes before the
   slots exist. *)
Subscribe(s, p) ==
  LET t == <<"client", s>>
  IN  /\ Event /\ At(t, "rest") /\ {s, p} \subseteq room \ closed /\ s # p
      /\ TrackOf(p, "video") # 0
      /\ asked' = [asked EXCEPT ![s] = @ \cup {p}]
      /\ IF s \in ready
         THEN /\ jobs' = [jobs EXCEPT ![t] = [Rest EXCEPT !.at = "track", !.sub = s, !.pub = p]]
              /\ UNCHANGED pending
         ELSE /\ pending' = [pending EXCEPT ![s] = @ \cup {p}]
              /\ UNCHANGED jobs
      /\ UNCHANGED <<room, closed, active, remote, flowing, fanouts, alive, ready, slots>>

(* Manager.Unsubscribe and releaseVideoSlot: a publisher that has left is not
   found any more. *)
Unsubscribe(s, p) ==
  /\ Event /\ At(<<"client", s>>, "rest") /\ s \in room /\ p \in asked[s]
  /\ asked' = [asked EXCEPT ![s] = @ \ {p}]
  /\ pending' = IF p \in room THEN [pending EXCEPT ![s] = @ \ {p}] ELSE pending
  /\ slots' = IF p \in room THEN Released(slots, s, p, {"video"}) ELSE slots
  /\ UNCHANGED <<room, closed, active, remote, flowing, fanouts, alive, ready, jobs>>

(* What the goroutine does when its subscription has ended. *)
Done(t) == IF t[1] = "worker" THEN [jobs[t] EXCEPT !.at = "next", !.held = {}] ELSE Rest

AssignTrack(t) ==
  LET j == jobs[t] IN
  /\ At(t, "track")
  /\ IF TrackOf(j.pub, "video") = 0
     THEN /\ jobs' = [jobs EXCEPT ![t] = Done(t)]
          /\ asked' = [asked EXCEPT ![j.sub] = @ \ {j.pub}]
     ELSE /\ jobs' = [jobs EXCEPT ![t].at = "fanout", ![t].track = TrackOf(j.pub, "video")]
          /\ UNCHANGED asked
  /\ UNCHANGED <<room, closed, active, remote, flowing, fanouts, alive, ready, slots, pending, events>>

AssignFanout(t) ==
  LET j == jobs[t] IN
  /\ At(t, "fanout")
  /\ FanoutFor(t, j.pub, "video", j.track, [j EXCEPT !.at = "slot"])
  /\ UNCHANGED <<room, closed, active, remote, flowing, ready, pending, asked, events>>

(* findVideoSlotFor: the slot that forwards the publisher, else the first free one. *)
SlotsOf(s, p, k) == {i \in Slots : slots[s][k][i].owner = p}
First(is) == CHOOSE i \in is : \A j \in is : i <= j

AssignFreeSlot(t) ==
  LET j == jobs[t]
      free == SlotsOf(j.sub, None, "video")
      found == j.sub \notin closed /\ free # {}
  IN  /\ At(t, "slot")
      /\ slots' = IF found
                  THEN [slots EXCEPT ![j.sub]["video"][First(free)] = Bound(t, j.pub, "video", j.track)]
                  ELSE slots
      /\ asked' = IF found THEN asked ELSE [asked EXCEPT ![j.sub] = @ \ {j.pub}]
      /\ jobs' = [jobs EXCEPT ![t] = Done(t)]
      /\ UNCHANGED <<room, closed, active, remote, flowing, fanouts, alive, ready, pending, events>>

AssignSlot(t) ==
  LET j == jobs[t]
      mine == SlotsOf(j.sub, j.pub, "video")
      free == SlotsOf(j.sub, None, "video")
      found == j.sub \notin closed /\ mine \cup free # {}
      slot == First(IF mine # {} THEN mine ELSE free)
  IN  /\ At(t, "slot")
      /\ slots' = IF found
                  THEN [slots EXCEPT ![j.sub]["video"][slot] = Bound(t, j.pub, "video", j.track)]
                  ELSE slots
      /\ asked' = IF found THEN asked ELSE [asked EXCEPT ![j.sub] = @ \ {j.pub}]
      /\ jobs' = [jobs EXCEPT ![t] = Done(t)]
      /\ UNCHANGED <<room, closed, active, remote, flowing, fanouts, alive, ready, pending, events>>

-----------------------------------------------------------------------------
(* Tracks, in the OnTrack callback of the publisher. *)

(* onIncomingTrack stores the track, and keeps the reader of the kind it found. *)
IncomingTrack(p) ==
  LET t == <<"track", p>>
  IN  \E k \in active[p] :
        /\ Event /\ At(t, "rest") /\ p \notin closed
        /\ k \notin flowing[p] \/ remote[p][k] = 1
        /\ remote[p][k] < MaxTracks
        /\ remote' = [remote EXCEPT ![p][k] = @ + 1]
        /\ flowing' = [flowing EXCEPT ![p] = @ \cup {k}]
        /\ jobs' = [jobs EXCEPT ![t] = [Rest EXCEPT !.at = "replace", !.pub = p, !.kind = k,
                                                    !.track = remote[p][k] + 1,
                                                    !.held = {<<p, k>>} \cap alive]]
        /\ UNCHANGED <<room, closed, active, fanouts, alive, ready, slots, pending, asked>>

(* The reader that was kept is destroyed, if nobody else did so yet, and the
   subscribers of the room are to be bound again (rebindPublishedTrack). *)
ReplaceFanout(p) ==
  LET t == <<"track", p>>
      k == jobs[t].kind
      kept == <<p, k>> \in jobs[t].held
      next == [jobs[t] EXCEPT !.at = IF k = "audio" THEN "read" ELSE "rebind",
                               !.todo = IF k = "audio" THEN {} ELSE room \ {p},
                               !.held = {}]
  IN  /\ At(t, "replace")
      /\ alive' = IF kept THEN alive \ {<<p, k>>} ELSE alive
      /\ slots' = IF kept THEN Cut(slots, p, k) ELSE slots
      /\ jobs' = [IF kept THEN Unheld(jobs, p, k) ELSE jobs EXCEPT ![t] = next]
      /\ UNCHANGED <<room, closed, active, remote, flowing, fanouts, ready, pending, asked, events>>

(* Audio is read at once, for the active speakers. *)
ReadAudio(p) ==
  LET t == <<"track", p>> IN
  /\ At(t, "read")
  /\ FanoutFor(t, p, "audio", jobs[t].track, [jobs[t] EXCEPT !.at = "rebind"])
  /\ UNCHANGED <<room, closed, active, remote, flowing, ready, pending, asked, events>>

(* rebindVideoSlot: a subscriber without a slot of the publisher is skipped. *)
RebindFanout(p) ==
  LET t == <<"track", p>> IN
  /\ At(t, "rebind")
  /\ \E s \in jobs[t].todo :
       LET next == [jobs[t] EXCEPT !.todo = @ \ {s}, !.sub = s, !.held = {}]
       IN  IF SlotsOf(s, p, "video") = {}
           THEN /\ jobs' = [jobs EXCEPT ![t] = next]
                /\ UNCHANGED <<fanouts, alive, slots>>
           ELSE FanoutFor(t, p, "video", jobs[t].track, [next EXCEPT !.at = "bind"])
  /\ UNCHANGED <<room, closed, active, remote, flowing, ready, pending, asked, events>>

RebindSlot(p) ==
  LET t == <<"track", p>>
      s == jobs[t].sub
  IN  /\ At(t, "bind")
      /\ slots' = IF s \in closed THEN slots ELSE
           [slots EXCEPT ![s]["video"] = [i \in Slots |->
              IF @[i].owner = p /\ @[i].src # jobs[t].track
              THEN Bound(t, p, "video", jobs[t].track) ELSE @[i]]]
      /\ Goes(t, "rebind")
      /\ UNCHANGED <<room, closed, active, remote, flowing, fanouts, alive, ready, pending, asked, events>>

TrackDone(p) ==
  LET t == <<"track", p>> IN
  /\ At(t, "rebind") /\ jobs[t].todo = {}
  /\ Rests(t)
  /\ UNCHANGED <<room, closed, active, remote, flowing, fanouts, alive, ready, slots, pending, asked, events>>

(* readLoop: the read of a track that is over fails, and destroys the fanout. *)
ReadLoopEnds(p, k) ==
  /\ <<p, k>> \in alive
  /\ k \notin flowing[p] \/ fanouts[p][k] # remote[p][k] \/ p \in closed
  /\ alive' = alive \ {<<p, k>>}
  /\ slots' = Cut(slots, p, k)
  /\ jobs' = Unheld(jobs, p, k)
  /\ UNCHANGED <<room, closed, active, remote, flowing, fanouts, ready, pending, asked, events>>

-----------------------------------------------------------------------------
(* Audio: tick and removePeer take a snapshot of the room under its lock and
   apply it to one subscriber after the other without the lock. *)

Views(present) == [q \in Peers |-> IF q \in present THEN TrackOf(q, "audio") ELSE 0]

Tick ==
  LET t == <<"tick", None>> IN
  /\ "audio" \in Kinds /\ At(t, "rest")
  /\ jobs' = [jobs EXCEPT ![t] = [Rest EXCEPT !.at = "sync", !.todo = room, !.views = Views(room)]]
  /\ UNCHANGED <<room, closed, active, remote, flowing, fanouts, alive, ready, slots, pending, asked,
                 events>>

(* removePeer: the critical section. *)
RemovePeer(p) ==
  LET t == <<"leave", p>> IN
  /\ Event /\ p \in room
  /\ room' = room \ {p}
  /\ jobs' = [jobs EXCEPT ![t] = [Rest EXCEPT !.at = "sync", !.pub = p, !.todo = room',
                                              !.views = Views(room')]]
  /\ UNCHANGED <<closed, active, remote, flowing, fanouts, alive, ready, slots, pending, asked>>

(* audioSetLocked: as many of the others as there are slots.  Who comes first
   is left to module ActiveSpeakers.  removePeer releases the slots of the
   peer that leaves before it applies the set (releaseAllFrom). *)
AudioSets(s, views) ==
  LET others == {q \in Peers \ {s} : views[q] # 0}
  IN  {set \in SUBSET others :
         Cardinality(set) = IF Cardinality(others) < SlotCount THEN Cardinality(others) ELSE SlotCount}

SyncNext(t) ==
  LET j == jobs[t] IN
  /\ At(t, "sync")
  /\ \E s \in j.todo, set \in SUBSET Peers :
       /\ set \in AudioSets(s, j.views)
       /\ jobs' = [jobs EXCEPT ![t] = [j EXCEPT !.at = "resolve", !.sub = s, !.todo = @ \ {s},
                                                !.want = set, !.left = set, !.held = {}]]
       /\ slots' = IF j.pub = None THEN slots ELSE Released(slots, s, j.pub, Kinds)
       /\ asked' = IF j.pub = None THEN asked ELSE [asked EXCEPT ![s] = @ \ {j.pub}]
  /\ UNCHANGED <<room, closed, active, remote, flowing, fanouts, alive, ready, pending, events>>

(* setAudioSet first gets the fanouts of the set, each from its publisher. *)
SyncFanout(t) ==
  LET j == jobs[t]
      q == CHOOSE q \in j.left : TRUE
  IN  /\ At(t, "resolve") /\ j.left # {}
      /\ FanoutFor(t, q, "audio", j.views[q], [j EXCEPT !.left = @ \ {q}])
      /\ UNCHANGED <<room, closed, active, remote, flowing, ready, pending, asked, events>>

(* setAudioSet under the lock of the subscriber: a slot whose publisher and
   track are wanted is left as it is, one whose publisher is not is freed, and
   new publishers take the free slots. *)
Kept(t, s) ==
  LET j == jobs[t] IN
  [i \in Slots |-> LET c == slots[s]["audio"][i] IN
     IF c.owner \notin j.want THEN Free
     ELSE IF c.src = j.views[c.owner] THEN c
     ELSE Bound(t, c.owner, "audio", j.views[c.owner])]

Filled(t, kept) ==
  LET j == jobs[t]
      new == {q \in j.want : \A i \in Slots : kept[i].owner # q}
      free == {i \in Slots : kept[i].owner = None}
  IN  {f \in [Slots -> new \cup {None}] :
         /\ \A i \in Slots : f[i] # None => i \in free
         /\ \A q \in new : Cardinality({i \in Slots : f[i] = q}) = 1}

SyncKeepsUnwanted(t) ==
  LET j == jobs[t]
      s == j.sub
      old == slots[s]["audio"]
      kept == [i \in Slots |-> IF old[i].owner \notin j.want THEN old[i] ELSE Kept(t, s)[i]]
  IN  /\ At(t, "resolve") /\ j.left = {}
      /\ IF s \in closed \/ s \notin ready \/ "audio" \notin Kinds \/ Filled(t, kept) = {}
         THEN slots' = slots
         ELSE \E f \in Filled(t, kept) :
                slots' = [slots EXCEPT ![s]["audio"] = [i \in Slots |->
                            IF f[i] = None THEN kept[i] ELSE Bound(t, f[i], "audio", j.views[f[i]])]]
      /\ jobs' = [jobs EXCEPT ![t].at = "sync", ![t].held = {}, ![t].want = {}]
      /\ UNCHANGED <<room, closed, active, remote, flowing, fanouts, alive, ready, pending, asked, events>>

SyncSlots(t) ==
  LET j == jobs[t]
      s == j.sub
      kept == Kept(t, s)
  IN  /\ At(t, "resolve") /\ j.left = {}
      /\ IF s \in closed \/ s \notin ready \/ "audio" \notin Kinds
         THEN slots' = slots
         ELSE \E f \in Filled(t, kept) :
                slots' = [slots EXCEPT ![s]["audio"] = [i \in Slots |->
                            IF f[i] = None THEN kept[i] ELSE Bound(t, f[i], "audio", j.views[f[i]])]]
      /\ jobs' = [jobs EXCEPT ![t].at = "sync", ![t].held = {}, ![t].want = {}]
      /\ UNCHANGED <<room, closed, active, remote, flowing, fanouts, alive, ready, pending, asked, events>>

TickDone ==
  LET t == <<"tick", None>> IN
  /\ At(t, "sync") /\ jobs[t].todo = {}
  /\ Rests(t)
  /\ UNCHANGED <<room, closed, active, remote, flowing, fanouts, alive, ready, slots, pending, asked, events>>

(* Peer.close, at the end of removePeer: stopAllFanouts. *)
Close(p) ==
  LET t == <<"leave", p>>
      none == [k \in Kinds |-> 0]
      over == {p} \X Kinds
  IN  /\ At(t, "sync") /\ jobs[t].todo = {}
      /\ closed' = closed \cup {p}
      /\ fanouts' = [fanouts EXCEPT ![p] = none]
      /\ alive' = alive \ over
      /\ slots' = [q \in Peers |-> [k \in Kinds |-> Cut(slots, p, k)[q][k]]]
      /\ jobs' = [[u \in Threads |-> [jobs[u] EXCEPT !.held = @ \ over]] EXCEPT ![t] = Rest]
      /\ UNCHANGED <<room, active, remote, flowing, ready, pending, asked, events>>

-----------------------------------------------------------------------------
OfferStep(p) == HandleOffer(p) \/ OfferFails(p) \/ AllocateSlots(p) \/ NextPending(p) \/ OfferEnds(p)
AssignStep(t) == AssignTrack(t) \/ AssignFanout(t) \/ AssignSlot(t)
TrackStep(p) == ReplaceFanout(p) \/ ReadAudio(p) \/ RebindFanout(p) \/ RebindSlot(p) \/ TrackDone(p)
SyncStep(t) == SyncNext(t) \/ SyncFanout(t) \/ SyncSlots(t)

Next ==
  \/ \E p \in Peers : OfferStep(p) \/ IncomingTrack(p) \/ TrackStep(p) \/ RemovePeer(p) \/ Close(p)
  \/ \E s, p \in Peers : Subscribe(s, p) \/ Unsubscribe(s, p)
  \/ \E t \in Threads : AssignStep(t) \/ SyncStep(t)
  \/ \E p \in Peers, k \in Kinds : ReadLoopEnds(p, k)
  \/ Tick \/ TickDone

Spec == Init /\ [][Next]_vars

(* The ticker fires and goroutines run on. *)
FairSpec ==
  /\ Spec /\ WF_vars(Tick \/ TickDone)
  /\ \A t \in Threads : WF_vars(AssignStep(t)) /\ WF_vars(SyncStep(t))
  /\ \A p \in Peers :
       /\ WF_vars(OfferFails(p) \/ AllocateSlots(p) \/ NextPending(p) \/ OfferEnds(p))
       /\ WF_vars(TrackStep(p)) /\ WF_vars(Close(p))

-----------------------------------------------------------------------------
(* A subscriber never spends two slots on one publisher and kind, although its
   WebSocket reader, its renegotiation worker, the ticker and departures bind
   its slots with tracks and fanouts they resolved earlier. *)
OneSlotPerSource ==
  \A s \in Peers, k \in Kinds, p \in Peers : Cardinality(SlotsOf(s, p, k)) <= 1

(* A subscription that was accepted is never lost silently: until it is ended
   or refused it is pending, being bound, or has a slot - also when it was made
   before the first offer created the slots. *)
NoSubscriptionLost ==
  \A s \in Peers \ closed : \A p \in asked[s] :
    \/ p \in pending[s] \/ SlotsOf(s, p, "video") # {}
    \/ p \in jobs[<<"worker", s>>].todo
    \/ \E th \in {"client", "worker"} :
         jobs[<<th, s>>].at \in {"track", "fanout", "slot"} /\ jobs[<<th, s>>].pub = p

(* Both: slots serve the subscriptions there are. *)
SlotsServeSubscriptions == TypeOK /\ OneSlotPerSource /\ NoSubscriptionLost

(* The audio slots of a peer that left the room are freed in every subscriber,
   although a tick may bind them again from a snapshot taken before. *)
AudioForgetsLeavers ==
  \A p \in Publishers : \A s \in Peers \ {p} :
    p \notin room /\ "audio" \in Kinds ~> s \in closed \/ SlotsOf(s, p, "audio") = {}

(* What comments say and the model refutes: once all goroutines rest, a slot of
   a publisher that sends the kind forwards its present track: it is subscribed
   to the living reader of that track. *)
SlotsFollowTracks ==
  (\A t \in Threads : At(t, "rest")) =>
    \A s \in room, k \in Kinds : \A i \in Slots :
      LET c == slots[s][k][i]
      IN  c.owner \in room /\ k \in flowing[c.owner] => c.src = remote[c.owner][k] /\ c.live

(* Likewise: once all goroutines rest, no slot is kept for a publisher that left. *)
LeaversHoldNoSlot ==
  (\A t \in Threads : At(t, "rest")) =>
    \A s \in room, k \in Kinds, p \in Peers \ room : SlotsOf(s, p, k) = {}
=============================================================================
