------------------------------ MODULE Sfu_proofs ------------------------------
(***************************************************************************)
(* Proofs about Sfu, for any number of peers, tracks and slots: a          *)
(* subscriber never has two slots of one publisher and kind, and a         *)
(* subscription that was accepted is pending, being bound or has a slot    *)
(* until it ends.                                                          *)
(***************************************************************************)
EXTENDS Sfu, FiniteSetTheorems, WellFoundedInduction, TLAPS

-----------------------------------------------------------------------------
(***************************************************************************)
(* The inductive invariant.                                                *)
(***************************************************************************)
Steps(th) ==
    CASE th = "client" -> {"rest", "track", "fanout", "slot"}
      [] th = "worker" -> {"rest", "remote", "next", "track", "fanout", "slot"}
      [] th = "track" -> {"rest", "replace", "read", "rebind", "bind"}
      [] th \in {"leave", "tick"} -> {"rest", "sync", "resolve"}

\* A subscription under way is of the goroutine's own peer, and of a video.
Assigning(j) == j.at \in {"track", "fanout", "slot"}
Assigns(p, j) ==
    /\ j.sub = p /\ j.pub \in Peers /\ "video" \in Kinds
    /\ j.at # "track" => j.track # 0

\* What the worker takes from pending it takes between two offers.
Offers(j) ==
    /\ j.want \in SUBSET Kinds
    /\ j.at \in {"rest", "remote"} => j.todo = {}
    /\ j.todo # {} => "video" \in Kinds

\* Only a video is bound anew.
Tracks(j) ==
    /\ j.at # "rest" => j.kind \in Kinds /\ j.track # 0
    /\ j.at = "read" => j.kind = "audio"
    /\ j.todo # {} \/ j.at = "bind" => "video" \in Kinds
    /\ j.at = "bind" => j.sub \in Peers

\* Who is to be heard had a track when the room was looked at.
Syncs(j) ==
    /\ j.at # "rest" => \A q \in Peers : j.views[q] # 0 => "audio" \in Kinds
    /\ j.at = "resolve" =>
          /\ j.sub \in Peers /\ j.want \in SUBSET Peers /\ j.left \subseteq j.want
          /\ \A q \in j.want : j.views[q] # 0

JobInv(t, j) ==
    /\ j.at \in Steps(t[1])
    /\ Assigning(j) => Assigns(t[2], j)
    /\ t[1] = "worker" => Offers(j)
    /\ t[1] = "track" => Tracks(j)
    /\ t[1] \in {"leave", "tick"} => Syncs(j)
JobsAreSound == \A t \in Threads : JobInv(t, jobs[t])

VideoIsAsked == "video" \notin Kinds => \A s \in Peers : asked[s] = {} /\ pending[s] = {}

\* OneSlotPerSource without its count.
Distinct(row) ==
    \A i, j \in Slots : row[i].owner = row[j].owner /\ row[i].owner # None => i = j
SlotsAreDistinct == \A s \in Peers, k \in Kinds : Distinct(slots[s][k])

\* A subscription of s to p is not lost.
Worker(s) == jobs[<<"worker", s>>]
Client(s) == jobs[<<"client", s>>]
Binds(j, p) == Assigning(j) /\ j.pub = p
Served(s, p) ==
    \/ p \in pending[s]
    \/ SlotsOf(s, p, "video") # {}
    \/ p \in Worker(s).todo
    \/ Binds(Worker(s), p)
    \/ Binds(Client(s), p)
SubscriptionsAreServed == \A s \in Peers \ closed : \A p \in asked[s] : Served(s, p)

IInv ==
    /\ TypeOK
    /\ JobsAreSound
    /\ VideoIsAsked
    /\ SlotsAreDistinct
    /\ SubscriptionsAreServed

-----------------------------------------------------------------------------
(***************************************************************************)
(* What the operators do.                                                  *)
(***************************************************************************)
LEMMA Constants ==
    ASSUME Assumptions
    PROVE  /\ None \notin Peers /\ SlotCount \in Nat /\ SlotCount > 0 /\ MaxTracks \in Nat
           /\ Kinds \subseteq {"audio", "video"} /\ MaxEvents \in Nat
           /\ Publishers \subseteq Peers /\ Ready \subseteq Peers
BY DEF Assumptions

\* The goroutines are different ones.
LEMMA ThreadNames ==
    /\ \A p \in Peers : {<<"client", p>>, <<"worker", p>>, <<"track", p>>, <<"leave", p>>} \subseteq Threads
    /\ <<"tick", None>> \in Threads
    /\ \A t \in Threads : t[1] \in {"client", "worker", "track", "leave"} => t[2] \in Peers /\ t = <<t[1], t[2]>>
    /\ \A t \in Threads : t[1] \in {"client", "worker", "track", "leave", "tick"}
    /\ \A t \in Threads : t[1] = "tick" => t = <<"tick", None>>
BY DEF Threads

\* Two jobs that differ at most in the fan-outs they hold.
Same(i, j) ==
    /\ i.at = j.at /\ i.sub = j.sub /\ i.pub = j.pub /\ i.kind = j.kind /\ i.track = j.track
    /\ i.todo = j.todo /\ i.left = j.left /\ i.want = j.want /\ i.views = j.views

LEMMA SameIsSound ==
    ASSUME NEW t, NEW i, NEW j, Same(i, j), JobInv(t, j)
    PROVE  JobInv(t, i)
BY DEF Same, JobInv, Assigning, Assigns, Offers, Tracks, Syncs

LEMMA RestIsJob ==
    ASSUME Assumptions
    PROVE  /\ Rest \in Job
           /\ Rest.at = "rest" /\ Rest.sub = None /\ Rest.todo = {} /\ Rest.left = {} /\ Rest.want = {}
<1>1. [p \in Peers |-> 0] \in [Peers -> 0 .. MaxTracks]
  BY Constants
<1>2. Rest \in Job
  BY <1>1, Constants DEF Rest, Job
<1> QED
  BY <1>2 DEF Rest

SlotTable == [Peers -> [Kinds -> [Slots ->
    [owner : Peers \cup {None}, src : 0 .. MaxTracks, live : BOOLEAN]]]]

\* Nobody's slots change hands.
SameOwners(ss, tt) ==
    \A s \in Peers, k \in Kinds, i \in Slots : ss[s][k][i].owner = tt[s][k][i].owner

LEMMA CutKeepsOwners ==
    ASSUME NEW ss \in SlotTable, NEW p, NEW k
    PROVE  Cut(ss, p, k) \in SlotTable /\ SameOwners(Cut(ss, p, k), ss)
<1> DEFINE Slot == [owner : Peers \cup {None}, src : 0 .. MaxTracks, live : BOOLEAN]
           row(q) == [i \in Slots |-> IF ss[q][k][i].owner = p THEN [ss[q][k][i] EXCEPT !.live = FALSE]
                                                              ELSE ss[q][k][i]]
<1>1. \A q \in Peers : ss[q] \in [Kinds -> [Slots -> Slot]]
  BY DEF SlotTable
<1>2. \A q \in Peers, i \in Slots : k \in Kinds =>
        ss[q][k][i] \in Slot /\ row(q)[i] \in Slot /\ row(q)[i].owner = ss[q][k][i].owner
  <2> SUFFICES ASSUME NEW q \in Peers, NEW i \in Slots, k \in Kinds
               PROVE  /\ ss[q][k][i] \in Slot /\ row(q)[i] \in Slot
                      /\ row(q)[i].owner = ss[q][k][i].owner
    OBVIOUS
  <2>1. ss[q][k][i] \in Slot
    <3> HIDE DEF Slot
    <3> QED
      BY <1>1
  <2> QED
    BY <2>1
<1>3. Cut(ss, p, k) = [q \in Peers |-> [ss[q] EXCEPT ![k] = row(q)]]
  BY DEF Cut
<1>4. \A q \in Peers : k \in Kinds => row(q) \in [Slots -> Slot]
  BY <1>2
<1>5. \A q \in Peers : [ss[q] EXCEPT ![k] = row(q)] \in [Kinds -> [Slots -> Slot]]
  <2> HIDE DEF row, Slot
  <2> QED
    BY <1>1, <1>4
<1>6. Cut(ss, p, k) \in SlotTable
  BY <1>3, <1>5 DEF SlotTable
<1>7. ASSUME NEW s \in Peers, NEW l \in Kinds, NEW i \in Slots
      PROVE  Cut(ss, p, k)[s][l][i].owner = ss[s][l][i].owner
  <2>1. Cut(ss, p, k)[s] = [ss[s] EXCEPT ![k] = row(s)]
    BY <1>3
  <2>2. CASE l = k
    <3>1. Cut(ss, p, k)[s][l] = row(s)
      BY <2>1, <2>2, <1>1
    <3> QED
      BY <3>1, <2>2, <1>2
  <2>3. CASE l # k
    BY <2>1, <2>3, <1>1
  <2> QED
    BY <2>2, <2>3
<1> QED
  BY <1>6, <1>7 DEF SameOwners

LEMMA UnheldIsSame ==
    ASSUME NEW js \in [Threads -> Job], NEW p, NEW k
    PROVE  Unheld(js, p, k) \in [Threads -> Job] /\ \A t \in Threads : Same(Unheld(js, p, k)[t], js[t])
BY DEF Unheld, Job, Same

\* The thread goes on as it says, the others know no more than that a fan-out is gone.
LEMMA FanoutForFacts ==
    ASSUME Assumptions, TypeOK, NEW t \in Threads, NEW p \in Peers, NEW k \in Kinds,
           NEW track \in 0 .. MaxTracks, track # 0, NEW next \in Job, FanoutFor(t, p, k, track, next)
    PROVE  /\ jobs' \in [Threads -> Job]
           /\ Same(jobs'[t], next)
           /\ \A u \in Threads \ {t} : Same(jobs'[u], jobs[u])
           /\ fanouts' \in [Peers -> [Kinds -> 0 .. MaxTracks]]
           /\ alive' \subseteq {pk \in Peers \X Kinds : fanouts'[pk[1]][pk[2]] # 0}
           /\ slots' \in SlotTable /\ SameOwners(slots', slots)
<1> DEFINE holds == [next EXCEPT !.held = @ \cup {<<p, k>>}]
<1>0. slots \in SlotTable /\ jobs \in [Threads -> Job]
  BY DEF TypeOK, SlotTable
<1>1. holds \in Job /\ Same(holds, next)
  BY DEF Job, Same
<1>2. CASE fanouts[p][k] = track
  BY <1>0, <1>1, <1>2 DEF FanoutFor, TypeOK, Same, SameOwners
<1>3. CASE fanouts[p][k] # track
  <2>1. /\ jobs' = [Unheld(jobs, p, k) EXCEPT ![t] = holds]
        /\ fanouts' = [fanouts EXCEPT ![p][k] = track]
        /\ alive' = alive \cup {<<p, k>>}
        /\ slots' = Cut(slots, p, k)
    BY <1>3 DEF FanoutFor
  <2>2. jobs' \in [Threads -> Job] /\ Same(jobs'[t], next) /\ \A u \in Threads \ {t} : Same(jobs'[u], jobs[u])
    <3> HIDE DEF holds
    <3> QED
      BY <2>1, <1>0, <1>1, UnheldIsSame
  <2>3. slots' \in SlotTable /\ SameOwners(slots', slots)
    BY <2>1, <1>0, CutKeepsOwners
  <2>4. fanouts' \in [Peers -> [Kinds -> 0 .. MaxTracks]]
    BY <2>1 DEF TypeOK
  <2>5. alive' \subseteq {pk \in Peers \X Kinds : fanouts'[pk[1]][pk[2]] # 0}
    BY <2>1 DEF TypeOK
  <2> QED
    BY <2>2, <2>3, <2>4, <2>5
<1> QED
  BY <1>2, <1>3

LEMMA SlotsOfKept ==
    ASSUME NEW s \in Peers, NEW k \in Kinds, SameOwners(slots', slots)
    PROVE  /\ \A p : SlotsOf(s, p, k)' = SlotsOf(s, p, k)
           /\ Distinct(slots[s][k]) => Distinct(slots'[s][k])
BY DEF SameOwners, SlotsOf, Distinct

\* Among the slots there is a first one.
LEMMA FirstIsOne ==
    ASSUME Assumptions, NEW is \in SUBSET Slots, is # {}
    PROVE  First(is) \in is
<1>1. is \subseteq Nat
  BY Constants DEF Slots
<1>2. PICK i \in is : \A j \in is : ~ (<<j, i>> \in OpToRel(<, Nat))
  BY <1>1, NatLessThanWellFounded, WFMin
<1>3. ASSUME NEW j \in is
      PROVE  i <= j
  <2>1. i \in Nat /\ j \in Nat
    BY <1>1
  <2>2. j < i => <<j, i>> \in OpToRel(<, Nat)
    BY <2>1 DEF OpToRel
  <2>3. ~ (j < i)
    BY <1>2, <2>2, Zenon
  <2> QED
    BY <2>1, <2>3
<1> QED
  BY <1>3 DEF First

-----------------------------------------------------------------------------
(***************************************************************************)
(* One goroutine takes a step; the others learn at most that a fan-out is  *)
(* gone.                                                                   *)
(***************************************************************************)
Alone(t) == \A u \in Threads \ {t} : Same(jobs'[u], jobs[u])

LEMMA OneJobChanges ==
    ASSUME TypeOK, NEW t \in Threads, NEW j \in Job, jobs' = [jobs EXCEPT ![t] = j]
    PROVE  jobs' \in [Threads -> Job] /\ jobs'[t] = j /\ Alone(t)
BY DEF TypeOK, Alone, Same

LEMMA JobsStaySound ==
    ASSUME JobsAreSound, NEW t \in Threads, Alone(t), JobInv(t, jobs'[t])
    PROVE  JobsAreSound'
<1>1. ASSUME NEW u \in Threads
      PROVE  JobInv(u, jobs'[u])
  <2>1. CASE u = t
    BY <2>1
  <2>2. CASE u # t
    <3>1. Same(jobs'[u], jobs[u]) /\ JobInv(u, jobs[u])
      BY <2>2 DEF Alone, JobsAreSound
    <3> QED
      BY <3>1, SameIsSound
  <2> QED
    BY <2>1, <2>2
<1> QED
  BY <1>1 DEF JobsAreSound

\* Whoever waits in another goroutine still waits there.
LEMMA SubscriptionsStayServed ==
    ASSUME SubscriptionsAreServed, closed \subseteq closed', NEW t \in Threads, Alone(t),
           \A s \in Peers \ closed' : \A p \in asked'[s] :
              /\ p \in asked[s]
              /\ p \in pending[s] \/ SlotsOf(s, p, "video") # {} => Served(s, p)'
              /\ t = <<"worker", s>> /\ (p \in Worker(s).todo \/ Binds(Worker(s), p)) => Served(s, p)'
              /\ t = <<"client", s>> /\ Binds(Client(s), p) => Served(s, p)'
    PROVE  SubscriptionsAreServed'
<1> SUFFICES ASSUME NEW s \in Peers \ closed', NEW p \in asked'[s]
             PROVE  Served(s, p)'
  BY DEF SubscriptionsAreServed
<1>1. Served(s, p)
  BY DEF SubscriptionsAreServed
<1>2. <<"worker", s>> \in Threads /\ <<"client", s>> \in Threads
  BY ThreadNames
<1>3. CASE p \in pending[s] \/ SlotsOf(s, p, "video") # {}
  BY <1>3
<1>4. CASE p \in Worker(s).todo \/ Binds(Worker(s), p)
  <2>1. CASE t = <<"worker", s>>
    BY <2>1, <1>4
  <2>2. CASE t # <<"worker", s>>
    <3>1. Same(jobs'[<<"worker", s>>], jobs[<<"worker", s>>])
      BY <2>2, <1>2 DEF Alone
    <3> QED
      BY <3>1, <1>4 DEF Same, Worker, Binds, Assigning, Served
  <2> QED
    BY <2>1, <2>2
<1>5. CASE Binds(Client(s), p)
  <2>1. CASE t = <<"client", s>>
    BY <2>1, <1>5
  <2>2. CASE t # <<"client", s>>
    <3>1. Same(jobs'[<<"client", s>>], jobs[<<"client", s>>])
      BY <2>2, <1>2 DEF Alone
    <3> QED
      BY <3>1, <1>5 DEF Same, Client, Binds, Assigning, Served
  <2> QED
    BY <2>1, <2>2
<1> QED
  BY <1>1, <1>3, <1>4, <1>5 DEF Served

\* The tracks, the departures and the ticker do not bind subscriptions.
LEMMA OthersLeaveServed ==
    ASSUME SubscriptionsAreServed, closed \subseteq closed', NEW t \in Threads, Alone(t),
           t[1] \notin {"client", "worker"}, pending' = pending,
           \A s \in Peers : asked'[s] \subseteq asked[s],
           \A s \in Peers : \A p \in asked'[s] :
              SlotsOf(s, p, "video") # {} => SlotsOf(s, p, "video")' # {}
    PROVE  SubscriptionsAreServed'
<1>1. ASSUME NEW s \in Peers \ closed', NEW p \in asked'[s]
      PROVE  /\ p \in asked[s]
             /\ p \in pending[s] \/ SlotsOf(s, p, "video") # {} => Served(s, p)'
             /\ t # <<"worker", s>> /\ t # <<"client", s>>
  BY DEF Served
<1> QED
  BY <1>1, SubscriptionsStayServed

LEMMA VideoStaysAsked ==
    ASSUME VideoIsAsked, \A s \in Peers : asked'[s] \subseteq asked[s] /\ pending'[s] \subseteq pending[s]
    PROVE  VideoIsAsked'
BY DEF VideoIsAsked

LEMMA DistinctStays ==
    ASSUME SlotsAreDistinct, SameOwners(slots', slots)
    PROVE  SlotsAreDistinct'
BY SlotsOfKept DEF SlotsAreDistinct

LEMMA UnchangedOwners == slots' = slots => SameOwners(slots', slots)
BY DEF SameOwners

\* Slots that are released change hands only to nobody.
LEMMA ReleasedFacts ==
    ASSUME NEW ss \in SlotTable, NEW s \in Peers, NEW pub, NEW ks
    PROVE  /\ Assumptions => Released(ss, s, pub, ks) \in SlotTable
           /\ \A q \in Peers, k \in Kinds, i \in Slots :
                Released(ss, s, pub, ks)[q][k][i] =
                  IF q = s /\ k \in ks /\ ss[q][k][i].owner = pub THEN Free ELSE ss[q][k][i]
<1> DEFINE Slot == [owner : Peers \cup {None}, src : 0 .. MaxTracks, live : BOOLEAN]
           rows == [k \in Kinds |-> [i \in Slots |->
                      IF k \in ks /\ ss[s][k][i].owner = pub THEN Free ELSE ss[s][k][i]]]
<1>1. \A q \in Peers : ss[q] \in [Kinds -> [Slots -> Slot]]
  BY DEF SlotTable
<1>2. Released(ss, s, pub, ks) = [ss EXCEPT ![s] = rows]
  BY DEF Released
<1>3. ASSUME Assumptions
      PROVE  Free \in Slot
  BY <1>3, Constants DEF Free
<1>4. ASSUME Assumptions
      PROVE  rows \in [Kinds -> [Slots -> Slot]]
  <2> HIDE DEF Slot
  <2> QED
    BY <1>1, <1>3, <1>4
<1>5. ASSUME Assumptions
      PROVE  Released(ss, s, pub, ks) \in SlotTable
  <2>1. ss \in [Peers -> [Kinds -> [Slots -> Slot]]]
    BY DEF SlotTable
  <2>2. [ss EXCEPT ![s] = rows] \in [Peers -> [Kinds -> [Slots -> Slot]]]
    <3> HIDE DEF rows, Slot
    <3> QED
      BY <2>1, <1>4, <1>5
  <2> QED
    BY <1>2, <2>2 DEF SlotTable
<1>6. ASSUME NEW q \in Peers, NEW k \in Kinds, NEW i \in Slots
      PROVE  Released(ss, s, pub, ks)[q][k][i] =
               IF q = s /\ k \in ks /\ ss[q][k][i].owner = pub THEN Free ELSE ss[q][k][i]
  <2>1. Released(ss, s, pub, ks)[q] = IF q = s THEN rows ELSE ss[q]
    BY <1>2 DEF SlotTable
  <2> QED
    BY <2>1
<1> QED
  BY <1>5, <1>6

\* Giving slots back makes nobody have two.
LEMMA DistinctIfReleased ==
    ASSUME SlotsAreDistinct,
           \A s \in Peers, k \in Kinds, i \in Slots :
              slots'[s][k][i].owner = slots[s][k][i].owner \/ slots'[s][k][i].owner = None
    PROVE  SlotsAreDistinct'
<1> SUFFICES ASSUME NEW s \in Peers, NEW k \in Kinds, NEW i \in Slots, NEW j \in Slots,
                    slots'[s][k][i].owner = slots'[s][k][j].owner, slots'[s][k][i].owner # None
             PROVE  i = j
  BY DEF SlotsAreDistinct, Distinct
<1> QED
  BY DEF SlotsAreDistinct, Distinct

-----------------------------------------------------------------------------
(***************************************************************************)
(* Offers.                                                                 *)
(***************************************************************************)
LEMMA WorkersJob ==
    ASSUME TypeOK, JobsAreSound, NEW p \in Peers
    PROVE  /\ <<"worker", p>> \in Threads
           /\ Worker(p) \in Job /\ Worker(p).at \in Steps("worker") /\ Offers(Worker(p))
           /\ Assigning(Worker(p)) => Assigns(p, Worker(p))
<1> DEFINE t == <<"worker", p>>
<1>1. t \in Threads /\ t[1] = "worker" /\ t[2] = p
  BY ThreadNames
<1>2. jobs[t] \in Job /\ JobInv(t, jobs[t])
  BY <1>1 DEF TypeOK, JobsAreSound
<1> HIDE DEF t
<1>3. jobs[t].at \in Steps("worker") /\ Offers(jobs[t]) /\ (Assigning(jobs[t]) => Assigns(p, jobs[t]))
  BY <1>1, <1>2 DEF JobInv
<1> QED
  BY <1>1, <1>2, <1>3 DEF Worker, t

LEMMA HandleOfferKeeps ==
    ASSUME Assumptions, IInv, NEW p \in Peers, HandleOffer(p)
    PROVE  IInv'
<1> DEFINE t == <<"worker", p>>
           j == [Rest EXCEPT !.at = "remote", !.want = active[p]]
<1>1. PICK ks \in SUBSET (IF p \in Publishers THEN Kinds ELSE {}) :
        /\ Event /\ At(t, "rest") /\ p \notin closed
        /\ active' = [active EXCEPT ![p] = ks]
        /\ jobs' = [jobs EXCEPT ![t] = j]
        /\ UNCHANGED <<room, closed, remote, flowing, fanouts, alive, ready, slots, pending, asked>>
  BY DEF HandleOffer
<1>2. t \in Threads /\ Worker(p).at = "rest" /\ Worker(p).todo = {}
  BY <1>1, WorkersJob DEF IInv, At, Worker, Offers
<1>3. j \in Job /\ j.at = "remote" /\ j.todo = {} /\ j.want = active[p]
  <2>1. active[p] \in SUBSET Kinds
    BY DEF IInv, TypeOK
  <2> QED
    BY <2>1, RestIsJob DEF Job
<1> HIDE DEF j
<1>4. jobs' \in [Threads -> Job] /\ jobs'[t] = j /\ Alone(t)
  BY <1>1, <1>2, <1>3, OneJobChanges DEF IInv
<1>5. TypeOK'
  <2>1. events' \in 0 .. MaxEvents
    BY <1>1, Constants DEF IInv, TypeOK, Event
  <2>2. active' \in [Peers -> SUBSET Kinds]
    BY <1>1 DEF IInv, TypeOK
  <2> QED
    BY <1>1, <1>4, <2>1, <2>2 DEF IInv, TypeOK
<1>6. JobsAreSound'
  <2>1. JobInv(t, j)
    BY <1>3 DEF JobInv, Steps, Assigning, Offers, IInv, TypeOK
  <2> QED
    BY <2>1, <1>2, <1>4, JobsStaySound DEF IInv
<1>7. VideoIsAsked'
  BY <1>1 DEF IInv, VideoIsAsked
<1>8. SlotsAreDistinct'
  BY <1>1, UnchangedOwners, DistinctStays DEF IInv
<1>9. SubscriptionsAreServed'
  <2>1. ASSUME NEW s \in Peers \ closed', NEW q \in asked'[s]
        PROVE  /\ q \in asked[s]
               /\ q \in pending[s] \/ SlotsOf(s, q, "video") # {} => Served(s, q)'
               /\ ~ (t = <<"worker", s>> /\ (q \in Worker(s).todo \/ Binds(Worker(s), q)))
               /\ t # <<"client", s>>
    BY <1>1, <1>2 DEF Served, SlotsOf, Binds, Assigning
  <2> QED
    BY <2>1, <1>1, <1>2, <1>4, SubscriptionsStayServed DEF IInv
<1> QED
  BY <1>5, <1>6, <1>7, <1>8, <1>9 DEF IInv

LEMMA OfferFailsKeeps ==
    ASSUME Assumptions, IInv, NEW p \in Peers, OfferFails(p)
    PROVE  IInv'
<1> DEFINE t == <<"worker", p>>
<1>1. /\ Worker(p).at = "remote"
      /\ active' = [active EXCEPT ![p] = Worker(p).want]
      /\ jobs' = [jobs EXCEPT ![t] = Rest]
      /\ UNCHANGED <<room, closed, remote, flowing, fanouts, alive, ready, slots, pending, asked, events>>
  BY DEF OfferFails, At, Worker, Rests
<1>2. t \in Threads /\ Worker(p).todo = {} /\ Worker(p).want \in SUBSET Kinds
  BY <1>1, WorkersJob DEF IInv, Offers
<1>3. jobs' \in [Threads -> Job] /\ jobs'[t] = Rest /\ Alone(t)
  BY <1>1, <1>2, RestIsJob, OneJobChanges DEF IInv
<1>4. TypeOK'
  <2>1. active' \in [Peers -> SUBSET Kinds]
    BY <1>1, <1>2 DEF IInv, TypeOK
  <2> QED
    BY <1>1, <1>3, <2>1 DEF IInv, TypeOK
<1>5. JobsAreSound'
  <2>1. JobInv(t, Rest)
    BY DEF JobInv, Steps, Assigning, Offers, Rest
  <2> QED
    BY <2>1, <1>2, <1>3, JobsStaySound DEF IInv
<1>6. VideoIsAsked' /\ SlotsAreDistinct'
  BY <1>1, UnchangedOwners, DistinctStays DEF IInv, VideoIsAsked
<1>7. SubscriptionsAreServed'
  <2>1. ASSUME NEW s \in Peers \ closed', NEW q \in asked'[s]
        PROVE  /\ q \in asked[s]
               /\ q \in pending[s] \/ SlotsOf(s, q, "video") # {} => Served(s, q)'
               /\ ~ (t = <<"worker", s>> /\ (q \in Worker(s).todo \/ Binds(Worker(s), q)))
               /\ t # <<"client", s>>
    BY <1>1, <1>2 DEF Served, SlotsOf, Binds, Assigning
  <2> QED
    BY <2>1, <1>1, <1>2, <1>3, SubscriptionsStayServed DEF IInv
<1> QED
  BY <1>4, <1>5, <1>6, <1>7 DEF IInv

\* What was pending becomes the worker's to do.
LEMMA AllocateSlotsKeeps ==
    ASSUME Assumptions, IInv, NEW p \in Peers, AllocateSlots(p)
    PROVE  IInv'
<1> DEFINE t == <<"worker", p>>
           todo == IF p \in ready THEN {} ELSE pending[p]
           j == [Worker(p) EXCEPT !.at = "next", !.todo = todo]
<1>1. /\ Worker(p).at = "remote"
      /\ flowing' = [flowing EXCEPT ![p] = @ \cap active[p]]
      /\ ready' = ready \cup {p}
      /\ jobs' = [jobs EXCEPT ![t] = j]
      /\ pending' = IF p \in ready THEN pending ELSE [pending EXCEPT ![p] = {}]
      /\ UNCHANGED <<room, closed, active, remote, fanouts, alive, slots, asked, events>>
  BY DEF AllocateSlots, At, Worker
<1>2. t \in Threads /\ Worker(p) \in Job /\ Worker(p).todo = {} /\ Worker(p).want \in SUBSET Kinds
  BY <1>1, WorkersJob DEF IInv, Offers
<1>3. /\ j \in Job /\ j.at = "next" /\ j.todo = todo /\ j.want = Worker(p).want
      /\ todo \in SUBSET Peers
  BY <1>2 DEF IInv, TypeOK, Job
<1>4. todo # {} => "video" \in Kinds
  BY DEF IInv, VideoIsAsked
<1> HIDE DEF j
<1>5. jobs' \in [Threads -> Job] /\ jobs'[t] = j /\ Alone(t)
  BY <1>1, <1>2, <1>3, OneJobChanges DEF IInv
<1>6. TypeOK'
  <2>1. flowing' \in [Peers -> SUBSET Kinds] /\ ready' \subseteq Peers /\ pending' \in [Peers -> SUBSET Peers]
    BY <1>1 DEF IInv, TypeOK
  <2> QED
    BY <1>1, <1>5, <2>1 DEF IInv, TypeOK
<1>7. JobsAreSound'
  <2>1. JobInv(t, j)
    BY <1>2, <1>3, <1>4 DEF JobInv, Steps, Assigning, Offers
  <2> QED
    BY <2>1, <1>2, <1>5, JobsStaySound DEF IInv
<1>8. VideoIsAsked'
  <2>1. \A s \in Peers : asked'[s] \subseteq asked[s] /\ pending'[s] \subseteq pending[s]
    BY <1>1 DEF IInv, TypeOK
  <2> QED
    BY <2>1, VideoStaysAsked DEF IInv
<1>9. SlotsAreDistinct'
  BY <1>1, UnchangedOwners, DistinctStays DEF IInv
<1>10. SubscriptionsAreServed'
  <2>1. ASSUME NEW s \in Peers \ closed', NEW q \in asked'[s]
        PROVE  /\ q \in asked[s]
               /\ q \in pending[s] \/ SlotsOf(s, q, "video") # {} => Served(s, q)'
               /\ ~ (t = <<"worker", s>> /\ (q \in Worker(s).todo \/ Binds(Worker(s), q)))
               /\ t # <<"client", s>>
    <3>1. ASSUME q \in pending[s]
          PROVE  Served(s, q)'
      <4>1. CASE s = p /\ p \notin ready
        <5>1. q \in jobs'[<<"worker", s>>].todo
          BY <3>1, <4>1, <1>3, <1>5
        <5> QED
          BY <5>1 DEF Served, Worker
      <4>2. CASE ~ (s = p /\ p \notin ready)
        BY <3>1, <4>2, <1>1 DEF Served, IInv, TypeOK
      <4> QED
        BY <4>1, <4>2
    <3>2. SlotsOf(s, q, "video") # {} => Served(s, q)'
      BY <1>1 DEF Served, SlotsOf
    <3> QED
      BY <3>1, <3>2, <1>1, <1>2 DEF Binds, Assigning
  <2> QED
    BY <2>1, <1>1, <1>2, <1>5, SubscriptionsStayServed DEF IInv
<1> QED
  BY <1>6, <1>7, <1>8, <1>9, <1>10 DEF IInv

LEMMA NextPendingKeeps ==
    ASSUME Assumptions, IInv, NEW p \in Peers, NextPending(p)
    PROVE  IInv'
<1> DEFINE t == <<"worker", p>>
<1>1. PICK r \in Worker(p).todo :
        jobs' = [jobs EXCEPT ![t] = [Worker(p) EXCEPT !.at = "track", !.sub = p, !.pub = r,
                                                      !.todo = @ \ {r}]]
  BY DEF NextPending, Worker
<1>2. /\ Worker(p).at = "next"
      /\ UNCHANGED <<room, closed, active, remote, flowing, fanouts, alive, ready, slots, pending,
                     asked, events>>
  BY DEF NextPending, At, Worker
<1> DEFINE j == [Worker(p) EXCEPT !.at = "track", !.sub = p, !.pub = r, !.todo = @ \ {r}]
<1>3. /\ t \in Threads /\ Worker(p) \in Job /\ Worker(p).want \in SUBSET Kinds
      /\ "video" \in Kinds
  BY <1>1, WorkersJob DEF IInv, Offers
<1>4. r \in Peers
  BY <1>1, <1>3 DEF Job
<1>5. /\ j \in Job /\ j.at = "track" /\ j.sub = p /\ j.pub = r /\ j.todo = Worker(p).todo \ {r}
      /\ j.want = Worker(p).want
  BY <1>3, <1>4 DEF Job
<1>6. jobs' = [jobs EXCEPT ![t] = j]
  BY <1>1
<1> HIDE DEF j
<1>7. jobs' \in [Threads -> Job] /\ jobs'[t] = j /\ Alone(t)
  BY <1>6, <1>3, <1>5, OneJobChanges DEF IInv
<1>8. TypeOK'
  BY <1>2, <1>7 DEF IInv, TypeOK
<1>9. JobsAreSound'
  <2>1. JobInv(t, j)
    BY <1>3, <1>4, <1>5 DEF JobInv, Steps, Assigning, Assigns, Offers
  <2> QED
    BY <2>1, <1>3, <1>7, JobsStaySound DEF IInv
<1>10. VideoIsAsked' /\ SlotsAreDistinct'
  BY <1>2, UnchangedOwners, DistinctStays DEF IInv, VideoIsAsked
<1>11. SubscriptionsAreServed'
  <2>1. ASSUME NEW s \in Peers \ closed', NEW q \in asked'[s]
        PROVE  /\ q \in asked[s]
               /\ q \in pending[s] \/ SlotsOf(s, q, "video") # {} => Served(s, q)'
               /\ t = <<"worker", s>> /\ (q \in Worker(s).todo \/ Binds(Worker(s), q)) => Served(s, q)'
               /\ t # <<"client", s>>
    <3>1. q \in pending[s] \/ SlotsOf(s, q, "video") # {} => Served(s, q)'
      BY <1>2 DEF Served, SlotsOf
    <3>2. ASSUME s = p, q \in Worker(s).todo \/ Binds(Worker(s), q)
          PROVE  Served(s, q)'
      <4>1. q \in Worker(p).todo
        BY <3>2, <1>2 DEF Binds, Assigning
      <4>2. q \in j.todo \/ (Assigning(j) /\ j.pub = q)
        BY <4>1, <1>5 DEF Assigning
      <4>3. Worker(s)' = j
        BY <3>2, <1>7 DEF Worker
      <4> QED
        BY <4>2, <4>3 DEF Served, Binds
    <3> QED
      BY <3>1, <3>2, <1>2
  <2> QED
    BY <2>1, <1>2, <1>3, <1>7, SubscriptionsStayServed DEF IInv
<1> QED
  BY <1>8, <1>9, <1>10, <1>11 DEF IInv

\* The kinds that were stopped are released by everybody, and nobody asks for them any more.
LEMMA OfferEndsKeeps ==
    ASSUME Assumptions, IInv, NEW p \in Peers, OfferEnds(p)
    PROVE  IInv'
<1> DEFINE t == <<"worker", p>>
           stopped == (Worker(p).want \ active[p]) \ {"audio"}
<1>1. /\ Worker(p).at = "next" /\ Worker(p).todo = {}
      /\ slots' = [q \in Peers |-> IF q \in room \ {p} THEN Released(slots, q, p, stopped)[q] ELSE slots[q]]
      /\ asked' = [q \in Peers |-> IF stopped # {} /\ q \in room THEN asked[q] \ {p} ELSE asked[q]]
      /\ jobs' = [jobs EXCEPT ![t] = Rest]
      /\ UNCHANGED <<room, closed, active, remote, flowing, fanouts, alive, ready, pending, events>>
  BY DEF OfferEnds, At, Worker, Rests
<1> HIDE DEF stopped
<1>2. t \in Threads
  BY WorkersJob DEF IInv
<1>3. jobs' \in [Threads -> Job] /\ jobs'[t] = Rest /\ Alone(t)
  BY <1>1, <1>2, RestIsJob, OneJobChanges DEF IInv
<1>4. slots \in SlotTable
  BY DEF IInv, TypeOK, SlotTable
<1>5. slots' \in SlotTable
  <2>1. \A q \in Peers : Released(slots, q, p, stopped) \in SlotTable
    BY <1>4, ReleasedFacts
  <2> DEFINE Rows == [Kinds -> [Slots -> [owner : Peers \cup {None}, src : 0 .. MaxTracks, live : BOOLEAN]]]
  <2>2. SlotTable = [Peers -> Rows]
    BY DEF SlotTable
  <2> HIDE DEF Rows
  <2>3. \A q \in Peers : Released(slots, q, p, stopped)[q] \in Rows /\ slots[q] \in Rows
    BY <2>1, <2>2, <1>4
  <2>4. slots' \in [Peers -> Rows]
    BY <1>1, <2>3
  <2> QED
    BY <2>2, <2>4
<1>6. \A q \in Peers, k \in Kinds, i \in Slots :
        slots'[q][k][i] = IF q \in room \ {p} /\ k \in stopped /\ slots[q][k][i].owner = p
                          THEN Free ELSE slots[q][k][i]
  <2> TAKE q \in Peers, k \in Kinds, i \in Slots
  <2>1. Released(slots, q, p, stopped)[q][k][i] =
          IF k \in stopped /\ slots[q][k][i].owner = p THEN Free ELSE slots[q][k][i]
    BY <1>4, ReleasedFacts
  <2>2. slots'[q] = IF q \in room \ {p} THEN Released(slots, q, p, stopped)[q] ELSE slots[q]
    BY <1>1
  <2> QED
    BY <2>1, <2>2
<1>7. TypeOK'
  <2>1. asked' \in [Peers -> SUBSET Peers]
    BY <1>1 DEF IInv, TypeOK
  <2> QED
    BY <1>1, <1>3, <1>5, <2>1 DEF IInv, TypeOK, SlotTable
<1>8. JobsAreSound'
  <2>1. JobInv(t, Rest)
    BY DEF JobInv, Steps, Assigning, Offers, Rest
  <2> QED
    BY <2>1, <1>2, <1>3, JobsStaySound DEF IInv
<1>9. VideoIsAsked'
  <2>1. \A s \in Peers : asked'[s] \subseteq asked[s] /\ pending'[s] \subseteq pending[s]
    BY <1>1 DEF IInv, TypeOK
  <2> QED
    BY <2>1, VideoStaysAsked DEF IInv
<1>10. SlotsAreDistinct'
  BY <1>6, DistinctIfReleased DEF IInv, Free
<1>11. SubscriptionsAreServed'
  <2>1. ASSUME NEW s \in Peers \ closed', NEW q \in asked'[s]
        PROVE  /\ q \in asked[s]
               /\ q \in pending[s] \/ SlotsOf(s, q, "video") # {} => Served(s, q)'
               /\ ~ (t = <<"worker", s>> /\ (q \in Worker(s).todo \/ Binds(Worker(s), q)))
               /\ t # <<"client", s>>
    <3>1. q \in asked[s] /\ (s \in room /\ q = p => stopped = {})
      BY <1>1
    <3>2. "video" \in Kinds
      BY <3>1 DEF IInv, VideoIsAsked
    <3>3. SlotsOf(s, q, "video") \subseteq SlotsOf(s, q, "video")'
      <4>1. ASSUME NEW i \in Slots, slots[s]["video"][i].owner = q
            PROVE  slots'[s]["video"][i].owner = q
        BY <4>1, <3>1, <3>2, <1>6
      <4> QED
        BY <4>1 DEF SlotsOf
    <3> QED
      BY <3>1, <3>3, <1>1 DEF Served, Binds, Assigning
  <2> QED
    BY <2>1, <1>1, <1>2, <1>3, SubscriptionsStayServed DEF IInv
<1> QED
  BY <1>7, <1>8, <1>9, <1>10, <1>11 DEF IInv

-----------------------------------------------------------------------------
(***************************************************************************)
(* Subscriptions.                                                          *)
(***************************************************************************)
LEMMA SubscribeKeeps ==
    ASSUME Assumptions, IInv, NEW s \in Peers, NEW p \in Peers, Subscribe(s, p)
    PROVE  IInv'
<1> DEFINE t == <<"client", s>>
           j == [Rest EXCEPT !.at = "track", !.sub = s, !.pub = p]
<1>1. /\ Event /\ Client(s).at = "rest"
      /\ "video" \in Kinds
      /\ asked' = [asked EXCEPT ![s] = @ \cup {p}]
      /\ UNCHANGED <<room, closed, active, remote, flowing, fanouts, alive, ready, slots>>
  BY DEF Subscribe, At, Client, TrackOf
<1>2. \/ jobs' = [jobs EXCEPT ![t] = j] /\ pending' = pending
      \/ jobs' = jobs /\ pending' = [pending EXCEPT ![s] = @ \cup {p}]
  BY DEF Subscribe
<1>3. t \in Threads
  BY ThreadNames
<1>4. j \in Job /\ j.at = "track" /\ j.sub = s /\ j.pub = p
  BY RestIsJob DEF Job
<1> HIDE DEF j
<1>5. jobs' \in [Threads -> Job] /\ (jobs'[t] = j \/ jobs' = jobs) /\ Alone(t)
  <2>1. CASE jobs' = [jobs EXCEPT ![t] = j]
    BY <2>1, <1>3, <1>4, OneJobChanges DEF IInv
  <2>2. CASE jobs' = jobs
    BY <2>2 DEF Alone, Same, IInv, TypeOK
  <2> QED
    BY <2>1, <2>2, <1>2
<1>6. TypeOK'
  <2>1. asked' \in [Peers -> SUBSET Peers] /\ pending' \in [Peers -> SUBSET Peers]
    <3>1. asked \in [Peers -> SUBSET Peers] /\ pending \in [Peers -> SUBSET Peers]
      BY DEF IInv, TypeOK
    <3>2. asked[s] \cup {p} \in SUBSET Peers /\ pending[s] \cup {p} \in SUBSET Peers
      BY <3>1
    <3> QED
      BY <3>1, <3>2, <1>1, <1>2
  <2>2. events' \in 0 .. MaxEvents
    BY <1>1, Constants DEF IInv, TypeOK, Event
  <2> QED
    BY <1>1, <1>5, <2>1, <2>2 DEF IInv, TypeOK
<1>7. JobsAreSound'
  <2>1. JobInv(t, j)
    BY <1>1, <1>4 DEF JobInv, Steps, Assigning, Assigns
  <2>2. CASE jobs' = jobs
    BY <2>2 DEF IInv, JobsAreSound
  <2>3. CASE jobs'[t] = j
    BY <2>1, <2>3, <1>3, <1>5, JobsStaySound DEF IInv
  <2> QED
    BY <1>5, <2>2, <2>3
<1>8. VideoIsAsked'
  BY <1>1 DEF VideoIsAsked
<1>9. SlotsAreDistinct'
  BY <1>1, UnchangedOwners, DistinctStays DEF IInv
<1>10. SubscriptionsAreServed'
  <2> SUFFICES ASSUME NEW r \in Peers \ closed', NEW q \in asked'[r]
               PROVE  Served(r, q)'
    BY DEF SubscriptionsAreServed
  <2>1. CASE r = s /\ q = p
    <3>1. p \in pending'[s] \/ jobs'[t] = j
      BY <1>2, <1>3, <1>4, OneJobChanges DEF IInv, TypeOK
    <3> QED
      BY <3>1, <2>1, <1>4 DEF Served, Client, Binds, Assigning
  <2>2. CASE ~ (r = s /\ q = p)
    <3>1. q \in asked[r] /\ r \in Peers \ closed
      BY <2>2, <1>1 DEF IInv, TypeOK
    <3>2. Served(r, q)
      BY <3>1 DEF IInv, SubscriptionsAreServed
    <3>3. SlotsOf(r, q, "video")' = SlotsOf(r, q, "video") /\ pending[r] \subseteq pending'[r]
      BY <1>1, <1>2 DEF SlotsOf, IInv, TypeOK
    <3>4. /\ <<"worker", r>> \in Threads \ {t} /\ <<"client", r>> \in Threads
          /\ Same(jobs'[<<"worker", r>>], jobs[<<"worker", r>>])
      BY <1>5, ThreadNames DEF Alone
    <3>5. ~ Binds(Client(s), q)
      BY <1>1 DEF Binds, Assigning
    <3>6. r # s => Same(jobs'[<<"client", r>>], jobs[<<"client", r>>])
      BY <1>5, <3>4 DEF Alone
    <3> QED
      BY <3>2, <3>3, <3>4, <3>5, <3>6 DEF Served, Worker, Client, Binds, Assigning, Same
  <2> QED
    BY <2>1, <2>2
<1> QED
  BY <1>6, <1>7, <1>8, <1>9, <1>10 DEF IInv

LEMMA UnsubscribeKeeps ==
    ASSUME Assumptions, IInv, NEW s \in Peers, NEW p \in Peers, Unsubscribe(s, p)
    PROVE  IInv'
<1>1. /\ Event
      /\ asked' = [asked EXCEPT ![s] = @ \ {p}]
      /\ pending' = [pending EXCEPT ![s] = @ \ {p}] \/ pending' = pending
      /\ slots' = Released(slots, s, p, {"video"}) \/ slots' = slots
      /\ UNCHANGED <<room, closed, active, remote, flowing, fanouts, alive, ready, jobs>>
  BY DEF Unsubscribe
<1>2. slots \in SlotTable
  BY DEF IInv, TypeOK, SlotTable
<1>3. /\ slots' \in SlotTable
      /\ \A q \in Peers, k \in Kinds, i \in Slots :
           \/ slots'[q][k][i] = slots[q][k][i]
           \/ q = s /\ slots[q][k][i].owner = p /\ slots'[q][k][i] = Free
  <2>1. CASE slots' = slots
    BY <2>1, <1>2
  <2>2. CASE slots' = Released(slots, s, p, {"video"})
    BY <2>2, <1>2, ReleasedFacts
  <2> QED
    BY <2>1, <2>2, <1>1
<1>4. TypeOK'
  <2>1. asked' \in [Peers -> SUBSET Peers] /\ pending' \in [Peers -> SUBSET Peers]
    <3>1. asked \in [Peers -> SUBSET Peers] /\ pending \in [Peers -> SUBSET Peers]
      BY DEF IInv, TypeOK
    <3>2. asked[s] \ {p} \in SUBSET Peers /\ pending[s] \ {p} \in SUBSET Peers
      BY <3>1
    <3> QED
      BY <3>1, <3>2, <1>1
  <2>2. events' \in 0 .. MaxEvents
    BY <1>1, Constants DEF IInv, TypeOK, Event
  <2> QED
    BY <1>1, <1>3, <2>1, <2>2 DEF IInv, TypeOK, SlotTable
<1>5. JobsAreSound'
  BY <1>1 DEF IInv, JobsAreSound
<1>6. VideoIsAsked'
  <2>1. \A r \in Peers : asked'[r] \subseteq asked[r] /\ pending'[r] \subseteq pending[r]
    BY <1>1 DEF IInv, TypeOK
  <2> QED
    BY <2>1, VideoStaysAsked DEF IInv
<1>7. SlotsAreDistinct'
  BY <1>3, DistinctIfReleased DEF IInv, Free
<1>8. SubscriptionsAreServed'
  <2> SUFFICES ASSUME NEW r \in Peers \ closed', NEW q \in asked'[r]
               PROVE  Served(r, q)'
    BY DEF SubscriptionsAreServed
  <2>1. q \in asked[r] /\ ~ (r = s /\ q = p) /\ r \in Peers \ closed
    BY <1>1 DEF IInv, TypeOK
  <2>2. Served(r, q) /\ "video" \in Kinds
    BY <2>1 DEF IInv, SubscriptionsAreServed, VideoIsAsked
  <2>3. SlotsOf(r, q, "video") \subseteq SlotsOf(r, q, "video")'
    <3>1. ASSUME NEW i \in Slots, slots[r]["video"][i].owner = q
          PROVE  slots'[r]["video"][i].owner = q
      BY <3>1, <2>1, <2>2, <1>3
    <3> QED
      BY <3>1 DEF SlotsOf
  <2>4. q \in pending[r] => q \in pending'[r]
    BY <2>1, <1>1 DEF IInv, TypeOK
  <2> QED
    BY <2>2, <2>3, <2>4, <1>1 DEF Served, Worker, Client
<1> QED
  BY <1>4, <1>5, <1>6, <1>7, <1>8 DEF IInv

\* Only a client and a worker assign, and for their own peer.
LEMMA AssignersJob ==
    ASSUME TypeOK, JobsAreSound, NEW t \in Threads, Assigning(jobs[t])
    PROVE  /\ t[1] \in {"client", "worker"} /\ t[2] \in Peers /\ t = <<t[1], t[2]>>
           /\ jobs[t] \in Job /\ jobs[t].sub \in Peers /\ jobs[t].sub = t[2] /\ jobs[t].pub \in Peers
           /\ jobs[t].at # "track" => jobs[t].track # 0
           /\ jobs[t].track \in 0 .. MaxTracks
           /\ "video" \in Kinds
           /\ t[1] = "worker" => Offers(jobs[t])
<1>1. jobs[t] \in Job /\ JobInv(t, jobs[t])
  BY DEF TypeOK, JobsAreSound
<1>2. t[1] \in {"client", "worker"}
  <2>1. jobs[t].at \in Steps(t[1]) /\ jobs[t].at \in {"track", "fanout", "slot"}
    BY <1>1 DEF JobInv, Assigning
  <2>2. t[1] \in {"client", "worker", "track", "leave", "tick"}
    BY ThreadNames
  <2> QED
    BY <2>1, <2>2 DEF Steps
<1>3. t[2] \in Peers /\ t = <<t[1], t[2]>>
  BY <1>2, ThreadNames
<1>4. Assigns(t[2], jobs[t]) /\ (t[1] = "worker" => Offers(jobs[t]))
  BY <1>1 DEF JobInv
<1>5. jobs[t].track \in 0 .. MaxTracks
  BY <1>1 DEF Job
<1> QED
  BY <1>1, <1>2, <1>3, <1>4, <1>5 DEF Assigns

LEMMA DoneIsSound ==
    ASSUME Assumptions, TypeOK, JobsAreSound, NEW t \in Threads, Assigning(jobs[t])
    PROVE  /\ Done(t) \in Job /\ JobInv(t, Done(t)) /\ ~ Assigning(Done(t))
           /\ t[1] = "worker" => Done(t).todo = jobs[t].todo
<1>1. /\ t[1] \in {"client", "worker"} /\ jobs[t] \in Job
      /\ t[1] = "worker" => Offers(jobs[t])
  BY AssignersJob
<1>2. CASE t[1] = "worker"
  <2>1. /\ Done(t) \in Job /\ Done(t).at = "next" /\ Done(t).todo = jobs[t].todo
        /\ Done(t).want = jobs[t].want
    BY <1>1, <1>2 DEF Done, Job
  <2>2. JobInv(t, Done(t))
    BY <2>1, <1>1, <1>2 DEF JobInv, Steps, Assigning, Offers
  <2> QED
    BY <2>1, <2>2 DEF Assigning
<1>3. CASE t[1] = "client"
  <2>1. Done(t) = Rest
    BY <1>3 DEF Done
  <2>2. JobInv(t, Rest)
    BY <1>3 DEF JobInv, Steps, Assigning, Rest
  <2> QED
    BY <2>1, <2>2, <1>3, RestIsJob DEF Assigning
<1> QED
  BY <1>1, <1>2, <1>3

\* A subscription that ends has its slot, is refused, or is of a peer that left.
LEMMA DoneKeepsServed ==
    ASSUME Assumptions, IInv, NEW t \in Threads, Assigning(jobs[t]),
           NEW sub, NEW pub, sub = jobs[t].sub, pub = jobs[t].pub,
           jobs' = [jobs EXCEPT ![t] = Done(t)], pending' = pending, closed' = closed,
           \A s \in Peers : asked'[s] \subseteq asked[s],
           \A s \in Peers : \A p \in asked'[s] :
              SlotsOf(s, p, "video") # {} => SlotsOf(s, p, "video")' # {},
           sub \in closed \/ pub \notin asked'[sub] \/ SlotsOf(sub, pub, "video")' # {}
    PROVE  JobsAreSound' /\ SubscriptionsAreServed' /\ jobs' \in [Threads -> Job]
<1> DEFINE j == jobs[t]
<1>1. /\ Done(t) \in Job /\ JobInv(t, Done(t))
      /\ t[1] = "worker" => Done(t).todo = jobs[t].todo
  BY DoneIsSound DEF IInv
<1>2. jobs' \in [Threads -> Job] /\ jobs'[t] = Done(t) /\ Alone(t)
  BY <1>1, OneJobChanges DEF IInv
<1>3. JobsAreSound'
  BY <1>1, <1>2, JobsStaySound DEF IInv
<1>4. j.sub = t[2]
  BY AssignersJob DEF IInv
<1>5. ASSUME NEW s \in Peers \ closed', NEW q \in asked'[s]
      PROVE  /\ q \in asked[s]
             /\ q \in pending[s] \/ SlotsOf(s, q, "video") # {} => Served(s, q)'
             /\ t = <<"worker", s>> /\ (q \in Worker(s).todo \/ Binds(Worker(s), q)) => Served(s, q)'
             /\ t = <<"client", s>> /\ Binds(Client(s), q) => Served(s, q)'
  <2>1. q \in asked[s]
    OBVIOUS
  <2>2. q \in pending[s] \/ SlotsOf(s, q, "video") # {} => Served(s, q)'
    BY DEF Served
  <2>3. ASSUME t[2] = s, j.pub = q
        PROVE  Served(s, q)'
    BY <2>3, <1>4 DEF Served
  <2>4. ASSUME t = <<"worker", s>>, q \in Worker(s).todo
        PROVE  Served(s, q)'
    <3>1. q \in Worker(s)'.todo
      BY <2>4, <1>1, <1>2 DEF Worker
    <3> QED
      BY <3>1 DEF Served
  <2> QED
    BY <2>1, <2>2, <2>3, <2>4 DEF Worker, Client, Binds
<1>6. SubscriptionsAreServed'
  BY <1>2, <1>5, SubscriptionsStayServed DEF IInv
<1> QED
  BY <1>2, <1>3, <1>6

LEMMA AssignTrackKeeps ==
    ASSUME Assumptions, IInv, NEW t \in Threads, AssignTrack(t)
    PROVE  IInv'
<1> DEFINE j == jobs[t]
           track == TrackOf(j.pub, "video")
<1>1. /\ j.at = "track"
      /\ \/ /\ jobs' = [jobs EXCEPT ![t] = Done(t)]
            /\ asked' = [asked EXCEPT ![j.sub] = @ \ {j.pub}]
         \/ /\ track # 0
            /\ jobs' = [jobs EXCEPT ![t].at = "fanout", ![t].track = track]
            /\ asked' = asked
      /\ UNCHANGED <<room, closed, active, remote, flowing, fanouts, alive, ready, slots, pending, events>>
  BY DEF AssignTrack, At
<1>2. Assigning(j)
  BY <1>1 DEF Assigning
<1>3. /\ t = <<t[1], t[2]>> /\ t[1] \in {"client", "worker"} /\ j \in Job /\ j.sub \in Peers
      /\ j.sub = t[2] /\ j.pub \in Peers /\ "video" \in Kinds
      /\ t[1] = "worker" => Offers(j)
  BY <1>2, AssignersJob DEF IInv
<1>4. /\ asked' \in [Peers -> SUBSET Peers]
      /\ \A s \in Peers : asked'[s] \subseteq asked[s] /\ pending'[s] = pending[s]
  <2>1. asked \in [Peers -> SUBSET Peers]
    BY DEF IInv, TypeOK
  <2> QED
    BY <2>1, <1>1, <1>3
<1>5. VideoIsAsked' /\ SlotsAreDistinct'
  BY <1>1, <1>4, VideoStaysAsked, UnchangedOwners, DistinctStays DEF IInv
<1>6. \A s \in Peers, p \in Peers : SlotsOf(s, p, "video")' = SlotsOf(s, p, "video")
  BY <1>1 DEF SlotsOf
<1>7. CASE jobs' = [jobs EXCEPT ![t] = Done(t)] /\ asked' = [asked EXCEPT ![j.sub] = @ \ {j.pub}]
  <2>1. j.pub \notin asked'[j.sub]
    BY <1>7, <1>3 DEF IInv, TypeOK
  <2>2. \A s \in Peers : \A p \in asked'[s] : p \in Peers
    BY <1>4
  <2>3. JobsAreSound' /\ SubscriptionsAreServed' /\ jobs' \in [Threads -> Job]
    <3>1. PICK sub, pub : sub = jobs[t].sub /\ pub = jobs[t].pub
      OBVIOUS
    <3>2. pub \notin asked'[sub]
      BY <2>1, <3>1
    <3>3. pending' = pending /\ closed' = closed /\ Assigning(jobs[t])
      BY <1>1, <1>2
    <3>4. /\ \A s \in Peers : asked'[s] \subseteq asked[s]
          /\ \A s \in Peers : \A p \in asked'[s] :
               SlotsOf(s, p, "video") # {} => SlotsOf(s, p, "video")' # {}
      BY <2>2, <1>4, <1>6
    <3> QED
      BY <3>1, <3>2, <3>3, <3>4, <1>7, DoneKeepsServed
  <2>4. TypeOK'
    BY <1>1, <1>4, <2>3 DEF IInv, TypeOK
  <2> QED
    BY <2>3, <2>4, <1>5 DEF IInv
<1>8. CASE /\ track # 0
           /\ jobs' = [jobs EXCEPT ![t].at = "fanout", ![t].track = track]
           /\ asked' = asked
  <2> DEFINE i == [j EXCEPT !.at = "fanout", !.track = track]
  <2>1. track \in 0 .. MaxTracks
    BY <1>3, Constants DEF TrackOf, IInv, TypeOK
  <2>2. /\ i \in Job /\ i.at = "fanout" /\ i.track = track /\ i.sub = j.sub /\ i.pub = j.pub
        /\ i.todo = j.todo /\ i.want = j.want
    <3> HIDE DEF track
    <3> QED
      BY <2>1, <1>3 DEF Job
  <2>3. jobs' = [jobs EXCEPT ![t] = i]
    BY <1>8 DEF IInv, TypeOK
  <2> HIDE DEF i, track
  <2>4. jobs' \in [Threads -> Job] /\ jobs'[t] = i /\ Alone(t)
    BY <2>2, <2>3, OneJobChanges DEF IInv
  <2>5. JobInv(t, i)
    BY <2>2, <1>3, <1>8 DEF JobInv, Steps, Assigning, Assigns, Offers
  <2>6. JobsAreSound'
    BY <2>4, <2>5, JobsStaySound DEF IInv
  <2>7. TypeOK'
    BY <1>1, <1>4, <2>4 DEF IInv, TypeOK
  <2>8. SubscriptionsAreServed'
    <3>1. ASSUME NEW s \in Peers \ closed', NEW q \in asked'[s]
          PROVE  /\ q \in asked[s]
                 /\ q \in pending[s] \/ SlotsOf(s, q, "video") # {} => Served(s, q)'
                 /\ t = <<"worker", s>> /\ (q \in Worker(s).todo \/ Binds(Worker(s), q)) => Served(s, q)'
                 /\ t = <<"client", s>> /\ Binds(Client(s), q) => Served(s, q)'
      <4>1. q \in Peers /\ q \in asked[s]
        BY <1>4, <1>8
      <4> QED
        BY <4>1, <1>1, <1>2, <1>6, <2>2, <2>4 DEF Served, Worker, Client, Binds, Assigning
    <3> QED
      BY <3>1, <1>1, <2>4, SubscriptionsStayServed DEF IInv
  <2> QED
    BY <2>6, <2>7, <2>8, <1>5 DEF IInv
<1> QED
  BY <1>1, <1>7, <1>8

\* Getting a fan-out from its publisher changes only what is held and who delivers.
LEMMA FanoutForKeeps ==
    ASSUME Assumptions, IInv, NEW t \in Threads, NEW p \in Peers, NEW k \in Kinds,
           NEW track \in 0 .. MaxTracks, track # 0, NEW next \in Job, FanoutFor(t, p, k, track, next),
           UNCHANGED <<room, closed, active, remote, flowing, ready, pending, asked, events>>,
           JobInv(t, next),
           t[1] = "worker" => next.todo = jobs[t].todo,
           \A q : Binds(jobs[t], q) => Binds(next, q)
    PROVE  IInv'
<1>1. /\ jobs' \in [Threads -> Job]
      /\ Same(jobs'[t], next)
      /\ Alone(t)
      /\ fanouts' \in [Peers -> [Kinds -> 0 .. MaxTracks]]
      /\ alive' \subseteq {pk \in Peers \X Kinds : fanouts'[pk[1]][pk[2]] # 0}
      /\ slots' \in SlotTable /\ SameOwners(slots', slots)
  BY FanoutForFacts DEF IInv, Alone
<1>2. TypeOK'
  BY <1>1 DEF IInv, TypeOK, SlotTable
<1>3. JobsAreSound'
  <2>1. JobInv(t, jobs'[t])
    BY <1>1, SameIsSound
  <2> QED
    BY <2>1, <1>1, JobsStaySound DEF IInv
<1>4. VideoIsAsked' /\ SlotsAreDistinct'
  BY <1>1, DistinctStays DEF IInv, VideoIsAsked
<1>5. SubscriptionsAreServed'
  <2>1. ASSUME NEW s \in Peers \ closed', NEW q \in asked'[s]
        PROVE  /\ q \in asked[s]
               /\ q \in pending[s] \/ SlotsOf(s, q, "video") # {} => Served(s, q)'
               /\ t = <<"worker", s>> /\ (q \in Worker(s).todo \/ Binds(Worker(s), q)) => Served(s, q)'
               /\ t = <<"client", s>> /\ Binds(Client(s), q) => Served(s, q)'
    <3>1. q \in asked[s] /\ "video" \in Kinds
      BY DEF IInv, VideoIsAsked
    <3>2. SlotsOf(s, q, "video")' = SlotsOf(s, q, "video")
      BY <1>1, <3>1, SlotsOfKept
    <3>3. ASSUME t = <<"worker", s>>, q \in Worker(s).todo
          PROVE  q \in Worker(s)'.todo
      BY <3>3, <1>1 DEF Worker, Same
    <3>4. ASSUME t = <<"worker", s>>, Binds(Worker(s), q)
          PROVE  Binds(Worker(s)', q)
      <4>1. Binds(next, q)
        BY <3>4 DEF Worker
      <4> QED
        BY <4>1, <3>4, <1>1 DEF Worker, Same, Binds, Assigning
    <3>5. ASSUME t = <<"client", s>>, Binds(Client(s), q)
          PROVE  Binds(Client(s)', q)
      <4>1. Binds(next, q)
        BY <3>5 DEF Client
      <4> QED
        BY <4>1, <3>5, <1>1 DEF Client, Same, Binds, Assigning
    <3> QED
      BY <3>1, <3>2, <3>3, <3>4, <3>5 DEF Served
  <2> QED
    BY <2>1, <1>1, SubscriptionsStayServed DEF IInv
<1> QED
  BY <1>2, <1>3, <1>4, <1>5 DEF IInv

LEMMA AssignFanoutKeeps ==
    ASSUME Assumptions, IInv, NEW t \in Threads, AssignFanout(t)
    PROVE  IInv'
<1> DEFINE j == jobs[t]
           next == [j EXCEPT !.at = "slot"]
<1>1. /\ j.at = "fanout"
      /\ FanoutFor(t, j.pub, "video", j.track, next)
      /\ UNCHANGED <<room, closed, active, remote, flowing, ready, pending, asked, events>>
  BY DEF AssignFanout, At
<1>2. Assigning(j)
  BY <1>1 DEF Assigning
<1>3. /\ t[1] \in {"client", "worker"} /\ j \in Job /\ j.sub \in Peers
      /\ j.sub = t[2] /\ j.pub \in Peers /\ "video" \in Kinds
      /\ j.track # 0 /\ j.track \in 0 .. MaxTracks
      /\ t[1] = "worker" => Offers(j)
  BY <1>1, <1>2, AssignersJob DEF IInv
<1>4. /\ next \in Job /\ next.at = "slot" /\ next.track = j.track /\ next.sub = j.sub /\ next.pub = j.pub
      /\ next.todo = j.todo /\ next.want = j.want
  BY <1>3 DEF Job
<1> HIDE DEF next
<1>5. JobInv(t, next)
  BY <1>1, <1>3, <1>4 DEF JobInv, Steps, Assigning, Assigns, Offers
<1>6. \A q : Binds(j, q) => Binds(next, q)
  BY <1>4 DEF Binds, Assigning
<1> QED
  BY <1>1, <1>3, <1>4, <1>5, <1>6, FanoutForKeeps

\* The slot that is bound had this publisher, or nobody had one of the publisher's.
LEMMA AssignSlotKeeps ==
    ASSUME Assumptions, IInv, NEW t \in Threads, AssignSlot(t)
    PROVE  IInv'
<1>1. PICK s, p, track :
        s = jobs[t].sub /\ p = jobs[t].pub /\ track = jobs[t].track
  OBVIOUS
<1> DEFINE mine == SlotsOf(s, p, "video")
           free == SlotsOf(s, None, "video")
           found == s \notin closed /\ mine \cup free # {}
<1>2. PICK slot : slot = First(IF mine # {} THEN mine ELSE free)
  OBVIOUS
<1>3. PICK bound : bound = Bound(t, p, "video", track)
  OBVIOUS
<1>4. /\ jobs[t].at = "slot"
      /\ slots' = IF found THEN [slots EXCEPT ![s]["video"][slot] = bound] ELSE slots
      /\ asked' = IF found THEN asked ELSE [asked EXCEPT ![s] = @ \ {p}]
      /\ jobs' = [jobs EXCEPT ![t] = Done(t)]
      /\ UNCHANGED <<room, closed, active, remote, flowing, fanouts, alive, ready, pending, events>>
  BY <1>1, <1>2, <1>3 DEF AssignSlot, At
<1>5. Assigning(jobs[t])
  BY <1>4 DEF Assigning
<1>6. s \in Peers /\ p \in Peers /\ track \in 0 .. MaxTracks /\ "video" \in Kinds
  BY <1>1, <1>5, AssignersJob DEF IInv
<1>7. /\ bound \in [owner : Peers \cup {None}, src : 0 .. MaxTracks, live : BOOLEAN]
      /\ bound.owner = p
  BY <1>3, <1>6 DEF Bound
<1>8. CASE found
  <2>1. slot \in (IF mine # {} THEN mine ELSE free)
    <3>1. mine \in SUBSET Slots /\ free \in SUBSET Slots
      BY DEF SlotsOf
    <3> HIDE DEF mine, free
    <3> QED
      BY <3>1, <1>2, <1>8, FirstIsOne
  <2>2. slot \in Slots /\ slots[s]["video"][slot].owner \in {p, None}
    BY <2>1 DEF SlotsOf
  <2>3. \A i \in Slots : slots[s]["video"][i].owner = p => slots[s]["video"][slot].owner = p
    BY <2>1 DEF SlotsOf
  <2>4. slots \in SlotTable /\ slots' = [slots EXCEPT ![s]["video"][slot] = bound]
    BY <1>4, <1>8 DEF IInv, TypeOK, SlotTable
  <2>5. /\ slots' \in SlotTable
        /\ \A q \in Peers, k \in Kinds, i \in Slots :
             slots'[q][k][i] = IF q = s /\ k = "video" /\ i = slot THEN bound ELSE slots[q][k][i]
    <3> DEFINE Slot == [owner : Peers \cup {None}, src : 0 .. MaxTracks, live : BOOLEAN]
    <3>1. bound \in Slot /\ slots \in [Peers -> [Kinds -> [Slots -> Slot]]]
      BY <1>7, <2>4 DEF SlotTable
    <3>2. slots' \in [Peers -> [Kinds -> [Slots -> Slot]]]
      <4> HIDE DEF Slot
      <4> QED
        BY <3>1, <2>2, <2>4, <1>6
    <3>3. \A q \in Peers, k \in Kinds, i \in Slots :
             slots'[q][k][i] = IF q = s /\ k = "video" /\ i = slot THEN bound ELSE slots[q][k][i]
      <4> HIDE DEF Slot
      <4> QED
        BY <3>1, <2>2, <2>4, <1>6
    <3> QED
      BY <3>2, <3>3 DEF SlotTable
  <2>6. SlotsAreDistinct'
    <3> SUFFICES ASSUME NEW q \in Peers, NEW k \in Kinds, NEW i \in Slots, NEW j \in Slots,
                        slots'[q][k][i].owner = slots'[q][k][j].owner, slots'[q][k][i].owner # None
                 PROVE  i = j
      BY DEF SlotsAreDistinct, Distinct
    <3>1. Distinct(slots[q][k])
      BY DEF IInv, SlotsAreDistinct
    <3>2. CASE ~ (q = s /\ k = "video")
      BY <3>1, <3>2, <2>5 DEF Distinct
    <3>3. CASE q = s /\ k = "video"
      BY <3>1, <3>3, <2>2, <2>3, <2>5, <1>6, <1>7, Constants DEF Distinct
    <3> QED
      BY <3>2, <3>3
  <2>7. \A r \in Peers : asked'[r] = asked[r]
    BY <1>4, <1>8
  <2>8. \A r \in Peers : \A q \in asked'[r] :
          SlotsOf(r, q, "video") # {} => SlotsOf(r, q, "video")' # {}
    <3> TAKE r \in Peers
    <3> TAKE q \in asked'[r]
    <3>1. q \in Peers
      BY <2>7 DEF IInv, TypeOK
    <3>2. ASSUME NEW i \in Slots, slots[r]["video"][i].owner = q
          PROVE  slots'[r]["video"][i].owner = q
      BY <3>1, <3>2, <2>2, <2>5, <1>6, <1>7, Constants
    <3> QED
      BY <3>2 DEF SlotsOf
  <2>9. SlotsOf(s, p, "video")' # {}
    <3>1. slots'[s]["video"][slot].owner = p
      BY <2>2, <2>5, <1>6, <1>7
    <3> QED
      BY <3>1, <2>2 DEF SlotsOf
  <2>10. JobsAreSound' /\ SubscriptionsAreServed' /\ jobs' \in [Threads -> Job]
    <3>1. pending' = pending /\ closed' = closed /\ \A r \in Peers : asked'[r] \subseteq asked[r]
      BY <1>4, <2>7
    <3> QED
      BY <3>1, <2>8, <2>9, <1>1, <1>4, <1>5, DoneKeepsServed
  <2>11. TypeOK'
    BY <1>4, <1>8, <2>5, <2>10 DEF IInv, TypeOK, SlotTable
  <2>12. VideoIsAsked'
    BY <1>4, <1>8 DEF IInv, VideoIsAsked
  <2> QED
    BY <2>6, <2>10, <2>11, <2>12 DEF IInv
<1>9. CASE ~ found
  <2>1. slots' = slots /\ asked' = [asked EXCEPT ![s] = @ \ {p}]
    BY <1>4, <1>9
  <2>2. /\ asked' \in [Peers -> SUBSET Peers] /\ p \notin asked'[s]
        /\ \A r \in Peers : asked'[r] \subseteq asked[r]
    <3>1. asked \in [Peers -> SUBSET Peers]
      BY DEF IInv, TypeOK
    <3> QED
      BY <3>1, <2>1, <1>6
  <2>3. JobsAreSound' /\ SubscriptionsAreServed' /\ jobs' \in [Threads -> Job]
    <3>1. /\ pending' = pending /\ closed' = closed
          /\ \A r \in Peers : \A q \in asked'[r] :
               SlotsOf(r, q, "video") # {} => SlotsOf(r, q, "video")' # {}
      BY <1>4, <2>1 DEF SlotsOf
    <3> QED
      BY <3>1, <2>2, <1>1, <1>4, <1>5, DoneKeepsServed
  <2>4. TypeOK'
    BY <1>4, <2>1, <2>2, <2>3 DEF IInv, TypeOK
  <2>5. VideoIsAsked' /\ SlotsAreDistinct'
    BY <1>4, <2>1, <2>2, VideoStaysAsked, UnchangedOwners, DistinctStays DEF IInv
  <2> QED
    BY <2>3, <2>4, <2>5 DEF IInv
<1> QED
  BY <1>8, <1>9

-----------------------------------------------------------------------------
(***************************************************************************)
(* Tracks.                                                                 *)
(***************************************************************************)
LEMMA TrackersJob ==
    ASSUME TypeOK, JobsAreSound, NEW p \in Peers
    PROVE  /\ <<"track", p>> \in Threads /\ jobs[<<"track", p>>] \in Job
           /\ jobs[<<"track", p>>].at \in Steps("track") /\ Tracks(jobs[<<"track", p>>])
<1> DEFINE t == <<"track", p>>
<1>1. t \in Threads /\ t[1] = "track"
  BY ThreadNames
<1>2. jobs[t] \in Job /\ JobInv(t, jobs[t])
  BY <1>1 DEF TypeOK, JobsAreSound
<1> QED
  BY <1>1, <1>2 DEF JobInv

\* A step that binds no subscription, and takes no slot from anybody.
LEMMA OtherStepKeeps ==
    ASSUME IInv, NEW t \in Threads, t[1] \notin {"client", "worker"}, Alone(t), JobInv(t, jobs'[t]),
           TypeOK', SameOwners(slots', slots), closed \subseteq closed', pending' = pending, asked' = asked
    PROVE  IInv'
<1>1. JobsAreSound'
  BY JobsStaySound DEF IInv
<1>2. VideoIsAsked' /\ SlotsAreDistinct'
  BY DistinctStays DEF IInv, VideoIsAsked
<1>3. \A s \in Peers : \A p \in asked'[s] : SlotsOf(s, p, "video") # {} => SlotsOf(s, p, "video")' # {}
  <2> TAKE s \in Peers
  <2> TAKE p \in asked'[s]
  <2>1. "video" \in Kinds
    BY DEF IInv, VideoIsAsked
  <2> QED
    BY <2>1, SlotsOfKept
<1>4. SubscriptionsAreServed'
  BY <1>3, OthersLeaveServed DEF IInv
<1> QED
  BY <1>1, <1>2, <1>4 DEF IInv

LEMMA IncomingTrackKeeps ==
    ASSUME Assumptions, IInv, NEW p \in Peers, IncomingTrack(p)
    PROVE  IInv'
<1> DEFINE t == <<"track", p>>
<1>1. PICK k \in active[p] :
        /\ Event
        /\ remote[p][k] < MaxTracks
        /\ remote' = [remote EXCEPT ![p][k] = @ + 1]
        /\ flowing' = [flowing EXCEPT ![p] = @ \cup {k}]
        /\ jobs' = [jobs EXCEPT ![t] = [Rest EXCEPT !.at = "replace", !.pub = p, !.kind = k,
                                                    !.track = remote[p][k] + 1,
                                                    !.held = {<<p, k>>} \cap alive]]
        /\ UNCHANGED <<room, closed, active, fanouts, alive, ready, slots, pending, asked>>
  BY DEF IncomingTrack
<1> DEFINE j == [Rest EXCEPT !.at = "replace", !.pub = p, !.kind = k, !.track = remote[p][k] + 1,
                            !.held = {<<p, k>>} \cap alive]
<1>2. k \in Kinds
  BY DEF IInv, TypeOK
<1>3. remote[p][k] + 1 \in 0 .. MaxTracks /\ remote[p][k] + 1 # 0
  BY <1>1, <1>2, Constants DEF IInv, TypeOK
<1>4. /\ j \in Job /\ j.at = "replace" /\ j.kind = k /\ j.track # 0 /\ j.todo = {}
  <2>1. {<<p, k>>} \cap alive \in SUBSET (Peers \X Kinds)
    BY <1>2
  <2> QED
    BY <2>1, <1>2, <1>3, RestIsJob, Constants DEF Job
<1>5. jobs' = [jobs EXCEPT ![t] = j]
  BY <1>1
<1> HIDE DEF j
<1>6. t \in Threads /\ t[1] = "track"
  BY ThreadNames
<1>7. jobs' \in [Threads -> Job] /\ jobs'[t] = j /\ Alone(t)
  BY <1>4, <1>5, <1>6, OneJobChanges DEF IInv
<1>8. JobInv(t, j)
  BY <1>2, <1>4 DEF JobInv, Steps, Assigning, Tracks
<1>9. TypeOK'
  <2>1. remote' \in [Peers -> [Kinds -> 0 .. MaxTracks]] /\ flowing' \in [Peers -> SUBSET Kinds]
    <3>1. remote \in [Peers -> [Kinds -> 0 .. MaxTracks]] /\ flowing \in [Peers -> SUBSET Kinds]
      BY DEF IInv, TypeOK
    <3>2. flowing[p] \cup {k} \in SUBSET Kinds
      BY <3>1, <1>2
    <3> QED
      BY <3>1, <3>2, <1>1, <1>2, <1>3
  <2>2. events' \in 0 .. MaxEvents
    BY <1>1, Constants DEF IInv, TypeOK, Event
  <2> QED
    BY <1>1, <1>7, <2>1, <2>2 DEF IInv, TypeOK
<1> QED
  BY <1>1, <1>6, <1>7, <1>8, <1>9, UnchangedOwners, OtherStepKeeps

LEMMA ReplaceFanoutKeeps ==
    ASSUME Assumptions, IInv, NEW p \in Peers, ReplaceFanout(p)
    PROVE  IInv'
<1> DEFINE t == <<"track", p>>
           k == jobs[t].kind
           next == [jobs[t] EXCEPT !.at = IF k = "audio" THEN "read" ELSE "rebind",
                                   !.todo = IF k = "audio" THEN {} ELSE room \ {p},
                                   !.held = {}]
           kept == <<p, k>> \in jobs[t].held
           js == IF kept THEN Unheld(jobs, p, k) ELSE jobs
<1>1. /\ jobs[t].at = "replace"
      /\ alive' = IF kept THEN alive \ {<<p, k>>} ELSE alive
      /\ slots' = IF kept THEN Cut(slots, p, k) ELSE slots
      /\ jobs' = [js EXCEPT ![t] = next]
      /\ UNCHANGED <<room, closed, active, remote, flowing, fanouts, ready, pending, asked, events>>
  BY DEF ReplaceFanout, At
<1>2. /\ t \in Threads /\ t[1] = "track" /\ jobs[t] \in Job
      /\ k \in Kinds /\ jobs[t].track # 0
  BY <1>1, TrackersJob DEF IInv, Tracks
<1>3. /\ next \in Job /\ next.at = (IF k = "audio" THEN "read" ELSE "rebind")
      /\ next.kind = k /\ next.track # 0 /\ (k = "audio" => next.todo = {})
  <2>1. (IF k = "audio" THEN {} ELSE room \ {p}) \in SUBSET Peers
    BY DEF IInv, TypeOK
  <2> QED
    BY <2>1, <1>2 DEF Job
<1>4. /\ slots \in SlotTable /\ jobs \in [Threads -> Job]
      /\ slots' \in SlotTable /\ SameOwners(slots', slots)
  BY <1>1, CutKeepsOwners, UnchangedOwners DEF IInv, TypeOK, SlotTable
<1>5. js \in [Threads -> Job] /\ \A u \in Threads : Same(js[u], jobs[u])
  <2>1. \A u \in Threads : Same(jobs[u], jobs[u])
    BY DEF Same
  <2> QED
    BY <2>1, <1>4, UnheldIsSame
<1> HIDE DEF next, js
<1>6. jobs' \in [Threads -> Job] /\ jobs'[t] = next /\ Alone(t)
  BY <1>1, <1>2, <1>3, <1>5 DEF Alone
<1>7. JobInv(t, next)
  <2>1. k # "audio" => k = "video"
    BY <1>2, Constants
  <2> QED
    BY <2>1, <1>2, <1>3 DEF JobInv, Steps, Assigning, Tracks
<1>8. TypeOK'
  BY <1>1, <1>4, <1>6 DEF IInv, TypeOK, SlotTable
<1> QED
  BY <1>1, <1>2, <1>4, <1>6, <1>7, <1>8, OtherStepKeeps

LEMMA ReadAudioKeeps ==
    ASSUME Assumptions, IInv, NEW p \in Peers, ReadAudio(p)
    PROVE  IInv'
<1> DEFINE t == <<"track", p>>
           next == [jobs[t] EXCEPT !.at = "rebind"]
<1>1. /\ jobs[t].at = "read"
      /\ FanoutFor(t, p, "audio", jobs[t].track, next)
      /\ UNCHANGED <<room, closed, active, remote, flowing, ready, pending, asked, events>>
  BY DEF ReadAudio, At
<1>2. /\ t \in Threads /\ t[1] = "track" /\ jobs[t] \in Job /\ Tracks(jobs[t])
      /\ "audio" \in Kinds /\ jobs[t].track # 0
  BY <1>1, TrackersJob DEF IInv, Tracks
<1>3. /\ next \in Job /\ next.at = "rebind" /\ next.kind = jobs[t].kind /\ next.track = jobs[t].track
      /\ next.todo = jobs[t].todo
  BY <1>2 DEF Job
<1> HIDE DEF next
<1>4. JobInv(t, next)
  BY <1>1, <1>2, <1>3 DEF JobInv, Steps, Assigning, Tracks
<1>5. \A q : ~ Binds(jobs[t], q)
  BY <1>1 DEF Binds, Assigning
<1>6. jobs[t].track \in 0 .. MaxTracks
  BY <1>2 DEF Job
<1> QED
  BY <1>1, <1>2, <1>3, <1>4, <1>5, <1>6, FanoutForKeeps

LEMMA RebindFanoutKeeps ==
    ASSUME Assumptions, IInv, NEW p \in Peers, RebindFanout(p)
    PROVE  IInv'
<1> DEFINE t == <<"track", p>>
           j == jobs[t]
           step(s) == [j EXCEPT !.todo = @ \ {s}, !.sub = s, !.held = {}]
<1>1. PICK s \in j.todo :
        \/ /\ jobs' = [jobs EXCEPT ![t] = step(s)]
           /\ UNCHANGED <<fanouts, alive, slots>>
        \/ FanoutFor(t, p, "video", j.track, [step(s) EXCEPT !.at = "bind"])
  BY DEF RebindFanout
<1>2. /\ j.at = "rebind"
      /\ UNCHANGED <<room, closed, active, remote, flowing, ready, pending, asked, events>>
  BY DEF RebindFanout, At
<1> DEFINE skips == step(s)
           binds == [skips EXCEPT !.at = "bind"]
<1>3. /\ t \in Threads /\ t[1] = "track" /\ j \in Job /\ Tracks(j)
      /\ "video" \in Kinds /\ j.track # 0 /\ j.kind \in Kinds
  BY <1>1, <1>2, TrackersJob DEF IInv, Tracks
<1>4. s \in Peers /\ j.track \in 0 .. MaxTracks
  BY <1>1, <1>3 DEF Job
<1>5. /\ skips \in Job /\ skips.at = "rebind" /\ skips.kind = j.kind /\ skips.track = j.track
      /\ skips.sub = s
  BY <1>2, <1>3, <1>4 DEF Job
<1>6. \/ /\ jobs' = [jobs EXCEPT ![t] = skips]
         /\ UNCHANGED <<fanouts, alive, slots>>
      \/ FanoutFor(t, p, "video", j.track, binds)
  BY <1>1
<1> HIDE DEF skips
<1>7. /\ binds \in Job /\ binds.at = "bind" /\ binds.kind = j.kind /\ binds.track = j.track
      /\ binds.sub = s
  BY <1>5 DEF Job
<1> HIDE DEF binds
<1>8. JobInv(t, skips) /\ JobInv(t, binds)
  BY <1>3, <1>4, <1>5, <1>7 DEF JobInv, Steps, Assigning, Tracks
<1>9. CASE /\ jobs' = [jobs EXCEPT ![t] = skips]
           /\ UNCHANGED <<fanouts, alive, slots>>
  <2>1. jobs' \in [Threads -> Job] /\ jobs'[t] = skips /\ Alone(t)
    BY <1>3, <1>5, <1>9, OneJobChanges DEF IInv
  <2>2. TypeOK'
    BY <2>1, <1>2, <1>9 DEF IInv, TypeOK
  <2> QED
    BY <2>1, <2>2, <1>2, <1>3, <1>8, <1>9, UnchangedOwners, OtherStepKeeps
<1>10. CASE FanoutFor(t, p, "video", j.track, binds)
  <2>1. \A q : ~ Binds(j, q)
    BY <1>2 DEF Binds, Assigning
  <2> QED
    BY <2>1, <1>2, <1>3, <1>4, <1>7, <1>8, <1>10, FanoutForKeeps
<1> QED
  BY <1>6, <1>9, <1>10

LEMMA RebindSlotKeeps ==
    ASSUME Assumptions, IInv, NEW p \in Peers, RebindSlot(p)
    PROVE  IInv'
<1> DEFINE t == <<"track", p>>
           next == [jobs[t] EXCEPT !.at = "rebind"]
<1>1. PICK s, track : s = jobs[t].sub /\ track = jobs[t].track
  OBVIOUS
<1>2. PICK bound : bound = Bound(t, p, "video", track)
  OBVIOUS
<1> DEFINE row == [i \in Slots |-> IF slots[s]["video"][i].owner = p /\ slots[s]["video"][i].src # track
                                   THEN bound ELSE slots[s]["video"][i]]
<1>3. /\ jobs[t].at = "bind"
      /\ slots' = slots \/ slots' = [slots EXCEPT ![s]["video"] = row]
      /\ jobs' = [jobs EXCEPT ![t].at = "rebind"]
      /\ UNCHANGED <<room, closed, active, remote, flowing, fanouts, alive, ready, pending, asked, events>>
  BY <1>1, <1>2 DEF RebindSlot, At, Goes
<1>4. /\ t \in Threads /\ t[1] = "track" /\ jobs[t] \in Job /\ Tracks(jobs[t])
      /\ "video" \in Kinds /\ s \in Peers
  BY <1>1, <1>3, TrackersJob DEF IInv, Tracks
<1>5. track \in 0 .. MaxTracks
  BY <1>1, <1>4 DEF Job
<1>6. /\ bound \in [owner : Peers \cup {None}, src : 0 .. MaxTracks, live : BOOLEAN]
      /\ bound.owner = p
  BY <1>2, <1>5 DEF Bound
<1>7. /\ next \in Job /\ next.at = "rebind" /\ next.kind = jobs[t].kind
      /\ next.track = jobs[t].track /\ next.todo = jobs[t].todo
  BY <1>4 DEF Job
<1>8. jobs' = [jobs EXCEPT ![t] = next]
  BY <1>3 DEF IInv, TypeOK
<1> HIDE DEF next
<1>9. jobs' \in [Threads -> Job] /\ jobs'[t] = next /\ Alone(t)
  BY <1>4, <1>7, <1>8, OneJobChanges DEF IInv
<1>10. JobInv(t, next)
  BY <1>3, <1>4, <1>7 DEF JobInv, Steps, Assigning, Tracks
<1>11. slots' \in SlotTable /\ SameOwners(slots', slots)
  <2> DEFINE Slot == [owner : Peers \cup {None}, src : 0 .. MaxTracks, live : BOOLEAN]
  <2>1. slots \in [Peers -> [Kinds -> [Slots -> Slot]]]
    BY DEF IInv, TypeOK
  <2>2. bound \in Slot
    BY <1>6
  <2> HIDE DEF Slot
  <2>3. row \in [Slots -> Slot] /\ \A i \in Slots : row[i].owner = slots[s]["video"][i].owner
    BY <2>1, <2>2, <1>4, <1>6
  <2> HIDE DEF row
  <2>4. CASE slots' = slots
    BY <2>1, <2>4 DEF SlotTable, SameOwners, Slot
  <2>5. CASE slots' = [slots EXCEPT ![s]["video"] = row]
    <3>1. slots' \in [Peers -> [Kinds -> [Slots -> Slot]]]
      BY <2>1, <2>3, <2>5, <1>4
    <3>2. SameOwners(slots', slots)
      BY <2>1, <2>3, <2>5, <1>4 DEF SameOwners
    <3> QED
      BY <3>1, <3>2 DEF SlotTable, Slot
  <2> QED
    BY <2>4, <2>5, <1>3
<1>12. TypeOK'
  BY <1>3, <1>9, <1>11 DEF IInv, TypeOK, SlotTable
<1> QED
  BY <1>3, <1>4, <1>9, <1>10, <1>11, <1>12, OtherStepKeeps

LEMMA TrackDoneKeeps ==
    ASSUME Assumptions, IInv, NEW p \in Peers, TrackDone(p)
    PROVE  IInv'
<1> DEFINE t == <<"track", p>>
<1>1. /\ jobs' = [jobs EXCEPT ![t] = Rest]
      /\ UNCHANGED <<room, closed, active, remote, flowing, fanouts, alive, ready, slots, pending, asked,
                     events>>
  BY DEF TrackDone, Rests
<1>2. t \in Threads /\ t[1] = "track"
  BY ThreadNames
<1>3. jobs' \in [Threads -> Job] /\ jobs'[t] = Rest /\ Alone(t)
  BY <1>1, <1>2, RestIsJob, OneJobChanges DEF IInv
<1>4. JobInv(t, Rest)
  BY DEF JobInv, Steps, Assigning, Tracks, Rest
<1>5. TypeOK'
  BY <1>1, <1>3 DEF IInv, TypeOK
<1> QED
  BY <1>1, <1>2, <1>3, <1>4, <1>5, UnchangedOwners, OtherStepKeeps

LEMMA ReadLoopEndsKeeps ==
    ASSUME Assumptions, IInv, NEW p \in Peers, NEW k \in Kinds, ReadLoopEnds(p, k)
    PROVE  IInv'
<1> DEFINE t == <<"tick", None>>
<1>1. /\ alive' = alive \ {<<p, k>>}
      /\ slots' = Cut(slots, p, k)
      /\ jobs' = Unheld(jobs, p, k)
      /\ UNCHANGED <<room, closed, active, remote, flowing, fanouts, ready, pending, asked, events>>
  BY DEF ReadLoopEnds
<1>2. slots \in SlotTable /\ jobs \in [Threads -> Job]
  BY DEF IInv, TypeOK, SlotTable
<1>3. slots' \in SlotTable /\ SameOwners(slots', slots)
  BY <1>1, <1>2, CutKeepsOwners
<1>4. jobs' \in [Threads -> Job] /\ \A u \in Threads : Same(jobs'[u], jobs[u])
  BY <1>1, <1>2, UnheldIsSame
<1>5. TypeOK'
  BY <1>1, <1>3, <1>4 DEF IInv, TypeOK, SlotTable
<1>6. t \in Threads /\ t[1] = "tick"
  BY ThreadNames
<1>7. Alone(t) /\ JobInv(t, jobs'[t])
  BY <1>4, <1>6, SameIsSound DEF Alone, IInv, JobsAreSound
<1> QED
  BY <1>1, <1>3, <1>5, <1>6, <1>7, OtherStepKeeps

-----------------------------------------------------------------------------
(***************************************************************************)
(* Audio and departures.                                                   *)
(***************************************************************************)
LEMMA ViewsFacts ==
    ASSUME Assumptions, TypeOK, NEW present
    PROVE  /\ Views(present) \in [Peers -> 0 .. MaxTracks]
           /\ \A q \in Peers : Views(present)[q] # 0 => "audio" \in Kinds
<1>1. \A q \in Peers : TrackOf(q, "audio") \in 0 .. MaxTracks /\ (TrackOf(q, "audio") # 0 => "audio" \in Kinds)
  BY Constants DEF TrackOf, TypeOK
<1> QED
  BY <1>1, Constants DEF Views

\* A snapshot of the room is looked at by the ticker, or by who removes a peer.
LEMMA SnapshotIsSound ==
    ASSUME Assumptions, TypeOK, NEW t \in Threads, t[1] \in {"leave", "tick"}, NEW present \in SUBSET Peers,
           NEW pub \in Peers \cup {None}, NEW j,
           \/ j = [Rest EXCEPT !.at = "sync", !.todo = present, !.views = Views(present)]
           \/ j = [Rest EXCEPT !.at = "sync", !.pub = pub, !.todo = present, !.views = Views(present)]
    PROVE  j \in Job /\ JobInv(t, j)
<1> DEFINE views == Views(present)
<1>1. views \in [Peers -> 0 .. MaxTracks] /\ \A q \in Peers : views[q] # 0 => "audio" \in Kinds
  BY ViewsFacts
<1> HIDE DEF views
<1>2. \/ j = [Rest EXCEPT !.at = "sync", !.todo = present, !.views = views]
      \/ j = [Rest EXCEPT !.at = "sync", !.pub = pub, !.todo = present, !.views = views]
  BY DEF views
<1>3. j \in Job /\ j.at = "sync" /\ j.views = views
  BY <1>1, <1>2, RestIsJob DEF Job
<1> QED
  BY <1>1, <1>3 DEF JobInv, Steps, Assigning, Syncs

LEMMA TickKeeps ==
    ASSUME Assumptions, IInv, Tick
    PROVE  IInv'
<1> DEFINE t == <<"tick", None>>
           j == [Rest EXCEPT !.at = "sync", !.todo = room, !.views = Views(room)]
<1>1. /\ jobs' = [jobs EXCEPT ![t] = j]
      /\ UNCHANGED <<room, closed, active, remote, flowing, fanouts, alive, ready, slots, pending, asked,
                     events>>
  BY DEF Tick
<1>2. t \in Threads /\ t[1] = "tick" /\ room \in SUBSET Peers
  BY ThreadNames DEF IInv, TypeOK
<1>3. j \in Job /\ JobInv(t, j)
  BY <1>2, SnapshotIsSound DEF IInv
<1> HIDE DEF j
<1>4. jobs' \in [Threads -> Job] /\ jobs'[t] = j /\ Alone(t)
  BY <1>1, <1>2, <1>3, OneJobChanges DEF IInv
<1>5. TypeOK'
  BY <1>1, <1>4 DEF IInv, TypeOK
<1> QED
  BY <1>1, <1>2, <1>3, <1>4, <1>5, UnchangedOwners, OtherStepKeeps

LEMMA TickDoneKeeps ==
    ASSUME Assumptions, IInv, TickDone
    PROVE  IInv'
<1> DEFINE t == <<"tick", None>>
<1>1. /\ jobs' = [jobs EXCEPT ![t] = Rest]
      /\ UNCHANGED <<room, closed, active, remote, flowing, fanouts, alive, ready, slots, pending, asked,
                     events>>
  BY DEF TickDone, Rests
<1>2. t \in Threads /\ t[1] = "tick"
  BY ThreadNames
<1>3. jobs' \in [Threads -> Job] /\ jobs'[t] = Rest /\ Alone(t)
  BY <1>1, <1>2, RestIsJob, OneJobChanges DEF IInv
<1>4. JobInv(t, Rest)
  BY DEF JobInv, Steps, Assigning, Syncs, Rest
<1>5. TypeOK'
  BY <1>1, <1>3 DEF IInv, TypeOK
<1> QED
  BY <1>1, <1>2, <1>3, <1>4, <1>5, UnchangedOwners, OtherStepKeeps

LEMMA RemovePeerKeeps ==
    ASSUME Assumptions, IInv, NEW p \in Peers, RemovePeer(p)
    PROVE  IInv'
<1> DEFINE t == <<"leave", p>>
           left == room \ {p}
           j == [Rest EXCEPT !.at = "sync", !.pub = p, !.todo = left, !.views = Views(left)]
<1>1. /\ Event
      /\ room' = left
      /\ jobs' = [jobs EXCEPT ![t] = j]
      /\ UNCHANGED <<closed, active, remote, flowing, fanouts, alive, ready, slots, pending, asked>>
  BY DEF RemovePeer
<1>2. t \in Threads /\ t[1] = "leave" /\ left \in SUBSET Peers
  BY ThreadNames DEF IInv, TypeOK
<1>3. j \in Job /\ JobInv(t, j)
  <2> HIDE DEF left
  <2> QED
    BY <1>2, SnapshotIsSound DEF IInv
<1> HIDE DEF j
<1>4. jobs' \in [Threads -> Job] /\ jobs'[t] = j /\ Alone(t)
  BY <1>1, <1>2, <1>3, OneJobChanges DEF IInv
<1>5. TypeOK'
  <2>1. events' \in 0 .. MaxEvents
    BY <1>1, Constants DEF IInv, TypeOK, Event
  <2> QED
    BY <1>1, <1>2, <1>4, <2>1 DEF IInv, TypeOK
<1> QED
  BY <1>1, <1>2, <1>3, <1>4, <1>5, UnchangedOwners, OtherStepKeeps

LEMMA SyncersJob ==
    ASSUME TypeOK, JobsAreSound, NEW t \in Threads, jobs[t].at \in {"sync", "resolve"}
    PROVE  t[1] \in {"leave", "tick"} /\ jobs[t] \in Job /\ Syncs(jobs[t])
<1>1. jobs[t] \in Job /\ JobInv(t, jobs[t])
  BY DEF TypeOK, JobsAreSound
<1>2. jobs[t].at \in Steps(t[1]) /\ t[1] \in {"client", "worker", "track", "leave", "tick"}
  BY <1>1, ThreadNames DEF JobInv
<1>3. t[1] \in {"leave", "tick"}
  BY <1>2 DEF Steps
<1> QED
  BY <1>1, <1>3 DEF JobInv

LEMMA SyncNextKeeps ==
    ASSUME Assumptions, IInv, NEW t \in Threads, SyncNext(t)
    PROVE  IInv'
<1> DEFINE j == jobs[t]
<1>1. PICK pub : pub = j.pub
  OBVIOUS
<1>2. PICK s \in j.todo, set \in SUBSET Peers :
        /\ set \in AudioSets(s, j.views)
        /\ jobs' = [jobs EXCEPT ![t] = [j EXCEPT !.at = "resolve", !.sub = s, !.todo = @ \ {s},
                                                 !.want = set, !.left = set, !.held = {}]]
        /\ slots' = IF pub = None THEN slots ELSE Released(slots, s, pub, Kinds)
        /\ asked' = IF pub = None THEN asked ELSE [asked EXCEPT ![s] = @ \ {pub}]
  BY <1>1 DEF SyncNext
<1>3. /\ j.at = "sync"
      /\ UNCHANGED <<room, closed, active, remote, flowing, fanouts, alive, ready, pending, events>>
  BY DEF SyncNext, At
<1>4. t[1] \in {"leave", "tick"} /\ j \in Job /\ Syncs(j)
  BY <1>3, SyncersJob DEF IInv
<1>5. s \in Peers /\ j.views \in [Peers -> 0 .. MaxTracks]
  BY <1>2, <1>4 DEF Job
<1>6. \A q \in set : j.views[q] # 0
  BY <1>2 DEF AudioSets
<1> DEFINE next == [j EXCEPT !.at = "resolve", !.sub = s, !.todo = @ \ {s}, !.want = set, !.left = set,
                             !.held = {}]
<1>7. /\ next \in Job /\ next.at = "resolve" /\ next.sub = s /\ next.want = set /\ next.left = set
      /\ next.views = j.views
  <2>1. j.todo \ {s} \in SUBSET Peers /\ set \in SUBSET Peers
    BY <1>4 DEF Job
  <2> QED
    BY <2>1, <1>4, <1>5 DEF Job
<1>8. jobs' = [jobs EXCEPT ![t] = next]
  BY <1>2
<1> HIDE DEF next
<1>9. jobs' \in [Threads -> Job] /\ jobs'[t] = next /\ Alone(t)
  BY <1>7, <1>8, OneJobChanges DEF IInv
<1>10. JobInv(t, next)
  BY <1>3, <1>4, <1>5, <1>6, <1>7 DEF JobInv, Steps, Assigning, Syncs
<1>11. slots \in SlotTable /\ asked \in [Peers -> SUBSET Peers]
  BY DEF IInv, TypeOK, SlotTable
<1>12. /\ slots' \in SlotTable
       /\ \A q \in Peers, k \in Kinds, i \in Slots :
            \/ slots'[q][k][i] = slots[q][k][i]
            \/ q = s /\ pub # None /\ slots[q][k][i].owner = pub /\ slots'[q][k][i] = Free
  <2>1. CASE pub = None
    BY <2>1, <1>2, <1>11
  <2>2. CASE pub # None
    BY <2>2, <1>2, <1>5, <1>11, ReleasedFacts
  <2> QED
    BY <2>1, <2>2
<1>13. /\ asked' \in [Peers -> SUBSET Peers]
       /\ \A r \in Peers : asked'[r] \subseteq asked[r]
       /\ pub # None => pub \notin asked'[s]
  BY <1>2, <1>5, <1>11
<1>14. TypeOK'
  BY <1>3, <1>9, <1>12, <1>13 DEF IInv, TypeOK, SlotTable
<1>15. JobsAreSound'
  BY <1>9, <1>10, JobsStaySound DEF IInv
<1>16. VideoIsAsked'
  BY <1>3, <1>13, VideoStaysAsked DEF IInv
<1>17. SlotsAreDistinct'
  BY <1>12, DistinctIfReleased DEF IInv, Free
<1>18. SubscriptionsAreServed'
  <2>1. \A r \in Peers : \A q \in asked'[r] : SlotsOf(r, q, "video") # {} => SlotsOf(r, q, "video")' # {}
    <3> TAKE r \in Peers
    <3> TAKE q \in asked'[r]
    <3>1. "video" \in Kinds
      BY <1>13 DEF IInv, VideoIsAsked
    <3>2. ASSUME NEW i \in Slots, slots[r]["video"][i].owner = q
          PROVE  slots'[r]["video"][i].owner = q
      BY <3>1, <3>2, <1>12, <1>13
    <3> QED
      BY <3>2 DEF SlotsOf
  <2>2. t[1] \notin {"client", "worker"}
    BY <1>4
  <2> QED
    BY <2>1, <2>2, <1>3, <1>9, <1>13, OthersLeaveServed DEF IInv
<1> QED
  BY <1>14, <1>15, <1>16, <1>17, <1>18 DEF IInv

LEMMA SyncFanoutKeeps ==
    ASSUME Assumptions, IInv, NEW t \in Threads, SyncFanout(t)
    PROVE  IInv'
<1> DEFINE j == jobs[t]
<1>1. PICK q : q = CHOOSE r \in j.left : TRUE
  OBVIOUS
<1> DEFINE next == [j EXCEPT !.left = @ \ {q}]
<1>2. /\ j.at = "resolve" /\ j.left # {}
      /\ FanoutFor(t, q, "audio", j.views[q], next)
      /\ UNCHANGED <<room, closed, active, remote, flowing, ready, pending, asked, events>>
  BY <1>1 DEF SyncFanout, At
<1>3. t[1] \in {"leave", "tick"} /\ j \in Job /\ Syncs(j)
  BY <1>2, SyncersJob DEF IInv
<1>4. q \in j.left
  BY <1>1, <1>2
<1>5. q \in Peers /\ j.views[q] # 0 /\ j.views[q] \in 0 .. MaxTracks /\ "audio" \in Kinds
  BY <1>2, <1>3, <1>4 DEF Syncs, Job
<1>6. /\ next \in Job /\ next.at = "resolve" /\ next.sub = j.sub /\ next.want = j.want
      /\ next.left = j.left \ {q} /\ next.views = j.views
  <2>1. j.left \ {q} \in SUBSET Peers
    BY <1>3 DEF Job
  <2> QED
    BY <2>1, <1>2, <1>3 DEF Job
<1> HIDE DEF next
<1>7. JobInv(t, next)
  BY <1>2, <1>3, <1>6 DEF JobInv, Steps, Assigning, Syncs
<1>8. \A r : ~ Binds(j, r)
  BY <1>2 DEF Binds, Assigning
<1> QED
  BY <1>2, <1>3, <1>5, <1>6, <1>7, <1>8, FanoutForKeeps

\* New publishers take each a free slot of their own.
LEMMA FilledIsDistinct ==
    ASSUME Assumptions, NEW t, NEW kept, Distinct(kept), NEW f \in Filled(t, kept), NEW row,
           None \notin jobs[t].want,
           \A i \in Slots : row[i].owner = IF f[i] = None THEN kept[i].owner ELSE f[i]
    PROVE  Distinct(row)
<1> DEFINE new == {q \in jobs[t].want : \A i \in Slots : kept[i].owner # q}
<1>1. /\ \A i \in Slots : f[i] \in new \cup {None}
      /\ \A q \in new : Cardinality({i \in Slots : f[i] = q}) = 1
  BY DEF Filled
<1> SUFFICES ASSUME NEW i \in Slots, NEW j \in Slots, row[i].owner = row[j].owner, row[i].owner # None
             PROVE  i = j
  BY DEF Distinct
<1>2. CASE f[i] = None /\ f[j] = None
  BY <1>2 DEF Distinct
<1>3. CASE f[i] # None /\ f[j] = None
  BY <1>1, <1>3
<1>4. CASE f[i] = None /\ f[j] # None
  BY <1>1, <1>4
<1>5. CASE f[i] # None /\ f[j] # None
  <2>1. f[i] = f[j] /\ f[i] \in new
    BY <1>1, <1>5
  <2> DEFINE is == {l \in Slots : f[l] = f[i]}
  <2>2. Cardinality(is) = 1 /\ i \in is /\ j \in is
    BY <2>1, <1>1
  <2>3. IsFiniteSet(is)
    <3>1. is \subseteq 1 .. SlotCount
      BY DEF Slots
    <3>2. IsFiniteSet(1 .. SlotCount)
      BY Constants, FS_Interval
    <3> QED
      BY <3>1, <3>2, FS_Subset
  <2> HIDE DEF is
  <2>4. PICK l : is = {l}
    BY <2>2, <2>3, FS_Singleton
  <2> QED
    BY <2>2, <2>4
<1> QED
  BY <1>2, <1>3, <1>4, <1>5

LEMMA SyncSlotsKeeps ==
    ASSUME Assumptions, IInv, NEW t \in Threads, SyncSlots(t)
    PROVE  IInv'
<1> DEFINE j == jobs[t]
           next == [j EXCEPT !.at = "sync", !.held = {}, !.want = {}]
           s == j.sub
           kept == Kept(t, s)
<1>3. /\ j.at = "resolve"
      /\ \/ slots' = slots
         \/ /\ "audio" \in Kinds
            /\ \E f \in Filled(t, kept) :
                 slots' = [slots EXCEPT ![s]["audio"] = [i \in Slots |->
                             IF f[i] = None THEN kept[i] ELSE Bound(t, f[i], "audio", j.views[f[i]])]]
      /\ jobs' = [jobs EXCEPT ![t].at = "sync", ![t].held = {}, ![t].want = {}]
      /\ UNCHANGED <<room, closed, active, remote, flowing, fanouts, alive, ready, pending, asked, events>>
  BY DEF SyncSlots, At
<1>1. s = j.sub
  OBVIOUS
<1>2. kept = Kept(t, s)
  OBVIOUS
<1> HIDE DEF s, kept
<1>4. t[1] \in {"leave", "tick"} /\ j \in Job /\ Syncs(j)
  BY <1>3, SyncersJob DEF IInv
<1>5. s \in Peers /\ j.want \in SUBSET Peers /\ j.views \in [Peers -> 0 .. MaxTracks]
  BY <1>1, <1>3, <1>4 DEF Syncs, Job
<1>6. next \in Job /\ next.at = "sync" /\ next.views = j.views
  BY <1>4 DEF Job
<1>7. jobs' = [jobs EXCEPT ![t] = next]
  BY <1>3 DEF IInv, TypeOK
<1> HIDE DEF next
<1>8. jobs' \in [Threads -> Job] /\ jobs'[t] = next /\ Alone(t)
  BY <1>6, <1>7, OneJobChanges DEF IInv
<1>9. JobInv(t, next)
  BY <1>3, <1>4, <1>6 DEF JobInv, Steps, Assigning, Syncs
<1> DEFINE Slot == [owner : Peers \cup {None}, src : 0 .. MaxTracks, live : BOOLEAN]
<1>10. \A q \in Peers : Bound(t, q, "audio", j.views[q]) \in Slot /\ Bound(t, q, "audio", j.views[q]).owner = q
  BY <1>5 DEF Bound
<1>11. slots \in [Peers -> [Kinds -> [Slots -> Slot]]]
  BY DEF IInv, TypeOK
<1>12. ASSUME "audio" \in Kinds, NEW i \in Slots
       PROVE  kept[i] \in Slot /\ kept[i].owner \in {slots[s]["audio"][i].owner, None}
  <2>1. PICK c : c = slots[s]["audio"][i]
    OBVIOUS
  <2>2. c \in Slot
    <3> HIDE DEF Slot
    <3> QED
      BY <2>1, <1>5, <1>11, <1>12
  <2>3. kept[i] = IF c.owner \notin j.want THEN Free
                  ELSE IF c.src = j.views[c.owner] THEN c
                  ELSE Bound(t, c.owner, "audio", j.views[c.owner])
    BY <2>1, <1>2 DEF Kept
  <2>4. Free \in Slot /\ Free.owner = None
    BY Constants DEF Free
  <2>5. c.owner \in j.want =>
          /\ Bound(t, c.owner, "audio", j.views[c.owner]) \in Slot
          /\ Bound(t, c.owner, "audio", j.views[c.owner]).owner = c.owner
    <3> HIDE DEF Slot
    <3> QED
      BY <1>5, <1>10
  <2> HIDE DEF Slot
  <2> QED
    BY <2>1, <2>2, <2>3, <2>4, <2>5
<1>13. ASSUME "audio" \in Kinds, NEW f \in Filled(t, kept), NEW row,
              row = [i \in Slots |-> IF f[i] = None THEN kept[i]
                                                    ELSE Bound(t, f[i], "audio", j.views[f[i]])]
       PROVE  row \in [Slots -> Slot] /\ Distinct(row)
  <2>1. \A i \in Slots : f[i] # None => f[i] \in Peers
    BY <1>5 DEF Filled
  <2>2. row \in [Slots -> Slot]
    <3> HIDE DEF Slot
    <3> QED
      BY <2>1, <1>10, <1>12, <1>13
  <2>3. \A i \in Slots : row[i].owner = IF f[i] = None THEN kept[i].owner ELSE f[i]
    BY <2>1, <1>10, <1>13
  <2>4. Distinct(kept)
    <3>1. Distinct(slots[s]["audio"])
      BY <1>5, <1>13 DEF IInv, SlotsAreDistinct
    <3> QED
      BY <3>1, <1>12, <1>13 DEF Distinct
  <2>5. None \notin j.want
    BY <1>5, Constants
  <2>6. Distinct(row)
    BY <2>3, <2>4, <2>5, FilledIsDistinct
  <2> QED
    BY <2>2, <2>6
<1>14. /\ slots' \in [Peers -> [Kinds -> [Slots -> Slot]]]
       /\ \A q \in Peers, k \in Kinds : slots'[q][k] = slots[q][k] \/ (k = "audio" /\ Distinct(slots'[q][k]))
  <2> HIDE DEF Slot
  <2>1. CASE slots' = slots
    BY <2>1, <1>11
  <2>2. CASE /\ "audio" \in Kinds
             /\ \E f \in Filled(t, kept) :
                  slots' = [slots EXCEPT ![s]["audio"] = [i \in Slots |->
                             IF f[i] = None THEN kept[i] ELSE Bound(t, f[i], "audio", j.views[f[i]])]]
    <3>1. PICK f \in Filled(t, kept) :
            slots' = [slots EXCEPT ![s]["audio"] = [i \in Slots |->
                             IF f[i] = None THEN kept[i] ELSE Bound(t, f[i], "audio", j.views[f[i]])]]
      BY <2>2
    <3>2. PICK row : row = [i \in Slots |-> IF f[i] = None THEN kept[i]
                                                           ELSE Bound(t, f[i], "audio", j.views[f[i]])]
      OBVIOUS
    <3>3. row \in [Slots -> Slot] /\ Distinct(row)
      BY <3>2, <2>2, <1>13
    <3>4. slots' = [slots EXCEPT ![s]["audio"] = row]
      BY <3>1, <3>2
    <3>5. slots' \in [Peers -> [Kinds -> [Slots -> Slot]]]
      BY <3>3, <3>4, <2>2, <1>5, <1>11
    <3>6. \A q \in Peers, k \in Kinds : slots'[q][k] = IF q = s /\ k = "audio" THEN row ELSE slots[q][k]
      BY <3>4, <2>2, <1>5, <1>11
    <3> QED
      BY <3>3, <3>5, <3>6
  <2> QED
    BY <2>1, <2>2, <1>3
<1>15. TypeOK'
  BY <1>3, <1>8, <1>14 DEF IInv, TypeOK
<1>16. JobsAreSound'
  BY <1>8, <1>9, JobsStaySound DEF IInv
<1>17. VideoIsAsked'
  BY <1>3 DEF IInv, VideoIsAsked
<1>18. SlotsAreDistinct'
  <2>1. ASSUME NEW q \in Peers, NEW k \in Kinds
        PROVE  Distinct(slots'[q][k])
    <3>1. Distinct(slots[q][k])
      BY DEF IInv, SlotsAreDistinct
    <3> HIDE DEF Slot
    <3> QED
      BY <3>1, <1>14
  <2> QED
    BY <2>1 DEF SlotsAreDistinct
<1>19. SubscriptionsAreServed'
  <2>1. \A r \in Peers : \A q \in asked'[r] : SlotsOf(r, q, "video") # {} => SlotsOf(r, q, "video")' # {}
    <3> TAKE r \in Peers
    <3> TAKE q \in asked'[r]
    <3>1. "video" \in Kinds
      BY <1>3 DEF IInv, VideoIsAsked
    <3>2. slots'[r]["video"] = slots[r]["video"]
      <4> HIDE DEF Slot
      <4> QED
        BY <3>1, <1>14
    <3> QED
      BY <3>2 DEF SlotsOf
  <2>2. t[1] \notin {"client", "worker"} /\ pending' = pending /\ closed' = closed /\ asked' = asked
    BY <1>3, <1>4
  <2> QED
    BY <2>1, <2>2, <1>8, OthersLeaveServed DEF IInv
<1> QED
  BY <1>15, <1>16, <1>17, <1>18, <1>19 DEF IInv

LEMMA CloseKeeps ==
    ASSUME Assumptions, IInv, NEW p \in Peers, Close(p)
    PROVE  IInv'
<1> DEFINE t == <<"leave", p>>
           none == [k \in Kinds |-> 0]
           over == {p} \X Kinds
           js == [u \in Threads |-> [jobs[u] EXCEPT !.held = @ \ over]]
<1>1. /\ closed' = closed \cup {p}
      /\ fanouts' = [fanouts EXCEPT ![p] = none]
      /\ alive' = alive \ over
      /\ slots' = [q \in Peers |-> [k \in Kinds |-> Cut(slots, p, k)[q][k]]]
      /\ jobs' = [js EXCEPT ![t] = Rest]
      /\ UNCHANGED <<room, active, remote, flowing, ready, pending, asked, events>>
  BY DEF Close
<1>2. t \in Threads /\ t[1] = "leave"
  BY ThreadNames
<1>3. slots \in SlotTable /\ jobs \in [Threads -> Job] /\ fanouts \in [Peers -> [Kinds -> 0 .. MaxTracks]]
  BY DEF IInv, TypeOK, SlotTable
<1>4. js \in [Threads -> Job] /\ \A u \in Threads : Same(js[u], jobs[u])
  <2>1. ASSUME NEW u \in Threads
        PROVE  [jobs[u] EXCEPT !.held = @ \ over] \in Job /\ Same([jobs[u] EXCEPT !.held = @ \ over], jobs[u])
    <3>1. jobs[u] \in Job
      BY <1>3
    <3> HIDE DEF over
    <3> QED
      BY <3>1 DEF Job, Same
  <2> HIDE DEF over
  <2> QED
    BY <2>1
<1>5. jobs' \in [Threads -> Job] /\ jobs'[t] = Rest /\ Alone(t)
  <2> HIDE DEF js
  <2> QED
    BY <1>1, <1>2, <1>4, RestIsJob DEF Alone
<1>6. JobInv(t, Rest)
  BY DEF JobInv, Steps, Assigning, Syncs, Rest
<1>7. slots' \in SlotTable /\ SameOwners(slots', slots)
  <2> DEFINE Row == [Slots -> [owner : Peers \cup {None}, src : 0 .. MaxTracks, live : BOOLEAN]]
  <2>1. \A k \in Kinds : Cut(slots, p, k) \in SlotTable /\ SameOwners(Cut(slots, p, k), slots)
    BY <1>3, CutKeepsOwners
  <2>2. SlotTable = [Peers -> [Kinds -> Row]]
    BY DEF SlotTable
  <2> HIDE DEF Row
  <2>3. \A q \in Peers, k \in Kinds : Cut(slots, p, k)[q][k] \in Row
    BY <2>1, <2>2
  <2>4. slots' \in SlotTable
    BY <2>2, <2>3, <1>1
  <2>5. SameOwners(slots', slots)
    BY <2>1, <1>1 DEF SameOwners
  <2> QED
    BY <2>4, <2>5
<1>8. TypeOK'
  <2>1. fanouts' \in [Peers -> [Kinds -> 0 .. MaxTracks]]
    BY <1>1, <1>3, Constants
  <2>2. alive' \subseteq {pk \in Peers \X Kinds : fanouts'[pk[1]][pk[2]] # 0}
    <3>1. ASSUME NEW pk \in alive'
          PROVE  pk \in Peers \X Kinds /\ fanouts'[pk[1]][pk[2]] # 0
      <4>1. pk \in Peers \X Kinds /\ fanouts[pk[1]][pk[2]] # 0 /\ pk[1] # p
        BY <1>1 DEF IInv, TypeOK
      <4> QED
        BY <4>1, <1>1, <1>3
    <3> QED
      BY <3>1
  <2>3. closed' \subseteq Peers
    BY <1>1 DEF IInv, TypeOK
  <2> QED
    BY <1>1, <1>5, <1>7, <2>1, <2>2, <2>3 DEF IInv, TypeOK, SlotTable
<1> QED
  BY <1>1, <1>2, <1>5, <1>6, <1>7, <1>8, OtherStepKeeps

-----------------------------------------------------------------------------
(***************************************************************************)
(* The theorem.                                                            *)
(***************************************************************************)
LEMMA InitSound ==
    ASSUME Assumptions, Init
    PROVE  IInv
<1>1. slots \in SlotTable /\ \A s \in Peers, k \in Kinds, i \in Slots : slots[s][k][i].owner = None
  <2>1. Free \in [owner : Peers \cup {None}, src : 0 .. MaxTracks, live : BOOLEAN] /\ Free.owner = None
    BY Constants DEF Free
  <2> QED
    BY <2>1 DEF Init, SlotTable
<1>2. jobs \in [Threads -> Job]
  BY RestIsJob DEF Init
<1>3. TypeOK
  BY <1>1, <1>2, Constants DEF Init, TypeOK, SlotTable
<1>4. JobsAreSound
  <2>1. ASSUME NEW t \in Threads
        PROVE  JobInv(t, Rest)
    <3>1. t[1] \in {"client", "worker", "track", "leave", "tick"}
      BY ThreadNames
    <3> QED
      BY <3>1 DEF JobInv, Steps, Assigning, Offers, Tracks, Syncs, Rest
  <2> QED
    BY <2>1 DEF JobsAreSound, Init
<1>5. VideoIsAsked /\ SlotsAreDistinct /\ SubscriptionsAreServed
  BY <1>1 DEF Init, VideoIsAsked, SlotsAreDistinct, Distinct, SubscriptionsAreServed
<1> QED
  BY <1>3, <1>4, <1>5 DEF IInv

LEMMA NextSound ==
    ASSUME Assumptions, IInv, [Next]_vars
    PROVE  IInv'
<1>1. CASE UNCHANGED vars
  BY <1>1 DEF vars, IInv, TypeOK, JobsAreSound, VideoIsAsked, SlotsAreDistinct, SubscriptionsAreServed,
              Served, SlotsOf, Worker, Client
<1>2. ASSUME NEW p \in Peers, OfferStep(p)
      PROVE  IInv'
  BY <1>2, HandleOfferKeeps, OfferFailsKeeps, AllocateSlotsKeeps, NextPendingKeeps, OfferEndsKeeps DEF OfferStep
<1>3. ASSUME NEW p \in Peers, TrackStep(p)
      PROVE  IInv'
  BY <1>3, ReplaceFanoutKeeps, ReadAudioKeeps, RebindFanoutKeeps, RebindSlotKeeps, TrackDoneKeeps DEF TrackStep
<1>4. ASSUME NEW t \in Threads, AssignStep(t) \/ SyncStep(t)
      PROVE  IInv'
  BY <1>4, AssignTrackKeeps, AssignFanoutKeeps, AssignSlotKeeps, SyncNextKeeps, SyncFanoutKeeps, SyncSlotsKeeps
     DEF AssignStep, SyncStep
<1>5. ASSUME NEW p \in Peers, IncomingTrack(p) \/ RemovePeer(p) \/ Close(p)
      PROVE  IInv'
  BY <1>5, IncomingTrackKeeps, RemovePeerKeeps, CloseKeeps
<1> QED
  BY <1>1, <1>2, <1>3, <1>4, <1>5, SubscribeKeeps, UnsubscribeKeeps, ReadLoopEndsKeeps, TickKeeps, TickDoneKeeps
     DEF Next

LEMMA InvariantSuffices ==
    ASSUME Assumptions, IInv
    PROVE  SlotsServeSubscriptions
<1>1. ASSUME NEW s \in Peers, NEW k \in Kinds, NEW p \in Peers
      PROVE  Cardinality(SlotsOf(s, p, k)) <= 1
  <2>1. Distinct(slots[s][k]) /\ p # None
    BY Constants DEF IInv, SlotsAreDistinct
  <2>2. CASE SlotsOf(s, p, k) = {}
    BY <2>2, FS_EmptySet
  <2>3. CASE SlotsOf(s, p, k) # {}
    <3>1. PICK i : i \in SlotsOf(s, p, k)
      BY <2>3
    <3>2. SlotsOf(s, p, k) = {i}
      BY <2>1, <3>1 DEF SlotsOf, Distinct
    <3> QED
      BY <3>2, FS_Singleton
  <2> QED
    BY <2>2, <2>3
<1>2. NoSubscriptionLost
  <2> SUFFICES ASSUME NEW s \in Peers \ closed, NEW p \in asked[s]
               PROVE  \/ p \in pending[s] \/ SlotsOf(s, p, "video") # {}
                      \/ p \in jobs[<<"worker", s>>].todo
                      \/ \E th \in {"client", "worker"} :
                           jobs[<<th, s>>].at \in {"track", "fanout", "slot"} /\ jobs[<<th, s>>].pub = p
    BY DEF NoSubscriptionLost
  <2>1. Served(s, p)
    BY DEF IInv, SubscriptionsAreServed
  <2> QED
    BY <2>1 DEF Served, Worker, Client, Binds, Assigning
<1> QED
  BY <1>1, <1>2 DEF IInv, SlotsServeSubscriptions, OneSlotPerSource

\* A subscriber spends at most one slot on a publisher and kind, although the
\* slot is bound in three critical sections by four kinds of goroutines, and a
\* subscription that was accepted waits, is being bound or has its slot until
\* it ends: for any number of peers, slots and tracks.
THEOREM SlotsServeThoseWhoAsk ==
    ASSUME Assumptions
    PROVE  Spec => []SlotsServeSubscriptions
<1>1. Init => IInv
  BY InitSound
<1>2. IInv /\ [Next]_vars => IInv'
  BY NextSound
<1>3. IInv => SlotsServeSubscriptions
  BY InvariantSuffices
<1> QED
  BY <1>1, <1>2, <1>3, PTL DEF Spec
=============================================================================
