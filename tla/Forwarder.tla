----------------------------- MODULE Forwarder -----------------------------
(***************************************************************************)
(* One sending slot of a subscriber and the packets that pass through it   *)
(* (webrtc/sfu.go): the reader of a publisher's track (fanout) puts every  *)
(* packet into the queue of the forwarder that is bound to the slot; the   *)
(* forwarder translates its sequence number, so that the subscriber sees   *)
(* one sequence whoever is forwarded, and writes it to the track.          *)
(*                                                                         *)
(* Binding the slot to another publisher ends the old forwarder without    *)
(* waiting for it: its select may still choose queued packets, and both    *)
(* forwarders share the translator of the slot. Only the translation is    *)
(* under its lock, so that what was numbered first may be written later.   *)
(*                                                                         *)
(* A packet is its publisher, its number in the publisher's stream and     *)
(* whether it starts a keyframe.  Its sequence number is the number modulo *)
(* Modulus (2^16 in RTP).                                                  *)
(***************************************************************************)
EXTENDS Integers, Sequences

CONSTANTS
  Publishers,
  Buffer,         \* audioForwarderBuffer, videoForwarderBuffer
  Modulus,        \* the sequence numbers wrap at this number
  MaxPackets,     \* bound: packets of a publisher
  MaxForwarders,  \* bound: bindings of the slot
  None

Assumptions ==
  /\ None \notin Publishers
  /\ Buffer \in Nat \ {0} /\ Modulus \in Nat \ {0, 1}
  /\ MaxPackets \in Nat /\ MaxForwarders \in Nat \ {0}

Forwarders == 1 .. MaxForwarders

VARIABLES
  kind,        \* of the slot: "audio" or "video" (screens are as video)
  made,        \* forwarders made so far; the last one may be bound to the slot
  forwarder,   \* what each of them is and has queued
  ended,       \* the forwarders whose goroutine returned
  bound,       \* slot.fwd, 0 for none
  packets,     \* packets of each publisher read so far
  muted,       \* the publishers whose audio is not to be forwarded
  putting,     \* fanout.distribute: what the reader is doing
  translator,  \* slot.translator
  numbered,    \* history: the packets the translator numbered
  written      \* history: their places in numbered, in the order of the writes

vars == <<kind, made, forwarder, ended, bound, packets, muted, putting, translator,
          numbered, written>>

Packet == [from : Publishers, n : 0 .. MaxPackets, key : BOOLEAN]
NoPacket == [from |-> None, n |-> 0, key |-> FALSE]
Idle == [at |-> "idle", packet |-> NoPacket]

(* newForwarder: video waits for a keyframe. *)
NewForwarder(p) ==
  [owner |-> p, done |-> FALSE, queue |-> <<>>, taken |-> NoPacket, at |-> "select",
   waitingKeyframe |-> kind = "video", resyncNeeded |-> FALSE, wasMuted |-> FALSE]

ForwarderState ==
  [owner : Publishers \cup {None}, done : BOOLEAN, queue : Seq(Packet),
   taken : Packet \cup {NoPacket}, at : {"select", "decide", "reset", "translate", "write"},
   waitingKeyframe : BOOLEAN, resyncNeeded : BOOLEAN, wasMuted : BOOLEAN]
Number == 0 .. Modulus - 1

TypeOK ==
  /\ kind \in {"audio", "video"}
  /\ made \in 0 .. MaxForwarders /\ ended \subseteq Forwarders /\ bound \in 0 .. made
  /\ forwarder \in [Forwarders -> ForwarderState]
  /\ \A f \in Forwarders : Len(forwarder[f].queue) <= Buffer
  /\ packets \in [Publishers -> 0 .. MaxPackets] /\ muted \subseteq Publishers
  /\ putting \in [at : {"idle", "put", "mark", "again"}, packet : Packet \cup {NoPacket}]
  /\ translator \in [owner : Publishers \cup {None}, offset : Number, last : Number,
                     hasWritten : BOOLEAN]
  /\ numbered \in Seq([by : Forwarders, from : Publishers, n : 0 .. MaxPackets, key : BOOLEAN,
                       ssn : Number])
  /\ written \in Seq(DOMAIN numbered)

Init ==
  /\ kind \in {"audio", "video"}
  /\ made = 0 /\ ended = {} /\ bound = 0 /\ muted = {} /\ putting = Idle
  /\ numbered = <<>> /\ written = <<>>
  /\ forwarder = [f \in Forwarders |-> NewForwarder(None)]
  /\ packets = [p \in Publishers |-> 0]
  /\ translator = [owner |-> None, offset |-> 0, last |-> 0, hasWritten |-> FALSE]

(* ssnTranslator.resetSource *)
ResetSource(t) == [t EXCEPT !.owner = None]

(* finish: the forwarder is told to end and leaves the fanout, which waits for
   a packet that is being put. *)
Finished == IF bound = 0 THEN forwarder ELSE [forwarder EXCEPT ![bound].done = TRUE]

(* slot.assignWithFanout *)
Assign(p) ==
  /\ made < MaxForwarders /\ putting = Idle
  /\ made' = made + 1 /\ bound' = made'
  /\ forwarder' = [Finished EXCEPT ![made'] = NewForwarder(p)]
  /\ translator' = ResetSource(translator)
  /\ UNCHANGED <<ended, packets, muted, putting, numbered, written>>

(* slot.release *)
Release ==
  /\ bound # 0 /\ putting = Idle
  /\ bound' = 0
  /\ forwarder' = Finished
  /\ UNCHANGED <<made, ended, packets, muted, putting, translator, numbered, written>>

(* shouldForwardAudio changes: the microphone, or a screen share. *)
SetMuted(p) ==
  /\ kind = "audio"
  /\ muted' = IF p \in muted THEN muted \ {p} ELSE muted \cup {p}
  /\ UNCHANGED <<made, forwarder, ended, bound, packets, putting, translator, numbered, written>>

-----------------------------------------------------------------------------
(* readLoop and distribute *)

ReadLoop(p) ==
  /\ putting = Idle /\ packets[p] < MaxPackets
  /\ packets' = [packets EXCEPT ![p] = @ + 1]
  /\ \E key \in IF kind = "video" THEN BOOLEAN ELSE {TRUE} :
       putting' = IF bound # 0 /\ forwarder[bound].owner = p /\ bound \notin ended
                  THEN [at |-> "put", packet |-> [from |-> p, n |-> packets'[p], key |-> key]]
                  ELSE Idle
  /\ UNCHANGED <<made, forwarder, ended, bound, muted, translator, numbered, written>>

Full == Len(forwarder[bound].queue) >= Buffer
Put == forwarder' = [forwarder EXCEPT ![bound].queue = Append(@, putting.packet)]

(* distribute puts the packet, or makes room by taking the oldest. *)
Distribute ==
  /\ putting.at = "put"
  /\ IF ~Full THEN Put /\ putting' = Idle
     ELSE /\ forwarder' = [forwarder EXCEPT ![bound].queue = Tail(@)]
          /\ putting' = [putting EXCEPT !.at = IF kind = "video" THEN "mark" ELSE "again"]
  /\ UNCHANGED <<made, ended, bound, packets, muted, translator, numbered, written>>

MarkResync ==
  /\ putting.at = "mark"
  /\ forwarder' = [forwarder EXCEPT ![bound].resyncNeeded = TRUE]
  /\ putting' = [putting EXCEPT !.at = "again"]
  /\ UNCHANGED <<made, ended, bound, packets, muted, translator, numbered, written>>

DistributeAgain ==
  /\ putting.at = "again"
  /\ IF Full THEN UNCHANGED forwarder ELSE Put
  /\ putting' = Idle
  /\ UNCHANGED <<made, ended, bound, packets, muted, translator, numbered, written>>

-----------------------------------------------------------------------------
(* run *)

(* The select: a packet, or the end.  Both may be ready. *)
Receive(f) ==
  /\ f <= made /\ f \notin ended /\ forwarder[f].at = "select" /\ forwarder[f].queue # <<>>
  /\ forwarder' = [forwarder EXCEPT ![f].taken = Head(forwarder[f].queue), ![f].queue = Tail(@),
                                   ![f].at = "decide"]
  /\ UNCHANGED <<made, ended, bound, packets, muted, putting, translator, numbered, written>>

Return(f) ==
  /\ f <= made /\ f \notin ended /\ forwarder[f].done /\ forwarder[f].at = "select"
  /\ ended' = ended \cup {f}
  /\ UNCHANGED <<made, forwarder, bound, packets, muted, putting, translator, numbered, written>>

(* ssnTranslator.translate: a new owner goes on after the last number sent. *)
TranslateSameOffset(t, packet) ==
  LET offset == IF t.owner = None /\ t.hasWritten THEN (t.last + 1 - packet.n) % Modulus ELSE t.offset
  IN  [owner |-> packet.from, offset |-> offset, last |-> (packet.n + offset) % Modulus,
       hasWritten |-> TRUE]

Translate(t, packet) ==
  LET offset == IF t.owner = packet.from THEN t.offset
                ELSE IF t.hasWritten THEN (t.last + 1 - packet.n) % Modulus ELSE 0
  IN  [owner |-> packet.from, offset |-> offset, last |-> (packet.n + offset) % Modulus,
       hasWritten |-> TRUE]

(* The taken packet is dropped while the publisher is muted or before a
   keyframe. *)
Dropped(f, g) ==
  IF kind = "audio" THEN g.owner \in muted ELSE g.waitingKeyframe /\ ~g.taken.key

Resynced(f) == kind = "video" /\ forwarder[f].resyncNeeded

Heeded(f) ==
  [forwarder[f] EXCEPT !.waitingKeyframe = @ \/ Resynced(f), !.resyncNeeded = FALSE]

(* The translator is to start anew after an overflow, after a pause, and with
   the keyframe that was waited for. *)
Decide(f) ==
  LET g == Heeded(f)
      restarts == IF kind = "audio" THEN g.wasMuted ELSE g.waitingKeyframe
  IN  /\ g.at = "decide"
      /\ forwarder' = [forwarder EXCEPT ![f] =
           IF Dropped(f, g)
           THEN [g EXCEPT !.taken = NoPacket, !.wasMuted = (kind = "audio"),
                          !.at = IF Resynced(f) THEN "reset" ELSE "select"]
           ELSE [g EXCEPT !.wasMuted = FALSE, !.waitingKeyframe = FALSE,
                          !.at = IF restarts THEN "reset" ELSE "translate"]]
      /\ UNCHANGED <<made, ended, bound, packets, muted, putting, translator, numbered, written>>

Reset(f) ==
  /\ forwarder[f].at = "reset"
  /\ translator' = ResetSource(translator)
  /\ forwarder' = [forwarder EXCEPT ![f].at =
                     IF forwarder[f].taken = NoPacket THEN "select" ELSE "translate"]
  /\ UNCHANGED <<made, ended, bound, packets, muted, putting, numbered, written>>

(* The packet gets its number under the lock of the translator ... *)
GetNumber(f) ==
  LET packet == forwarder[f].taken
  IN  /\ forwarder[f].at = "translate"
      /\ translator' = Translate(translator, packet)
      /\ numbered' = Append(numbered, [by |-> f, from |-> packet.from, n |-> packet.n,
                                       key |-> packet.key, ssn |-> translator'.last])
      /\ forwarder' = [forwarder EXCEPT ![f].taken = NoPacket, ![f].at = "write"]
      /\ UNCHANGED <<made, ended, bound, packets, muted, putting, written>>

Unwritten(f) ==
  {i \in DOMAIN numbered : numbered[i].by = f /\ \A j \in DOMAIN written : written[j] # i}

(* ... and is written without it. *)
WriteRTP(f) ==
  /\ forwarder[f].at = "write"
  /\ \E i \in Unwritten(f) : written' = Append(written, i)
  /\ forwarder' = [forwarder EXCEPT ![f].at = "select"]
  /\ UNCHANGED <<made, ended, bound, packets, muted, putting, translator, numbered>>

Next ==
  /\ UNCHANGED kind
  /\ \/ \E p \in Publishers : Assign(p) \/ SetMuted(p) \/ ReadLoop(p)
     \/ Release \/ Distribute \/ MarkResync \/ DistributeAgain
     \/ \E f \in Forwarders : Receive(f) \/ Return(f) \/ Decide(f) \/ Reset(f) \/ GetNumber(f) \/ WriteRTP(f)

Spec == Init /\ [][Next]_vars

-----------------------------------------------------------------------------
Step(i) == (numbered[i + 1].ssn - numbered[i].ssn) % Modulus
Adjacent == 1 .. Len(numbered) - 1

(* Where the slot passes from one publisher to another the numbers go on by
   one, although the old forwarder may still get some; and within one forwarder
   they go on by one or skip what the queue lost, also after a pause. *)
SequenceContinues ==
  \A i \in Adjacent :
    /\ numbered[i].from # numbered[i + 1].from => Step(i) = 1
    /\ numbered[i].by = numbered[i + 1].by =>
         Step(i) \in {1, (numbered[i + 1].n - numbered[i].n) % Modulus}

(* The writes may overtake each other, but a forwarder writes in its own order,
   and a packet overtakes one of every other forwarder at most: the receiver
   finds at most that many numbers late. *)
WritesAreLateByOne ==
  \A i \in DOMAIN written : \A m, n \in 1 .. written[i] - 1 :
    /\ numbered[m].by = numbered[n].by
    /\ \A k \in 1 .. i : written[k] \notin {m, n}
    => m = n /\ numbered[m].by # numbered[written[i]].by

(* What a forwarder writes of a video begins with a keyframe, whichever packets
   the queue lost before. *)
VideoStartsWithKeyframe ==
  kind = "video" =>
    \A i \in DOMAIN written :
      (\A j \in 1 .. i - 1 : numbered[written[j]].by # numbered[written[i]].by)
        => numbered[written[i]].key

(* What comments say and the model refutes.  sfu.go:80: the next occupant of the
   slot continues its numbers without a step back, also on the wire. *)
EveryBindingContinues ==
  \A i \in Adjacent : numbered[i].by # numbered[i + 1].by => Step(i) = 1

NumbersAreWrittenInOrder ==
  \A i, j \in DOMAIN written : i < j => written[i] < written[j]

(* sfu.go:210: a video packet is sent only right after its predecessor, or as
   the start of a keyframe: no frame is delivered in part. *)
NoPartialFrame ==
  kind = "video" =>
    \A i \in DOMAIN numbered : numbered[i].key \/
      (i > 1 /\ numbered[i - 1].from = numbered[i].from /\ numbered[i - 1].n = numbered[i].n - 1)
=============================================================================
