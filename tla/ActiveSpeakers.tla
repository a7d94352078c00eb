--------------------------- MODULE ActiveSpeakers ---------------------------
(***************************************************************************)
(* Who is heard and who is shown as speaking in a voice room               *)
(* (webrtc/room.go, active_speaker.go): the levels the audio interceptor   *)
(* reports become scores, which decay with every tick of the room; a tick  *)
(* chooses the speakers of the room and the publishers each subscriber is  *)
(* sent, and prefers those who are chosen already.  A departure chooses    *)
(* the latter, too.  Both choose under the lock of the room and set what   *)
(* was chosen after it, so that an older choice may be set last.           *)
(*                                                                         *)
(* Levels and scores are in dBFS.  The time since the last audible packet  *)
(* of a user is "now" (within audioActivityWindow), "hang" (within         *)
(* audioHangover after it) or "old"; it passes from one to the next at any *)
(* moment.  Every user of the model publishes an audio track.  One         *)
(* subscriber, Listener, stands for all.                                   *)
(***************************************************************************)
EXTENDS Integers, Sequences, FiniteSets
LOCAL INSTANCE SequencesExt

CONSTANTS
  Users,        \* a set of numbers: user ids are ordered
  Listener,
  Levels,       \* the levels that packets report
  Places,       \* VoiceAudioSlots
  MaxEvents     \* bound: packets, mutes, departures

Assumptions ==
  /\ Users \subseteq Nat /\ Listener \in Users /\ Levels \subseteq Int
  /\ Places \in Nat \ {0} /\ MaxEvents \in Nat

scoreDecayPerTick == 15
scoreThreshold == -95
audioSwitchMarginDB == 6
audioActivityThreshold == -60
NoScore == -1000   \* what audioSetLocked gives those without a score

VARIABLES
  present,   \* Room.peers
  muted,     \* Peer.muted
  scores,    \* Room.scores, NoScore for none
  age,       \* Room.lastAudioActivity
  lastTopK,  \* Room.lastTopK
  heard,     \* Peer.audioSet of the listener
  muting,    \* the users whose setMuted(true) has not cleared the scores yet
  choices,   \* syncs: the listener's sets that are chosen and not set yet
  overlapped,\* history: who left while one was, until a newer one is set last
  events     \* bound

vars == <<present, muted, scores, age, lastTopK, heard, muting, choices, overlapped, events>>

Ticker == -1

TypeOK ==
  /\ present \subseteq Users /\ muted \subseteq Users /\ muting \subseteq Users
  /\ \A u \in Users : scores[u] = NoScore \/ scores[u] >= scoreThreshold
  /\ age \in [Users -> {"now", "hang", "old"}]
  /\ \A s \in {lastTopK, heard} \cup {c.set : c \in choices} : IsInjective(s) /\ Len(s) <= Places /\ ToSet(s) \subseteq Users
  /\ Listener \notin ToSet(heard) /\ overlapped \subseteq Users \ present
  /\ \A c \in choices : c.by \in Users \cup {Ticker} /\ c.present \subseteq Users

Init ==
  /\ present = Users /\ muted = Users /\ muting = {} /\ events = 0
  /\ scores = [u \in Users |-> NoScore] /\ age = [u \in Users |-> "old"]
  /\ lastTopK = <<>> /\ heard = <<>> /\ choices = {} /\ overlapped = {}

Event == events < MaxEvents /\ events' = events + 1

-----------------------------------------------------------------------------
(* stableSelectLocked *)

(* The order of the candidates: louder first, then by id. *)
Ranked(candidates) ==
  SetToSortSeq(candidates, LAMBDA u, v : scores[u] > scores[v] \/ (scores[u] = scores[v] /\ u < v))

(* The first Places of a sequence. *)
Cap(s) == SubSeq(s, 1, IF Len(s) < Places THEN Len(s) ELSE Places)

(* Those chosen already, then the loudest others. *)
Incumbents(candidates, current) == Cap(SelectSeq(current, LAMBDA u : u \in candidates))
FilledUp(candidates, current) ==
  LET kept == Incumbents(candidates, current)
  IN  Cap(kept \o SelectSeq(Ranked(candidates), LAMBDA u : u \notin ToSet(kept)))

(* The weakest chosen that is not protected: the one to be replaced. *)
Replaceable(selected) == {i \in DOMAIN selected : age[selected[i]] # "hang"}
Weaker(u, v) == scores[u] < scores[v] \/ (scores[u] = scores[v] /\ u > v)
Weakest(selected) ==
  CHOOSE i \in Replaceable(selected) :
    \A j \in Replaceable(selected) : i = j \/ Weaker(selected[i], selected[j])

BeatsIfLouder(challenger, u) == scores[challenger] > scores[u]
Beats(challenger, u) == scores[challenger] >= scores[u] + audioSwitchMarginDB

(* A challenger who is talking replaces the weakest if it beats it; the first
   that does not ends the search. *)
Challenge(challenger, state) ==
  LET selected == state.selected IN
  IF \/ state.over \/ challenger \in ToSet(selected)
     \/ age[challenger] # "now" \/ Replaceable(selected) = {}
  THEN state
  ELSE LET i == Weakest(selected) IN
       IF Beats(challenger, selected[i])
       THEN [state EXCEPT !.selected[i] = challenger]
       ELSE [state EXCEPT !.over = TRUE]

stableSelect(candidates, current) ==
  FoldLeft(LAMBDA state, u : Challenge(u, state),
           [selected |-> FilledUp(candidates, current), over |-> FALSE],
           Ranked(candidates)).selected

(* activeSpeakerCandidatesLocked: the incumbents may have paused. *)
SpeakerCandidates ==
  {u \in present \ muted :
     /\ scores[u] # NoScore
     /\ age[u] = "now" \/ (age[u] = "hang" /\ u \in ToSet(lastTopK))}

(* audioSetLocked: everybody else who publishes, with or without a score. *)
AudioCandidates == present \ (muted \cup {Listener})

-----------------------------------------------------------------------------
(* The interceptor reads a packet: reportAudioLevel, noteAudioLevel. *)
NoteAudioLevel(u, level) ==
  /\ Event
  /\ u \in present \ muted
  /\ age' = IF level >= audioActivityThreshold THEN [age EXCEPT ![u] = "now"] ELSE age
  /\ scores' = IF level > scores[u] THEN [scores EXCEPT ![u] = level] ELSE scores
  /\ UNCHANGED <<present, muted, lastTopK, heard, muting, choices, overlapped>>

TimePasses(u) ==
  /\ age' = [age EXCEPT ![u] = IF @ = "now" THEN "hang" ELSE "old"]
  /\ UNCHANGED <<present, muted, scores, lastTopK, heard, muting, choices, overlapped, events>>

Without(s, u) == SelectSeq(s, LAMBDA v : v # u)

(* setMuted(false), and the first lock of setMuted(true): Peer.updateState. *)
SetMuted(u) ==
  /\ Event /\ u \in present \ muting
  /\ muted' = IF u \in muted THEN muted \ {u} ELSE muted \cup {u}
  /\ muting' = IF u \in muted THEN muting ELSE muting \cup {u}
  /\ UNCHANGED <<present, scores, age, lastTopK, heard, choices, overlapped>>

(* The second lock of setMuted(true): the room forgets what it heard.  The
   client's next request waits for it, as its events are read one by one. *)
ForgetMuted(u) ==
  /\ u \in muting
  /\ muting' = muting \ {u}
  /\ scores' = [scores EXCEPT ![u] = NoScore]
  /\ age' = [age EXCEPT ![u] = "old"]
  /\ lastTopK' = Without(lastTopK, u)
  /\ UNCHANGED <<present, muted, heard, choices, overlapped, events>>

(* A choice for the listener, of the present and under the lock of the room. *)
Choose(by, candidates, among) ==
  choices' = choices \cup {[by |-> by, set |-> stableSelect(candidates, heard), present |-> among]}

(* removePeer, up to its unlock.  lastTopK keeps the peer until the next tick. *)
RemovePeer(u) ==
  /\ Event /\ u \in present \ {Listener}
  /\ present' = present \ {u}
  /\ scores' = [scores EXCEPT ![u] = NoScore]
  /\ age' = [age EXCEPT ![u] = "old"]
  /\ Choose(u, AudioCandidates \ {u}, present')
  /\ overlapped' = IF choices = {} THEN overlapped ELSE overlapped \cup {u}
  /\ UNCHANGED <<muted, lastTopK, heard, muting>>

Decayed(score) ==
  IF score = NoScore \/ score - scoreDecayPerTick < scoreThreshold THEN NoScore
  ELSE score - scoreDecayPerTick

(* tick, up to its unlock; the ticker sets one choice before it makes another. *)
Tick ==
  /\ \A c \in choices : c.by # Ticker
  /\ lastTopK' = stableSelect(SpeakerCandidates, lastTopK)
  /\ Choose(Ticker, AudioCandidates, present)
  /\ scores' = [u \in Users |-> Decayed(scores[u])]
  /\ UNCHANGED <<present, muted, age, heard, muting, overlapped, events>>

(* Peer.setAudioSet, called by the tick and by removePeer after the unlock. *)
setAudioSet(c) ==
  /\ heard' = c.set
  /\ choices' = choices \ {c}
  /\ overlapped' = {u \in overlapped : \E d \in choices : u \in d.present}
  /\ UNCHANGED <<present, muted, scores, age, lastTopK, muting, events>>

Next ==
  \/ \E u \in Users, level \in Levels : NoteAudioLevel(u, level)
  \/ \E u \in Users : TimePasses(u) \/ SetMuted(u) \/ ForgetMuted(u) \/ RemovePeer(u)
  \/ Tick
  \/ \E c \in choices : setAudioSet(c)

Spec == Init /\ [][Next]_vars

-----------------------------------------------------------------------------
(* A user whose microphone was turned off has no score: a packet that is being
   noted while it is turned off cannot bring the user back among the speakers
   when the scores were cleared. *)
MutedHaveNoScore == \A u \in muted \ muting : scores[u] = NoScore /\ u \notin ToSet(lastTopK)

(* Those of a choice who could have stayed and did not. *)
Ousted(candidates, old, new) == (ToSet(old) \cap candidates) \ ToSet(new)
Fair(candidates, old, new) ==
  \A u \in Ousted(candidates, old, new) :
    /\ age[u] # "hang"
    /\ \E v \in ToSet(new) \ ToSet(old) :
         age[v] = "now" /\ scores[v] >= scores[u] + audioSwitchMarginDB

(* A tick replaces a speaker, and a tick or a departure the publisher a
   subscriber is sent at that moment, only by somebody who talks and is louder
   by the margin, and never one who paused within the hangover: pauses and
   small differences do not make the slots change hands. *)
IncumbentsKeepTheirPlaceStep ==
    /\ Tick => Fair(SpeakerCandidates, lastTopK, lastTopK')
    /\ \A c \in choices' \ choices : Fair(AudioCandidates', heard, c.set)
IncumbentsKeepTheirPlace == [][IncumbentsKeepTheirPlaceStep]_vars

(* While the publishers fit into the slots, all of them are chosen. *)
AllAreHeardIfTheyFitStep ==
    \A c \in choices' \ choices :
      Cardinality(AudioCandidates') <= Places => ToSet(c.set) = AudioCandidates'
AllAreHeardIfTheyFit == [][AllAreHeardIfTheyFitStep]_vars

(* room.go:593: who left is sent no longer, once the departure has set what it
   chose.  If they left while another choice was still to be set, that one may
   bring them back: then until a later choice is set and no older one is left. *)
LeaversAreHeardNoLonger ==
    \A u \in ToSet(heard) \ present :
      u \in overlapped \/ \E c \in choices : c.by = u
=============================================================================
