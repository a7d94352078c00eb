----------------------------- MODULE PushDelivery -----------------------------
(***************************************************************************)
(* What the push outbox promises, without workers, claims, batches or      *)
(* faults: at-least-once delivery with a bounded number of attempts.       *)
(*                                                                         *)
(* A submitted job is pending until it is settled.  In between, attempts   *)
(* are opened for it, each addressed to the devices known at that moment;  *)
(* an attempt makes calls that some devices receive and others refuse for  *)
(* good, and may be let go of at any time.  A job is settled only from an  *)
(* open attempt: every device it is addressed to has received the push or  *)
(* refused it, in this or in an earlier attempt, or all attempts are spent.*)
(*                                                                         *)
(* Exclusive says whether the attempts of one job exclude each other.      *)
(***************************************************************************)
EXTENDS Naturals

CONSTANTS Jobs, Tokens, MaxAttempts, Exclusive

VARIABLES
    state,    \* per job: "none", "pending" or "settled"
    open,     \* per job: the device lists of its open attempts
    received, \* times a device received the push of a job
    refused,  \* the devices that refused a job for good
    tries     \* attempts made

vars == <<state, open, received, refused, tries>>

Init ==
    /\ state = [j \in Jobs |-> "none"]
    /\ open = [j \in Jobs |-> {}]
    /\ received = [j \in Jobs |-> [t \in Tokens |-> 0]]
    /\ refused = [j \in Jobs |-> {}]
    /\ tries = [j \in Jobs |-> 0]

Submit(j) ==
    /\ state[j] = "none"
    /\ state' = [state EXCEPT ![j] = "pending"]
    /\ UNCHANGED <<open, received, refused, tries>>

\* An attempt is opened for the devices; a job that cannot be sent at all
\* spends the attempt at once.
Open(j, devices) ==
    /\ state[j] # "none"
    /\ Exclusive => state[j] = "pending" /\ open[j] = {}
    /\ open' = [open EXCEPT ![j] = @ \cup {devices}]
    /\ \/ UNCHANGED tries
       \/ tries' = [tries EXCEPT ![j] = @ + 1]
    /\ UNCHANGED <<state, received, refused>>

\* One call: some of its devices receive the push, others refuse it for good.
Call(j, devices) ==
    /\ devices \in open[j]
    /\ Exclusive => state[j] = "pending"
    /\ \E sent \in SUBSET devices, no \in SUBSET devices :
        /\ sent \cap no = {}
        /\ received' = [received EXCEPT ![j] =
                            [t \in Tokens |-> IF t \in sent THEN @[t] + 1 ELSE @[t]]]
        /\ refused' = [refused EXCEPT ![j] = @ \cup no]
    /\ tries' = [tries EXCEPT ![j] = @ + 1]
    /\ UNCHANGED <<state, open>>

\* Attempts end: the jobs keep waiting for another one.
LetGo ==
    /\ open' \in [Jobs -> SUBSET SUBSET Tokens]
    /\ \A j \in Jobs : open'[j] \subseteq open[j]

Settled(j, devices) ==
    \/ tries[j] >= MaxAttempts
    \/ \A t \in devices : received[j][t] > 0 \/ t \in refused[j]

Settle(j) ==
    /\ state[j] = "pending"
    /\ \E devices \in open[j] : Settled(j, devices)
    /\ state' = [state EXCEPT ![j] = "settled"]
    /\ LetGo
    /\ UNCHANGED <<received, refused, tries>>

Next ==
    \/ \E j \in Jobs :
        \/ Submit(j)
        \/ \E devices \in SUBSET Tokens : Open(j, devices) \/ Call(j, devices)
        \/ Settle(j)
    \/ LetGo /\ UNCHANGED <<state, received, refused, tries>>

Spec == Init /\ [][Next]_vars
=============================================================================
