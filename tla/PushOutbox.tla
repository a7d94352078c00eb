------------------------------ MODULE PushOutbox ------------------------------
(***************************************************************************)
(* The push_outbox table and the papo-push workers that drain it.          *)
(*                                                                         *)
(* The backend inserts one row per (user, message) to push; PUSH_WORKERS   *)
(* goroutines reserve due rows, resolve the recipient's devices, call the  *)
(* delivery provider and then delete or reschedule the row.  Every         *)
(* database call and every provider call is a step of its own, so steps of *)
(* several workers, of the app (un)registering devices and a crash         *)
(* interleave between any two of them.                                     *)
(*                                                                         *)
(* Time is abstracted: next_attempt_at is "due" or "waiting", and DueAgain *)
(* lets a waiting row fall due, be it the end of a back-off or of the      *)
(* 15-minute claim.  ClaimOutlivesBatch says whether the claim is assumed  *)
(* longer than the handling of a batch, which outbox.go asks for but       *)
(* nothing in the configuration enforces.                                  *)
(***************************************************************************)
EXTENDS Naturals, FiniteSets

CONSTANTS
    Jobs,               \* rows that may be inserted in push_outbox
    Users,
    Tokens,             \* device tokens (UNIQUE in push_devices)
    Workers,            \* the PUSH_WORKERS goroutines
    Recipient,          \* user_id of each job
    BadPayload,         \* jobs whose payload does not decode
    PushBatchSize,
    PushMaxAttempts,
    ClaimOutlivesBatch, \* is a claim always longer than the batch it covers?
    MaxFaults,          \* bound: crashes plus failed database calls
    MaxUnheard,         \* bound: calls that deliver without the worker being told
    None

ASSUME RecipientAssumption == Recipient \in [Jobs -> Users]
ASSUME BadPayloadAssumption == BadPayload \subseteq Jobs
ASSUME MaxAttemptsAssumption == PushMaxAttempts \in Nat \ {0}
ASSUME MaxFaultsAssumption == MaxFaults \in Nat /\ MaxUnheard \in Nat
ASSUME ClaimAssumption == ClaimOutlivesBatch \in BOOLEAN
ASSUME NoneAssumption == None \notin Users

VARIABLES
    outbox,     \* per job: "absent", "due", "waiting" (reserved or backing off) or "gone"
    attempts,   \* column attempts
    delivered,  \* column delivered_tokens
    owner,      \* push_devices.user_id, None when the token has no row
    enabled,    \* tokens whose row has enabled = TRUE
    pc,         \* per worker: where it stands in runLoop/processJob
    batch,      \* per worker: snapshots of the reserved jobs still to process
    job,        \* per worker: snapshot of the job being processed (a set of at most one)
    listed,     \* per worker: the devices ListEnabledPushDevices returned
    res,        \* per worker: what Send returned
    accepted,   \* history: times a device got the push of a job
    unheard,    \* history: calls that devices got and the worker never heard so
    refused,    \* history: tokens the provider refused for good, per job
    tries,      \* history: completed delivery attempts per job
    faults      \* history: crashes and failed database calls so far

rowVars    == <<outbox, attempts, delivered>>
deviceVars == <<owner, enabled>>
workerVars == <<pc, batch, job, listed, res>>
histVars   == <<accepted, unheard, refused, tries>>
vars == <<rowVars, deviceVars, workerVars, histVars, faults>>

Status == {"sent", "invalid_token", "retryable_error", "permanent_error"}

\* The part of store.PushJob the worker looks at, read once by ClaimDueJobs.
PushJob == [id : Jobs, attempts : 0 .. PushMaxAttempts, delivered : SUBSET Tokens]

Result == [sent : SUBSET Tokens, invalid : SUBSET Tokens, retry : BOOLEAN]
NoResult == [sent |-> {}, invalid |-> {}, retry |-> FALSE]
FailedCall == [sent |-> {}, invalid |-> {}, retry |-> TRUE]

Steps == {"loop", "send", "merge", "disable", "finish", "complete"}

TypeOK ==
    /\ outbox \in [Jobs -> {"absent", "due", "waiting", "gone"}]
    /\ attempts \in [Jobs -> 0 .. PushMaxAttempts]
    /\ delivered \in [Jobs -> SUBSET Tokens]
    /\ owner \in [Tokens -> Users \cup {None}]
    /\ enabled \in SUBSET Tokens
    /\ pc \in [Workers -> Steps]
    /\ batch \in [Workers -> SUBSET PushJob]
    /\ job \in [Workers -> SUBSET PushJob]
    /\ listed \in [Workers -> SUBSET Tokens]
    /\ res \in [Workers -> Result]
    /\ accepted \in [Jobs -> [Tokens -> Nat]]
    /\ unheard \in 0 .. MaxUnheard
    /\ refused \in [Jobs -> SUBSET Tokens]
    /\ tries \in [Jobs -> Nat]
    /\ faults \in 0 .. MaxFaults

Init ==
    /\ outbox = [j \in Jobs |-> "absent"]
    /\ attempts = [j \in Jobs |-> 0]
    /\ delivered = [j \in Jobs |-> {}]
    /\ owner = [t \in Tokens |-> None]
    /\ enabled = {}
    /\ pc = [w \in Workers |-> "loop"]
    /\ batch = [w \in Workers |-> {}]
    /\ job = [w \in Workers |-> {}]
    /\ listed = [w \in Workers |-> {}]
    /\ res = [w \in Workers |-> NoResult]
    /\ accepted = [j \in Jobs |-> [t \in Tokens |-> 0]]
    /\ unheard = 0
    /\ refused = [j \in Jobs |-> {}]
    /\ tries = [j \in Jobs |-> 0]
    /\ faults = 0

-----------------------------------------------------------------------------
\* Who holds what.

Held(w) == {s.id : s \in batch[w] \cup job[w]}

Row(j) == [id |-> j, attempts |-> attempts[j], delivered |-> delivered[j]]

\* A statement or a process failed; MaxFaults bounds how many do.
Fault == faults < MaxFaults /\ faults' = faults + 1

\* processJob returns: the worker goes back to its batch.
Leave(w) ==
    /\ pc' = [pc EXCEPT ![w] = "loop"]
    /\ job' = [job EXCEPT ![w] = {}]
    /\ listed' = [listed EXCEPT ![w] = {}]
    /\ res' = [res EXCEPT ![w] = NoResult]

-----------------------------------------------------------------------------
\* The backend: a notification commits together with its push job; the app
\* registers and removes device tokens.

CreatePushJobInTx(j) ==
    /\ outbox[j] = "absent"
    /\ outbox' = [outbox EXCEPT ![j] = "due"]
    /\ UNCHANGED <<attempts, delivered, deviceVars, workerVars, histVars, faults>>

\* ON CONFLICT (token): the row moves to the caller and is enabled again.
UpsertPushDevice(u, t) ==
    /\ owner' = [owner EXCEPT ![t] = u]
    /\ enabled' = enabled \cup {t}
    /\ UNCHANGED <<rowVars, workerVars, histVars, faults>>

DeletePushDevice(u, t) ==
    /\ owner[t] = u
    /\ owner' = [owner EXCEPT ![t] = None]
    /\ enabled' = enabled \ {t}
    /\ UNCHANGED <<rowVars, workerVars, histVars, faults>>

\* next_attempt_at passes, be it a back-off or a claim.
DueAgain(j) ==
    /\ outbox[j] = "waiting"
    /\ ClaimOutlivesBatch => \A w \in Workers : j \notin Held(w)
    /\ outbox' = [outbox EXCEPT ![j] = "due"]
    /\ UNCHANGED <<attempts, delivered, deviceVars, workerVars, histVars, faults>>

-----------------------------------------------------------------------------
\* A worker.

\* Variant: the rows are read but not pushed away.
ClaimDueJobsUnreserved(w) ==
    /\ pc[w] = "loop"
    /\ batch[w] = {}
    /\ \E claimed \in SUBSET {j \in Jobs : outbox[j] = "due"} :
        /\ claimed # {}
        /\ Cardinality(claimed) <= PushBatchSize
        /\ batch' = [batch EXCEPT ![w] = {Row(j) : j \in claimed}]
    /\ UNCHANGED <<rowVars, deviceVars, pc, job, listed, res, histVars, faults>>

\* Variant: the query also asks for attempts below the limit, one too low.
ClaimDueJobsBelowLimit(w) ==
    /\ pc[w] = "loop"
    /\ batch[w] = {}
    /\ \E claimed \in SUBSET {j \in Jobs : outbox[j] = "due" /\ attempts[j] + 1 < PushMaxAttempts} :
        /\ claimed # {}
        /\ Cardinality(claimed) <= PushBatchSize
        /\ outbox' = [j \in Jobs |-> IF j \in claimed THEN "waiting" ELSE outbox[j]]
        /\ batch' = [batch EXCEPT ![w] = {Row(j) : j \in claimed}]
    /\ UNCHANGED <<attempts, delivered, deviceVars, pc, job, listed, res, histVars, faults>>

\* One transaction: read the due rows and push their next_attempt_at away.
ClaimDueJobs(w) ==
    /\ pc[w] = "loop"
    /\ batch[w] = {}
    /\ \E claimed \in SUBSET {j \in Jobs : outbox[j] = "due"} :
        /\ claimed # {}
        /\ Cardinality(claimed) <= PushBatchSize
        /\ outbox' = [j \in Jobs |-> IF j \in claimed THEN "waiting" ELSE outbox[j]]
        /\ batch' = [batch EXCEPT ![w] = {Row(j) : j \in claimed}]
    /\ UNCHANGED <<attempts, delivered, deviceVars, pc, job, listed, res, histVars, faults>>

\* processJob up to the call of Send: list the devices, drop those already
\* delivered, decode the payload.
ProcessJob(w, s) ==
    LET devices == {t \in enabled : owner[t] = Recipient[s.id]} IN
    /\ pc[w] = "loop"
    /\ s \in batch[w]
    /\ batch' = [batch EXCEPT ![w] = @ \ {s}]
    /\ job' = [job EXCEPT ![w] = {s}]
    /\ listed' = [listed EXCEPT ![w] = devices]
    /\ \/ devices \subseteq s.delivered /\ pc' = [pc EXCEPT ![w] = "complete"] /\ UNCHANGED <<res, tries>>
       \/ /\ ~(devices \subseteq s.delivered)
          /\ s.id \notin BadPayload
          /\ pc' = [pc EXCEPT ![w] = "send"]
          /\ UNCHANGED <<res, tries>>
       \/ /\ ~(devices \subseteq s.delivered)
          /\ s.id \in BadPayload
          /\ pc' = [pc EXCEPT ![w] = "finish"]
          /\ res' = [res EXCEPT ![w] = FailedCall]
          /\ tries' = [tries EXCEPT ![s.id] = @ + 1]
    /\ UNCHANGED <<rowVars, deviceVars, accepted, unheard, refused, faults>>

\* ListEnabledPushDevices fails: the job is left as it was reserved.
ListFails(w, s) ==
    /\ pc[w] = "loop"
    /\ s \in batch[w]
    /\ Fault
    /\ batch' = [batch EXCEPT ![w] = @ \ {s}]
    /\ UNCHANGED <<rowVars, deviceVars, pc, job, listed, res, histVars>>

\* Devices get the push of job j; that the missed ones did, the worker is not told.
Deliver(j, heard, missed) ==
    /\ accepted' = [accepted EXCEPT ![j] =
                        [t \in Tokens |-> IF t \in heard \cup missed THEN @[t] + 1 ELSE @[t]]]
    /\ \/ missed = {} /\ UNCHANGED unheard
       \/ missed # {} /\ unheard < MaxUnheard /\ unheard' = unheard + 1

\* The provider answers for each target.  A target it calls retryable, or leaves
\* out, may have got the push: its own answer got lost behind the relay or FCM.
Send(w, s) ==
    /\ pc[w] = "send"
    /\ s \in job[w]
    /\ \E status \in [listed[w] \ s.delivered -> Status] :
        LET with(k) == {t \in listed[w] \ s.delivered : status[t] = k} IN
        /\ res' = [res EXCEPT ![w] = [sent |-> with("sent"), invalid |-> with("invalid_token"),
                                      retry |-> with("retryable_error") # {}]]
        /\ \E missed \in SUBSET with("retryable_error") : Deliver(s.id, with("sent"), missed)
        /\ refused' = [refused EXCEPT ![s.id] =
                            @ \cup with("invalid_token") \cup with("permanent_error")]
    /\ tries' = [tries EXCEPT ![s.id] = @ + 1]
    /\ pc' = [pc EXCEPT ![w] = "merge"]
    /\ UNCHANGED <<rowVars, deviceVars, batch, job, listed, faults>>

\* Network, time-out, HTTP status or undecodable answer: the whole call failed,
\* before or after some of the devices got the push.
SendFails(w, s) ==
    /\ pc[w] = "send"
    /\ s \in job[w]
    /\ \E missed \in SUBSET (listed[w] \ s.delivered) : Deliver(s.id, {}, missed)
    /\ res' = [res EXCEPT ![w] = FailedCall]
    /\ tries' = [tries EXCEPT ![s.id] = @ + 1]
    /\ pc' = [pc EXCEPT ![w] = "merge"]
    /\ UNCHANGED <<rowVars, deviceVars, batch, job, listed, refused, faults>>

\* Variant: the delivered tokens are not recorded.
MergeDeliveredTokensSkipped(w, s) ==
    /\ pc[w] = "merge"
    /\ s \in job[w]
    /\ pc' = [pc EXCEPT ![w] = "disable"]
    /\ UNCHANGED <<rowVars, deviceVars, batch, job, listed, res, histVars, faults>>

\* Set union in one UPDATE; no row, no effect.  An error is only logged.
MergeDeliveredTokens(w, s) ==
    /\ pc[w] = "merge"
    /\ s \in job[w]
    /\ \/ /\ delivered' = [delivered EXCEPT ![s.id] =
                               IF outbox[s.id] = "gone" THEN @ ELSE @ \cup res[w].sent]
          /\ UNCHANGED faults
       \/ /\ res[w].sent # {}
          /\ Fault
          /\ UNCHANGED delivered
    /\ pc' = [pc EXCEPT ![w] = "disable"]
    /\ UNCHANGED <<outbox, attempts, deviceVars, batch, job, listed, res, histVars>>

\* Variant: one delivery is taken for the delivery of the job.
DisableInvalidTokensAnySent(w) ==
    /\ pc[w] = "disable"
    /\ enabled' = enabled \ res[w].invalid
    /\ pc' = [pc EXCEPT ![w] = IF res[w].retry /\ res[w].sent = {} THEN "finish" ELSE "complete"]
    /\ UNCHANGED <<rowVars, owner, batch, job, listed, res, histVars, faults>>

\* Each invalid token is disabled, whoever owns it by now; an error is only logged.
DisableInvalidTokens(w) ==
    /\ pc[w] = "disable"
    /\ \/ enabled' = enabled \ res[w].invalid /\ UNCHANGED faults
       \/ /\ Fault
          /\ \E t \in res[w].invalid : enabled' = enabled \ (res[w].invalid \ {t})
    /\ pc' = [pc EXCEPT ![w] = IF res[w].retry THEN "finish" ELSE "complete"]
    /\ UNCHANGED <<rowVars, owner, batch, job, listed, res, histVars>>

CompletePushJob(w, s) ==
    /\ \/ pc[w] = "complete"
       \/ pc[w] = "finish" /\ s.attempts + 1 >= PushMaxAttempts
    /\ s \in job[w]
    /\ \/ outbox' = [outbox EXCEPT ![s.id] = "gone"] /\ UNCHANGED faults
       \/ Fault /\ UNCHANGED outbox
    /\ Leave(w)
    /\ UNCHANGED <<attempts, delivered, deviceVars, batch, histVars>>

\* Variants: the limit is not looked at; the count is written back unchanged.
ReschedulePushJobUnlimited(w, s) ==
    /\ pc[w] = "finish"
    /\ s \in job[w]
    /\ outbox' = [outbox EXCEPT ![s.id] = "waiting"]
    /\ attempts' = [attempts EXCEPT ![s.id] = s.attempts + 1]
    /\ Leave(w)
    /\ UNCHANGED <<delivered, deviceVars, batch, histVars, faults>>

ReschedulePushJobUncounted(w, s) ==
    /\ pc[w] = "finish"
    /\ s \in job[w]
    /\ s.attempts + 1 < PushMaxAttempts
    /\ outbox' = [outbox EXCEPT ![s.id] = IF @ = "gone" THEN @ ELSE "waiting"]
    /\ Leave(w)
    /\ UNCHANGED <<attempts, delivered, deviceVars, batch, histVars, faults>>

\* Writes the snapshot's attempts + 1 and the next back-off; no row, no effect.
ReschedulePushJob(w, s) ==
    /\ pc[w] = "finish"
    /\ s \in job[w]
    /\ s.attempts + 1 < PushMaxAttempts
    /\ \/ /\ outbox[s.id] # "gone"
          /\ outbox' = [outbox EXCEPT ![s.id] = "waiting"]
          /\ attempts' = [attempts EXCEPT ![s.id] = s.attempts + 1]
          /\ UNCHANGED faults
       \/ outbox[s.id] = "gone" /\ UNCHANGED <<outbox, attempts, faults>>
       \/ Fault /\ UNCHANGED <<outbox, attempts>>
    /\ Leave(w)
    /\ UNCHANGED <<delivered, deviceVars, batch, histVars>>

\* papo-push dies (or its context is cancelled) and comes back: every worker
\* forgets its batch; the rows stay reserved until the claim expires.
Crash ==
    /\ Fault
    /\ pc' = [w \in Workers |-> "loop"]
    /\ batch' = [w \in Workers |-> {}]
    /\ job' = [w \in Workers |-> {}]
    /\ listed' = [w \in Workers |-> {}]
    /\ res' = [w \in Workers |-> NoResult]
    /\ UNCHANGED <<rowVars, deviceVars, histVars>>

-----------------------------------------------------------------------------
WorkerStep(w) ==
    \/ ClaimDueJobs(w)
    \/ \E s \in batch[w] : ProcessJob(w, s) \/ ListFails(w, s)
    \/ \E s \in job[w] :
        \/ Send(w, s)
        \/ SendFails(w, s)
        \/ MergeDeliveredTokens(w, s)
        \/ CompletePushJob(w, s)
        \/ ReschedulePushJob(w, s)
    \/ DisableInvalidTokens(w)

Next ==
    \/ \E j \in Jobs : CreatePushJobInTx(j) \/ DueAgain(j)
    \/ \E u \in Users, t \in Tokens : UpsertPushDevice(u, t) \/ DeletePushDevice(u, t)
    \/ \E w \in Workers : WorkerStep(w)
    \/ Crash

Spec == Init /\ [][Next]_vars

\* The worker loops never block for good (a failed call is logged and the loop
\* goes on) and time passes.  Nothing is assumed of the app or of the provider.
Fairness ==
    /\ \A w \in Workers : WF_vars(WorkerStep(w))
    /\ \A j \in Jobs : WF_vars(DueAgain(j))

FairSpec == Spec /\ Fairness

-----------------------------------------------------------------------------
\* Properties.

\* A reserved job is in the hands of one worker only, which is what the comment
\* of MergeDeliveredTokens (outbox.go) takes for granted.
OneHolder ==
    \A v, w \in Workers : v # w => Held(v) \cap Held(w) = {}

\* A device gets the push of a job once more only for a delivery that left no
\* record: its answer never reached the worker, or a crash or a failed statement
\* came before the record did.  Every delivery that was heard of and written down
\* keeps all later attempts away (delivered_tokens), whoever makes them.
DuplicatesNeedFaults ==
    \A j \in Jobs, t \in Tokens : accepted[j][t] <= 1 + unheard + faults

\* PUSH_MAX_ATTEMPTS bounds the attempts really made, not only the column: an
\* attempt escapes the count only through a crash or a failed statement.
AttemptsBounded ==
    \A j \in Jobs : tries[j] <= PushMaxAttempts + faults

\* A row is deleted only when every device listed for it by the worker that
\* deletes it took the push or was refused for good, or when PUSH_MAX_ATTEMPTS
\* attempts were really made.
OnlySettledStep ==
    \A j \in Jobs :
        outbox[j] # "gone" /\ outbox'[j] = "gone" =>
           \/ tries[j] >= PushMaxAttempts
           \/ \E w \in Workers :
                 /\ j \in Held(w)
                 /\ \A t \in listed[w] : accepted[j][t] > 0 \/ t \in refused[j]
OnlySettledJobsLeave == [][OnlySettledStep]_vars

\* Every job leaves the outbox: delivered, refused or out of attempts, whatever
\* the provider answers and however the workers overlap.
EveryJobLeaves ==
    \A j \in Jobs : outbox[j] = "due" ~> outbox[j] = "gone"
-----------------------------------------------------------------------------
\* What PushDelivery sees of the table and of the workers.
DeliveryState ==
    [j \in Jobs |-> IF outbox[j] = "absent" THEN "none"
                    ELSE IF outbox[j] = "gone" THEN "settled" ELSE "pending"]

Attending(j) == {w \in Workers : \E s \in job[w] : s.id = j}

OpenAttempts == [j \in Jobs |-> {listed[w] : w \in Attending(j)}]

Delivery == INSTANCE PushDelivery WITH
    MaxAttempts <- PushMaxAttempts,
    Exclusive <- ClaimOutlivesBatch,
    state <- DeliveryState,
    open <- OpenAttempts,
    received <- accepted

\* The table and its workers implement at-least-once delivery: whatever the
\* overlap of claims, crashes and failed statements, a job leaves only from an
\* attempt that settles it; and while a claim outlives its batch, attempts at one
\* job neither overlap nor follow its end.
ImplementsDelivery == Delivery!Spec
=============================================================================
