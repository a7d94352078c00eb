------------------------------ MODULE Moderation ------------------------------
(***************************************************************************)
(* Image moderation: the attachments table, the in-memory queue that the   *)
(* request handlers and the reconciler feed, the one worker goroutine that *)
(* drains it, and the supervisor of the Python process that judges images. *)
(*                                                                         *)
(* The database survives a crash of the server, everything else is lost.   *)
(* Attachments are numbered in the order they are created.  Scores are     *)
(* reduced to the verdict of the policy; WebSocket events are left out.    *)
(***************************************************************************)
EXTENDS Naturals, Sequences, FiniteSets

CONSTANTS
    MaxAttachments,     \* bound: attachments ever uploaded
    Messages,
    MessageOf,          \* the message each attachment is uploaded for
    Images,             \* attachments of a moderable MIME type
    QueueSize,          \* MODERATION_QUEUE_SIZE
    Batch,              \* reconcileBatchSize
    MaxAttempts,        \* maxModerationAttempts
    MaxFaults,          \* bound: crashes, database errors and deaths of the Python process
    None

Attachments == 1 .. MaxAttachments

Assumptions ==
    /\ MaxAttachments \in Nat /\ MaxFaults \in Nat
    /\ MessageOf \in [Attachments -> Messages] /\ Images \subseteq Attachments
    /\ {QueueSize, Batch, MaxAttempts} \subseteq Nat \ {0}
    /\ None \notin Attachments

ASSUME ModerationAssumption == Assumptions

VARIABLES
    status,     \* moderation_status; "none" before the upload, "deleted" with the row
    attempts,   \* moderation_attempts
    message,    \* "none", then "live" once the attachments are linked, "gone" when
                \* deleted; "aborted" if the request failed first
    stale,      \* "processing" rows older than staleProcessing
    posting,    \* attachments a handler has still to enqueue
    queue,      \* Service.queue
    inflight,   \* Service.inflight
    found,      \* what the reconciler listed and has still to enqueue
    pc, job,    \* the worker: where it stands, on what
    row,        \* the row it read: is it linked, with how many attempts?
    verdict,    \* what the classifier and the policy said
    sup,        \* Supervisor.state
    python,     \* is the Python process alive?
    faults      \* faults so far

dbVars     == <<status, attempts, message, stale>>
queueVars  == <<queue, inflight>>
workerVars == <<pc, job, row, verdict>>
supVars    == <<sup, python>>
vars == <<dbVars, posting, queueVars, found, workerVars, supVars, faults>>

Verdicts == {"clean", "sensitive", "blocked"}
Final == Verdicts \cup {"failed"}

TypeOK ==
    /\ status \in [Attachments -> Final \cup {"none", "pending", "processing", "deleted"}]
    /\ attempts \in [Attachments -> 0 .. MaxAttempts]
    /\ message \in [Messages -> {"none", "live", "gone", "aborted"}]
    /\ stale \in SUBSET {a \in Attachments : status[a] = "processing"}
    /\ posting \in SUBSET Attachments
    /\ queue \in Seq(Attachments) /\ Len(queue) <= QueueSize
    /\ inflight \in SUBSET Attachments
    /\ found \in SUBSET Attachments
    /\ pc \in {"idle", "read", "claim", "classify", "fail", "finish", "remove"}
    /\ job \in Attachments \cup {None}
    /\ row \in [linked : BOOLEAN, attempts : 0 .. MaxAttempts]
    /\ verdict \in Verdicts \cup {None}
    /\ sup \in {"boot", "starting", "ready", "dead", "backoff"}
    /\ python \in BOOLEAN
    /\ faults \in 0 .. MaxFaults

NoRow == [linked |-> FALSE, attempts |-> 0]

Init ==
    /\ status = [a \in Attachments |-> "none"]
    /\ attempts = [a \in Attachments |-> 0]
    /\ message = [m \in Messages |-> "none"]
    /\ stale = {}
    /\ posting = {} /\ queue = <<>> /\ inflight = {} /\ found = {}
    /\ pc = "idle" /\ job = None /\ row = NoRow /\ verdict = None
    /\ sup = "boot" /\ python = FALSE
    /\ faults = 0

Fault == faults < MaxFaults /\ faults' = faults + 1

Of(m) == {a \in Attachments : MessageOf[a] = m}

\* Variant: moderation_updated_at is not set.
SetStatusKeepsAge(a, s) ==
    /\ status' = [status EXCEPT ![a] = s]
    /\ UNCHANGED stale

\* An UPDATE of moderation_status also sets moderation_updated_at.
SetStatus(a, s) ==
    /\ status' = [status EXCEPT ![a] = s]
    /\ stale' = stale \ {a}

\* The rows of a message go with it (ON DELETE CASCADE).
Delete(m) ==
    /\ message' = [message EXCEPT ![m] = "gone"]
    /\ status' = [a \in Attachments |-> IF a \in Of(m) THEN "deleted" ELSE status[a]]
    /\ stale' = stale \ Of(m)

-----------------------------------------------------------------------------
\* The requests.

\* storeAttachment, one file of the message after the other.
CreateAttachment(a) ==
    /\ status[a] = "none" /\ message[MessageOf[a]] = "none"
    /\ \A b \in Attachments : b < a => status[b] # "none"
    /\ status' = [status EXCEPT ![a] = "pending"]
    /\ UNCHANGED <<attempts, message, stale, posting, queueVars, found, workerVars, supVars, faults>>

\* The transaction that inserts the message and links its attachments.
CreateMessage(m) ==
    /\ message[m] = "none"
    /\ \A a \in Of(m) : status[a] # "none"
    /\ message' = [message EXCEPT ![m] = "live"]
    /\ posting' = posting \cup Of(m)
    /\ UNCHANGED <<status, attempts, stale, queueVars, found, workerVars, supVars, faults>>

\* createMessageAs returns an error after it stored attachments.
CreateMessageFails(m) ==
    /\ message[m] = "none"
    /\ message' = [message EXCEPT ![m] = "aborted"]
    /\ UNCHANGED <<status, attempts, stale, posting, queueVars, found, workerVars, supVars, faults>>

DeleteMessage(m) ==
    /\ message[m] = "live"
    /\ Delete(m)
    /\ UNCHANGED <<attempts, posting, queueVars, found, workerVars, supVars, faults>>

\* cleanupMedia's first phase, an hour later.
DeleteOrphanAttachments(m) ==
    /\ message[m] = "aborted"
    /\ \E a \in Of(m) : status[a] \notin {"none", "deleted"}
    /\ status' = [a \in Attachments |->
                    IF a \in Of(m) /\ status[a] # "none" THEN "deleted" ELSE status[a]]
    /\ stale' = stale \ Of(m)
    /\ UNCHANGED <<attempts, message, posting, queueVars, found, workerVars, supVars, faults>>

\* Variant: the mark of a job that a full queue dropped is left.
EnqueueKeepsMark(a) ==
    /\ queue' = IF a \notin inflight /\ Len(queue) < QueueSize THEN Append(queue, a) ELSE queue
    /\ inflight' = inflight \cup {a}

\* enqueue: an attachment in flight is not queued twice, a full queue drops it.
\* (Marked or not, nobody else touches its mark between the two halves.)
Enqueue(a) ==
    IF a \notin inflight /\ Len(queue) < QueueSize
    THEN queue' = Append(queue, a) /\ inflight' = inflight \cup {a}
    ELSE UNCHANGED queueVars

\* publishCreatedMessage
PublishCreatedMessage(a) ==
    /\ a \in posting
    /\ posting' = posting \ {a}
    /\ Enqueue(a)
    /\ UNCHANGED <<dbVars, found, workerVars, supVars, faults>>

-----------------------------------------------------------------------------
\* The reconciler.

\* The rows the reconciler lists and the worker may claim.
Due == {a \in Attachments : status[a] = "pending" \/ a \in stale}

\* The oldest n of S.
Oldest(S, n) == {a \in S : Cardinality({b \in S : b < a}) < n}

ListModerationPending ==
    /\ found = {}
    /\ Due # {}
    /\ found' = Oldest(Due, Batch)
    /\ UNCHANGED <<dbVars, posting, queueVars, workerVars, supVars, faults>>

\* They are enqueued in the order of their creation.
Reconcile ==
    /\ \E a \in found :
         /\ \A b \in found : a <= b
         /\ found' = found \ {a}
         /\ Enqueue(a)
    /\ UNCHANGED <<dbVars, posting, workerVars, supVars, faults>>

\* Time: no living worker holds a row as long as staleProcessing.
GoesStale(a) ==
    /\ status[a] = "processing" /\ job # a /\ a \notin stale
    /\ stale' = stale \cup {a}
    /\ UNCHANGED <<status, attempts, message, posting, queueVars, found, workerVars, supVars, faults>>

-----------------------------------------------------------------------------
\* The worker: process(job).

Goto(l) == pc' = l

\* process returns and its deferred forget runs.
Return ==
    /\ pc' = "idle" /\ job' = None /\ row' = NoRow /\ verdict' = None
    /\ inflight' = inflight \ {job}

TakeJob ==
    /\ pc = "idle" /\ queue # <<>>
    /\ job' = Head(queue)
    /\ queue' = Tail(queue)
    /\ Goto("read")
    /\ UNCHANGED <<dbVars, posting, inflight, found, row, verdict, supVars, faults>>

\* GetAttachmentByID, and what follows for anything but an image.
ReadAttachment ==
    /\ pc = "read"
    /\ \/ Fault /\ Return /\ UNCHANGED <<status, stale>>
       \/ /\ status[job] = "deleted"
          /\ Return /\ UNCHANGED <<status, stale, faults>>
       \/ /\ status[job] # "deleted" /\ job \notin Images
          /\ SetStatus(job, "clean")
          /\ Return /\ UNCHANGED faults
       \/ /\ status[job] # "deleted" /\ job \in Images
          /\ row' = [linked |-> message[MessageOf[job]] = "live", attempts |-> attempts[job]]
          /\ Goto("claim")
          /\ UNCHANGED <<status, stale, inflight, job, verdict, faults>>
    /\ UNCHANGED <<attempts, message, posting, queue, found, supVars>>

\* Ready() and ClaimAttachmentForModeration, which takes a row that is due.
ClaimAttachmentForModeration ==
    /\ pc = "claim"
    /\ \/ /\ sup = "ready" /\ job \in Due
          /\ SetStatus(job, "processing")
          /\ Goto("classify")
          /\ UNCHANGED <<job, row, verdict, inflight, faults>>
       \/ /\ ~(sup = "ready" /\ job \in Due)
          /\ Return /\ UNCHANGED <<status, stale, faults>>
       \/ Fault /\ Return /\ UNCHANGED <<status, stale>>
    /\ UNCHANGED <<attempts, message, posting, queue, found, supVars>>

\* The inference: a verdict, or an error (no file, no process, a bad image).
Classify ==
    /\ pc = "classify"
    /\ \/ python /\ verdict' \in Verdicts /\ Goto("finish")
       \/ Goto("fail") /\ UNCHANGED verdict
    /\ UNCHANGED <<dbVars, posting, queueVars, found, job, row, supVars, faults>>

\* Variant: one attempt too many.
HandleInferenceFailureLate ==
    /\ pc = "fail"
    /\ IF status[job] # "deleted"
       THEN /\ attempts' = [attempts EXCEPT ![job] = @ + 1]
            /\ SetStatus(job, IF row.attempts >= MaxAttempts THEN "failed" ELSE "pending")
       ELSE UNCHANGED <<status, stale, attempts>>
    /\ Return
    /\ UNCHANGED <<message, posting, queue, found, supVars, faults>>

\* The new state is derived from the attempts of the row that was read.
HandleInferenceFailure ==
    /\ pc = "fail"
    /\ \/ /\ status[job] # "deleted"
          /\ attempts' = [attempts EXCEPT ![job] = @ + 1]
          /\ SetStatus(job, IF row.attempts + 1 >= MaxAttempts THEN "failed" ELSE "pending")
          /\ UNCHANGED faults
       \/ status[job] = "deleted" /\ UNCHANGED <<status, stale, attempts, faults>>
       \/ Fault /\ UNCHANGED <<status, stale, attempts>>
    /\ Return
    /\ UNCHANGED <<message, posting, queue, found, supVars>>

FinishAttachmentModeration ==
    /\ pc = "finish"
    /\ \/ /\ IF status[job] # "deleted" THEN SetStatus(job, verdict) ELSE UNCHANGED <<status, stale>>
          /\ IF verdict = "blocked"
             THEN Goto("remove") /\ UNCHANGED <<job, row, verdict, inflight>>
             ELSE Return
          /\ UNCHANGED faults
       \/ Fault /\ Return /\ UNCHANGED <<status, stale>>
    /\ UNCHANGED <<attempts, message, posting, queue, found, supVars>>

HandleBlocked ==
    /\ pc = "remove"
    /\ \/ row.linked /\ message[MessageOf[job]] = "live"
          /\ Delete(MessageOf[job]) /\ UNCHANGED faults
       \/ ~(row.linked /\ message[MessageOf[job]] = "live") /\ UNCHANGED <<status, stale, message, faults>>
       \/ Fault /\ UNCHANGED <<status, stale, message>>
    /\ Return
    /\ UNCHANGED <<attempts, posting, queue, found, supVars>>

-----------------------------------------------------------------------------
\* The supervisor of the Python process.

StartWorker ==
    /\ sup \in {"boot", "backoff"}
    /\ \/ sup' = "starting" /\ python' = TRUE /\ UNCHANGED faults
       \/ Fault /\ sup' = "backoff" /\ UNCHANGED python
    /\ UNCHANGED <<dbVars, posting, queueVars, found, workerVars>>

\* waitReady: the health check answers, or the process ended or took too long.
WaitReady ==
    /\ sup = "starting"
    /\ \/ python /\ sup' = "ready" /\ UNCHANGED <<python, faults>>
       \/ ~python /\ sup' = "dead" /\ UNCHANGED <<python, faults>>
       \/ Fault /\ sup' = "dead" /\ python' = FALSE
    /\ UNCHANGED <<dbVars, posting, queueVars, found, workerVars>>

WorkerDies ==
    /\ python /\ Fault
    /\ python' = FALSE
    /\ UNCHANGED <<dbVars, posting, queueVars, found, workerVars, sup>>

WorkerExited ==
    /\ sup = "ready" /\ ~python
    /\ sup' = "dead"
    /\ UNCHANGED <<dbVars, posting, queueVars, found, workerVars, python, faults>>

BackoffWait ==
    /\ sup = "dead"
    /\ sup' = "backoff"
    /\ UNCHANGED <<dbVars, posting, queueVars, found, workerVars, python, faults>>

\* The server stops, cleanly or not, and starts again; requests under way are lost.
Restart ==
    /\ Fault
    /\ posting' = {} /\ queue' = <<>> /\ inflight' = {} /\ found' = {}
    /\ pc' = "idle" /\ job' = None /\ row' = NoRow /\ verdict' = None
    /\ sup' = "boot" /\ python' = FALSE
    /\ message' = [m \in Messages |->
         IF message[m] = "none" /\ \E a \in Of(m) : status[a] # "none" THEN "aborted" ELSE message[m]]
    /\ UNCHANGED <<status, attempts, stale>>

-----------------------------------------------------------------------------
Request ==
    \/ \E a \in Attachments : CreateAttachment(a) \/ PublishCreatedMessage(a)
    \/ \E m \in Messages :
         CreateMessage(m) \/ CreateMessageFails(m) \/ DeleteMessage(m) \/ DeleteOrphanAttachments(m)

Reconciler == ListModerationPending \/ Reconcile

Process ==
    \/ TakeJob
    \/ ReadAttachment
    \/ ClaimAttachmentForModeration
    \/ Classify
    \/ HandleInferenceFailure
    \/ FinishAttachmentModeration
    \/ HandleBlocked

Supervise == StartWorker \/ WaitReady \/ WorkerExited \/ BackoffWait

Next ==
    \/ Request
    \/ Reconciler
    \/ Process
    \/ Supervise
    \/ WorkerDies
    \/ Restart
    \/ \E a \in Attachments : GoesStale(a)

Spec == Init /\ [][Next]_vars

\* Goroutines run, the ticker ticks and time passes.  Nothing is assumed of users.
Fairness ==
    /\ WF_vars(Reconciler)
    /\ WF_vars(Process)
    /\ WF_vars(Supervise)
    /\ \A a \in Attachments : WF_vars(GoesStale(a))

FairSpec == Spec /\ Fairness

-----------------------------------------------------------------------------
\* Properties.

\* The in-flight set is exactly what is queued or processed, each once: nothing is
\* processed twice at a time, and no mark is left that would shut an attachment out
\* of the queue for ever (enqueue, forget).
InflightIsExact ==
    /\ inflight = {queue[i] : i \in 1 .. Len(queue)} \cup ({job} \ {None})
    /\ \A i, j \in 1 .. Len(queue) : queue[i] = queue[j] => i = j
    /\ \A i \in 1 .. Len(queue) : queue[i] # job

\* A verdict stands: a job queued from an outdated list, a retry or a crash never
\* takes an attachment out of its final state.
VerdictsStandStep ==
    \A a \in Attachments : status[a] \in Final => status'[a] \in {status[a], "deleted"}

\* An attachment is given up after exactly MaxAttempts failures, however they are
\* spread over restarts, although the new state is derived from an earlier read.
FailedAfterMaxAttempts ==
    \A a \in Attachments : status[a] # "deleted" =>
        (attempts[a] = MaxAttempts <=> status[a] = "failed")

\* Jobs are exact and verdicts final.
VerdictsAreFinal ==
    [](InflightIsExact /\ FailedAfterMaxAttempts) /\ [][VerdictsStandStep]_vars

\* Whatever is dropped from a full queue, lost in a crash or left "processing",
\* every attachment is judged or given up in the end.
EveryAttachmentIsJudged ==
    \A a \in Attachments : status[a] \in {"pending", "processing"} ~> status[a] \in Final \cup {"deleted"}

\* "'blocked' implica exclusão da mensagem inteira" (migrations/008_moderation.sql):
\* once the worker is done with it, no message shows a blocked attachment.
BlockedMessagesGo ==
    \A a \in Attachments :
        status[a] = "blocked" /\ job # a => message[MessageOf[a]] # "live"
=============================================================================
