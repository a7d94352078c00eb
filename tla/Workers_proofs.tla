---------------------------- MODULE Workers_proofs ----------------------------
(***************************************************************************)
(* Proofs about the parts of MCWorkers.  Moderation, for any number of     *)
(* attachments and messages and any size of the queue, of a listing and of *)
(* the number of attempts: what is marked in flight, when an attachment is *)
(* given up, and that a verdict stands.  MediaStore, for any contents,     *)
(* requests and runs of the collector: no blob that is needed goes.        *)
(* Supervisor, for any processes, boots and any FCM_RELAY_RESTART_MAX: one *)
(* papo-push at a time, and not one start more than is allowed.            *)
(***************************************************************************)
EXTENDS MCWorkers, FiniteSetTheorems, TLAPS

USE ModerationAssumption

-----------------------------------------------------------------------------
(***************************************************************************)
(* The inductive invariant.                                                *)
(***************************************************************************)
\* The worker has a job unless it is idle.
JobIsTheWorkers == pc = "idle" <=> job = None

\* From the claim on, the worker deals with an image, and the attempts it read
\* are still those of the row: it alone counts them.
RowIsCurrent ==
    pc \in {"claim", "classify", "fail", "finish"} => job \in Images /\ row.attempts = attempts[job]

\* What it claimed stays claimed until it lets go, unless the row is deleted:
\* the reconciler lists it again, but nobody else claims.
ClaimIsHeld ==
    pc \in {"classify", "fail", "finish"} => status[job] \in {"processing", "deleted"}

VerdictIsThere == pc = "finish" => verdict \in Verdicts

\* Whatever is not an image is never claimed, and so never processed or failed.
OthersAreClean ==
    \A a \in Attachments \ Images : status[a] \in {"none", "pending", "clean", "deleted"}

IInv ==
    /\ TypeOK
    /\ JobIsTheWorkers
    /\ RowIsCurrent
    /\ ClaimIsHeld
    /\ VerdictIsThere
    /\ OthersAreClean
    /\ InflightIsExact
    /\ FailedAfterMaxAttempts

-----------------------------------------------------------------------------
(***************************************************************************)
(* The queue.                                                              *)
(***************************************************************************)
LEMMA Constants ==
    /\ QueueSize \in Nat /\ QueueSize > 0
    /\ MaxAttempts \in Nat /\ MaxAttempts > 0
    /\ MaxFaults \in Nat
    /\ \A a \in Attachments : MessageOf[a] \in Messages /\ a # None
BY DEF Assumptions

LEMMA EnqueueTypes ==
    ASSUME TypeOK, NEW a \in Attachments, Enqueue(a)
    PROVE  /\ queue' \in Seq(Attachments) /\ Len(queue') <= QueueSize
           /\ inflight' \in SUBSET Attachments
<1>1. CASE a \notin inflight /\ Len(queue) < QueueSize
  <2>1. queue' = Append(queue, a) /\ inflight' = inflight \cup {a}
    BY <1>1 DEF Enqueue
  <2>2. queue \in Seq(Attachments) /\ inflight \in SUBSET Attachments
    BY DEF TypeOK
  <2>3. queue' \in Seq(Attachments) /\ Len(queue') = Len(queue) + 1
    BY <2>1, <2>2
  <2>4. Len(queue') <= QueueSize
    BY <1>1, <2>2, <2>3, Constants
  <2>5. QED
    BY <2>1, <2>2, <2>3, <2>4
<1>2. CASE ~(a \notin inflight /\ Len(queue) < QueueSize)
  BY <1>2 DEF Enqueue, TypeOK, queueVars
<1>3. QED
  BY <1>1, <1>2

\* Whatever is enqueued was not in flight, so it is neither queued nor the job.
LEMMA EnqueueIsExact ==
    ASSUME TypeOK, InflightIsExact, NEW a \in Attachments, Enqueue(a), UNCHANGED job
    PROVE  InflightIsExact'
<1>1. CASE a \notin inflight /\ Len(queue) < QueueSize
  <2>1. queue' = Append(queue, a) /\ inflight' = inflight \cup {a}
    BY <1>1 DEF Enqueue
  <2>2. queue \in Seq(Attachments) /\ Len(queue) \in Nat
    BY DEF TypeOK
  <2>3. /\ Len(queue') = Len(queue) + 1
        /\ \A i \in 1 .. Len(queue) : queue'[i] = queue[i]
        /\ queue'[Len(queue) + 1] = a
    BY <2>1, <2>2
  <2>4. a # job /\ \A i \in 1 .. Len(queue) : queue[i] # a
    BY <1>1, Constants DEF InflightIsExact
  <2>5. {queue'[i] : i \in 1 .. Len(queue')} = {queue[i] : i \in 1 .. Len(queue)} \cup {a}
    BY <2>2, <2>3
  <2>6. \A i, j \in 1 .. Len(queue') : queue'[i] = queue'[j] => i = j
    BY <2>2, <2>3, <2>4 DEF InflightIsExact
  <2>7. \A i \in 1 .. Len(queue') : queue'[i] # job'
    BY <2>2, <2>3, <2>4 DEF InflightIsExact
  <2>8. inflight' = {queue'[i] : i \in 1 .. Len(queue')} \cup ({job'} \ {None})
    BY <2>1, <2>5 DEF InflightIsExact
  <2>9. QED
    BY <2>6, <2>7, <2>8 DEF InflightIsExact
<1>2. CASE ~(a \notin inflight /\ Len(queue) < QueueSize)
  BY <1>2 DEF Enqueue, InflightIsExact, queueVars
<1>3. QED
  BY <1>1, <1>2

\* The job that is taken is in flight before and after.
LEMMA TakeIsExact ==
    ASSUME TypeOK, InflightIsExact, JobIsTheWorkers, TakeJob
    PROVE  InflightIsExact'
<1>1. /\ queue \in Seq(Attachments) /\ queue # <<>> /\ job = None
      /\ job' = Head(queue) /\ queue' = Tail(queue) /\ inflight' = inflight
  BY DEF TypeOK, TakeJob, JobIsTheWorkers
<1>2. /\ Len(queue) \in Nat /\ Len(queue) > 0 /\ Len(queue') = Len(queue) - 1
      /\ \A i \in 1 .. Len(queue') : queue'[i] = queue[i + 1]
      /\ job' = queue[1]
  BY <1>1
<1>3. queue[1] \in Attachments
  BY <1>1, <1>2
<1>4. \A i \in 1 .. Len(queue') : i + 1 \in 1 .. Len(queue) /\ i + 1 # 1
  BY <1>2
<1>5. \A i, j \in 1 .. Len(queue') : queue'[i] = queue'[j] => i = j
  BY <1>2, <1>4 DEF InflightIsExact
<1>6. \A i \in 1 .. Len(queue') : queue'[i] # job'
  BY <1>2, <1>4 DEF InflightIsExact
<1>7. ASSUME NEW i \in 1 .. Len(queue), i # 1 PROVE \E j \in 1 .. Len(queue') : queue'[j] = queue[i]
  <2>1. i - 1 \in 1 .. Len(queue') /\ (i - 1) + 1 = i
    BY <1>2, <1>7
  <2>2. QED
    BY <1>2, <2>1
<1>8. {queue[i] : i \in 1 .. Len(queue)} = {queue'[i] : i \in 1 .. Len(queue')} \cup {queue[1]}
  <2>1. 1 \in 1 .. Len(queue)
    BY <1>2
  <2>2. \A i \in 1 .. Len(queue) : queue[i] \in {queue'[j] : j \in 1 .. Len(queue')} \cup {queue[1]}
    BY <1>7
  <2>3. \A j \in 1 .. Len(queue') : queue'[j] \in {queue[i] : i \in 1 .. Len(queue)}
    BY <1>2, <1>4
  <2>4. QED
    BY <2>1, <2>2, <2>3
<1>9. inflight' = {queue'[i] : i \in 1 .. Len(queue')} \cup ({job'} \ {None})
  BY <1>1, <1>2, <1>3, <1>8, Constants DEF InflightIsExact
<1>10. QED
  BY <1>5, <1>6, <1>9 DEF InflightIsExact

\* The mark that is forgotten is that of the job, which is not in the queue.
LEMMA ReturnIsExact ==
    ASSUME TypeOK, InflightIsExact, Return, UNCHANGED queue
    PROVE  InflightIsExact'
<1>1. inflight' = inflight \ {job} /\ job' = None /\ queue' = queue
  BY DEF Return
<1>2. \A i \in 1 .. Len(queue) : queue[i] \in Attachments
  BY DEF TypeOK
<1>3. QED
  BY <1>1, <1>2, Constants DEF InflightIsExact

-----------------------------------------------------------------------------
(***************************************************************************)
(* Typing.                                                                 *)
(***************************************************************************)
Handler(m) ==
    \/ CreateMessage(m) \/ CreateMessageFails(m) \/ DeleteMessage(m) \/ DeleteOrphanAttachments(m)

\* What a row may become when somebody else than the worker changes it: it is
\* created, or it goes.
Touched ==
    \A a \in Attachments :
        \/ status'[a] = status[a]
        \/ status[a] = "none" /\ status'[a] = "pending"
        \/ status'[a] = "deleted"

\* A request keeps the types and leaves the worker, the queue and the attempts alone.
LEMMA HandlerStep ==
    ASSUME TypeOK,
           \/ \E a \in Attachments : CreateAttachment(a)
           \/ \E m \in Messages : Handler(m)
    PROVE  /\ TypeOK' /\ Touched
           /\ UNCHANGED <<attempts, queueVars, workerVars>>
<1>1. ASSUME NEW a \in Attachments, CreateAttachment(a)
      PROVE  TypeOK' /\ Touched /\ UNCHANGED <<attempts, queueVars, workerVars>>
  <2>1. /\ status[a] = "none" /\ status' = [status EXCEPT ![a] = "pending"]
        /\ UNCHANGED <<attempts, message, stale, posting, queueVars, found, workerVars, supVars,
                       faults>>
    BY <1>1 DEF CreateAttachment
  <2>2. status' \in [Attachments -> Final \cup {"none", "pending", "processing", "deleted"}]
    BY <2>1 DEF TypeOK
  <2>3. a \notin stale
    BY <2>1 DEF TypeOK
  <2>4. stale' \in SUBSET {b \in Attachments : status'[b] = "processing"}
    BY <2>1, <2>3 DEF TypeOK
  <2>5. TypeOK'
    BY <2>1, <2>2, <2>4 DEF TypeOK, queueVars, workerVars, supVars
  <2>6. QED
    BY <2>1, <2>5 DEF TypeOK, Touched
<1>2. ASSUME NEW m \in Messages, CreateMessage(m)
      PROVE  TypeOK' /\ Touched /\ UNCHANGED <<attempts, queueVars, workerVars>>
  <2>1. /\ posting' \in SUBSET Attachments
        /\ message' \in [Messages -> {"none", "live", "gone", "aborted"}]
    BY <1>2 DEF CreateMessage, TypeOK, Of
  <2>2. QED
    BY <1>2, <2>1 DEF CreateMessage, TypeOK, Touched, queueVars, workerVars, supVars
<1>3. ASSUME NEW m \in Messages, CreateMessageFails(m)
      PROVE  TypeOK' /\ Touched /\ UNCHANGED <<attempts, queueVars, workerVars>>
  BY <1>3 DEF CreateMessageFails, TypeOK, Touched, queueVars, workerVars, supVars
<1>4. ASSUME NEW m \in Messages, DeleteMessage(m)
      PROVE  TypeOK' /\ Touched /\ UNCHANGED <<attempts, queueVars, workerVars>>
  <2>1. message' \in [Messages -> {"none", "live", "gone", "aborted"}]
    BY <1>4 DEF DeleteMessage, Delete, TypeOK
  <2>2. /\ status' \in [Attachments -> Final \cup {"none", "pending", "processing", "deleted"}]
        /\ stale' \in SUBSET {a \in Attachments : status'[a] = "processing"}
    BY <1>4 DEF DeleteMessage, Delete, TypeOK
  <2>3. QED
    BY <1>4, <2>1, <2>2 DEF DeleteMessage, Delete, TypeOK, Touched, queueVars, workerVars, supVars
<1>5. ASSUME NEW m \in Messages, DeleteOrphanAttachments(m)
      PROVE  TypeOK' /\ Touched /\ UNCHANGED <<attempts, queueVars, workerVars>>
  <2>1. /\ status' \in [Attachments -> Final \cup {"none", "pending", "processing", "deleted"}]
        /\ stale' \in SUBSET {a \in Attachments : status'[a] = "processing"}
    BY <1>5 DEF DeleteOrphanAttachments, TypeOK
  <2>2. QED
    BY <1>5, <2>1 DEF DeleteOrphanAttachments, TypeOK, Touched, queueVars, workerVars, supVars
<1>6. QED
  BY <1>1, <1>2, <1>3, <1>4, <1>5 DEF Handler

\* The queue and the reconciler.
Listing ==
    \/ \E a \in Attachments : PublishCreatedMessage(a) \/ GoesStale(a)
    \/ ListModerationPending \/ Reconcile

LEMMA ListingStep ==
    ASSUME TypeOK, Listing
    PROVE  /\ TypeOK'
           /\ UNCHANGED <<status, attempts, workerVars>>
<1>1. ASSUME NEW a \in Attachments, PublishCreatedMessage(a)
      PROVE  TypeOK' /\ UNCHANGED <<status, attempts, workerVars>>
  <2>1. /\ queue' \in Seq(Attachments) /\ Len(queue') <= QueueSize /\ inflight' \in SUBSET Attachments
    BY <1>1, EnqueueTypes DEF PublishCreatedMessage
  <2>2. posting' \in SUBSET Attachments /\ UNCHANGED <<dbVars, found, workerVars, supVars, faults>>
    BY <1>1 DEF PublishCreatedMessage, TypeOK
  <2>3. QED
    BY <2>1, <2>2 DEF TypeOK, dbVars, workerVars, supVars
<1>2. ASSUME NEW a \in Attachments, GoesStale(a)
      PROVE  TypeOK' /\ UNCHANGED <<status, attempts, workerVars>>
  <2>1. stale' \in SUBSET {b \in Attachments : status'[b] = "processing"}
    BY <1>2 DEF GoesStale, TypeOK
  <2>2. QED
    BY <1>2, <2>1 DEF GoesStale, TypeOK, queueVars, workerVars, supVars
<1>3. CASE ListModerationPending
  <2>1. found' \in SUBSET Attachments
    BY <1>3 DEF ListModerationPending, Oldest, Due
  <2>2. QED
    BY <1>3, <2>1 DEF ListModerationPending, TypeOK, dbVars, queueVars, workerVars, supVars
<1>4. CASE Reconcile
  <2>1. PICK a \in found : found' = found \ {a} /\ Enqueue(a)
    BY <1>4 DEF Reconcile
  <2>2. a \in Attachments /\ found' \in SUBSET Attachments
    BY <2>1 DEF TypeOK
  <2>3. /\ queue' \in Seq(Attachments) /\ Len(queue') <= QueueSize /\ inflight' \in SUBSET Attachments
    BY <2>1, <2>2, EnqueueTypes
  <2>4. QED
    BY <1>4, <2>2, <2>3 DEF Reconcile, TypeOK, dbVars, workerVars, supVars
<1>5. QED
  BY <1>1, <1>2, <1>3, <1>4 DEF Listing

\* The supervisor, its process, and a restart of the server.
LEMMA SuperviseStep ==
    ASSUME TypeOK, Supervise \/ WorkerDies
    PROVE  TypeOK' /\ UNCHANGED <<dbVars, queueVars, workerVars>>
<1>1. UNCHANGED <<dbVars, posting, queueVars, found, workerVars>>
  BY DEF Supervise, WorkerDies, StartWorker, WaitReady, WorkerExited, BackoffWait
<1>2. sup' \in {"boot", "starting", "ready", "dead", "backoff"} /\ python' \in BOOLEAN
  BY DEF TypeOK, Supervise, WorkerDies, StartWorker, WaitReady, WorkerExited, BackoffWait
<1>3. faults' = faults \/ Fault
  BY DEF Supervise, WorkerDies, StartWorker, WaitReady, WorkerExited, BackoffWait
<1>4. faults' \in 0 .. MaxFaults
  BY <1>3, Constants DEF TypeOK, Fault
<1>5. QED
  BY <1>1, <1>2, <1>4 DEF TypeOK, dbVars, queueVars, workerVars

LEMMA RestartStep ==
    ASSUME TypeOK, Restart
    PROVE  TypeOK'
<1>1. message' \in [Messages -> {"none", "live", "gone", "aborted"}]
  BY DEF TypeOK, Restart
<1>2. queue' \in Seq(Attachments) /\ Len(queue') <= QueueSize
  BY Constants DEF Restart
<1>3. row' \in [linked : BOOLEAN, attempts : 0 .. MaxAttempts] /\ faults' \in 0 .. MaxFaults
  BY Constants DEF Restart, NoRow, Fault, TypeOK
<1>4. QED
  BY <1>1, <1>2, <1>3 DEF TypeOK, Restart

-----------------------------------------------------------------------------
(***************************************************************************)
(* The worker.  A row it changes is that of its job.                       *)
(***************************************************************************)
States == Final \cup {"none", "pending", "processing", "deleted"}

LEMMA SetStatusTypes ==
    ASSUME TypeOK, NEW a \in Attachments, NEW s \in States, SetStatus(a, s)
    PROVE  /\ status' \in [Attachments -> States]
           /\ stale' \in SUBSET {b \in Attachments : status'[b] = "processing"}
BY DEF TypeOK, SetStatus, States

LEMMA KeptStatusTypes ==
    ASSUME TypeOK, UNCHANGED <<status, stale>>
    PROVE  /\ status' \in [Attachments -> States]
           /\ stale' \in SUBSET {b \in Attachments : status'[b] = "processing"}
BY DEF TypeOK, States

LEMMA JobIsAnAttachment ==
    ASSUME TypeOK, JobIsTheWorkers, pc # "idle"
    PROVE  job \in Attachments
BY DEF TypeOK, JobIsTheWorkers

LEMMA ReturnTypes ==
    ASSUME TypeOK, Return
    PROVE  /\ inflight' \in SUBSET Attachments
           /\ pc' = "idle" /\ job' = None /\ verdict' = None
           /\ row' \in [linked : BOOLEAN, attempts : 0 .. MaxAttempts]
BY Constants DEF TypeOK, Return, NoRow

LEMMA FaultTypes ==
    ASSUME TypeOK, faults' = faults \/ Fault
    PROVE  faults' \in 0 .. MaxFaults
BY Constants DEF TypeOK, Fault

\* Where the worker goes, in one step.
LEMMA TakeJobStep ==
    ASSUME TypeOK, TakeJob
    PROVE  /\ TypeOK'
           /\ job' \in Attachments /\ pc' = "read"
           /\ UNCHANGED <<status, attempts>>
<1>1. queue \in Seq(Attachments) /\ queue # <<>> /\ Len(queue) <= QueueSize
  BY DEF TypeOK, TakeJob
<1>2. job' \in Attachments /\ queue' \in Seq(Attachments) /\ Len(queue') <= QueueSize
  BY <1>1, Constants DEF TakeJob
<1>3. QED
  BY <1>2 DEF TypeOK, TakeJob, Goto, dbVars, supVars

LEMMA ReadStep ==
    ASSUME TypeOK, JobIsTheWorkers, ReadAttachment
    PROVE  /\ TypeOK'
           /\ UNCHANGED <<attempts, queue>>
           /\ \/ Return /\ UNCHANGED status
              \/ Return /\ job \notin Images /\ status' = [status EXCEPT ![job] = "clean"]
              \/ /\ job \in Images /\ pc' = "claim" /\ row'.attempts = attempts[job]
                 /\ UNCHANGED <<status, inflight, job>>
<1>1. job \in Attachments
  BY JobIsAnAttachment DEF ReadAttachment
<1>2. UNCHANGED <<attempts, message, posting, queue, found, supVars>> /\ (faults' = faults \/ Fault)
  BY DEF ReadAttachment
<1>3. CASE Return /\ UNCHANGED <<status, stale>>
  BY <1>2, <1>3, ReturnTypes, FaultTypes DEF TypeOK, supVars
<1>4. CASE job \notin Images /\ SetStatus(job, "clean") /\ Return
  <2>1. /\ status' \in [Attachments -> States]
        /\ stale' \in SUBSET {b \in Attachments : status'[b] = "processing"}
    BY <1>1, <1>4, SetStatusTypes DEF States, Final, Verdicts
  <2>2. TypeOK'
    BY <1>2, <1>4, <2>1, ReturnTypes, FaultTypes DEF TypeOK, supVars, States
  <2>3. QED
    BY <1>2, <1>4, <2>2 DEF SetStatus
<1>5. CASE /\ job \in Images
           /\ row' = [linked |-> message[MessageOf[job]] = "live", attempts |-> attempts[job]]
           /\ Goto("claim") /\ UNCHANGED <<status, stale, inflight, job, verdict, faults>>
  <2>1. attempts[job] \in 0 .. MaxAttempts /\ (message[MessageOf[job]] = "live") \in BOOLEAN
    BY <1>1 DEF TypeOK
  <2>2. row' \in [linked : BOOLEAN, attempts : 0 .. MaxAttempts] /\ row'.attempts = attempts[job]
    BY <1>5, <2>1
  <2>3. QED
    BY <1>2, <1>5, <2>2 DEF TypeOK, Goto, supVars
<1>6. QED
  BY <1>3, <1>4, <1>5 DEF ReadAttachment

LEMMA ClaimStep ==
    ASSUME TypeOK, JobIsTheWorkers, ClaimAttachmentForModeration
    PROVE  /\ TypeOK'
           /\ UNCHANGED <<attempts, queue>>
           /\ \/ Return /\ UNCHANGED status
              \/ /\ status[job] \in {"pending", "processing"}
                 /\ status' = [status EXCEPT ![job] = "processing"]
                 /\ pc' = "classify" /\ UNCHANGED <<inflight, job, row>>
<1>1. job \in Attachments
  BY JobIsAnAttachment DEF ClaimAttachmentForModeration
<1>2. /\ UNCHANGED <<attempts, message, posting, queue, found, supVars>>
      /\ faults' = faults \/ Fault
  BY DEF ClaimAttachmentForModeration
<1>3. CASE Return /\ UNCHANGED <<status, stale>>
  BY <1>2, <1>3, ReturnTypes, FaultTypes DEF TypeOK, supVars
<1>4. CASE /\ job \in Due /\ SetStatus(job, "processing") /\ Goto("classify")
           /\ UNCHANGED <<job, row, verdict, inflight, faults>>
  <2>1. /\ status' \in [Attachments -> States]
        /\ stale' \in SUBSET {b \in Attachments : status'[b] = "processing"}
    BY <1>1, <1>4, SetStatusTypes DEF States
  <2>2. status[job] \in {"pending", "processing"}
    BY <1>4 DEF Due, TypeOK
  <2>3. TypeOK'
    BY <1>2, <1>4, <2>1 DEF TypeOK, supVars, States, Goto
  <2>4. QED
    BY <1>2, <1>4, <2>2, <2>3 DEF SetStatus, Goto
<1>5. QED
  BY <1>3, <1>4 DEF ClaimAttachmentForModeration

LEMMA ClassifyStep ==
    ASSUME TypeOK, Classify
    PROVE  /\ TypeOK'
           /\ UNCHANGED <<status, attempts, queueVars, job, row>>
           /\ pc' = "fail" \/ (pc' = "finish" /\ verdict' \in Verdicts)
BY DEF TypeOK, Classify, Goto, dbVars, queueVars, supVars

\* The attempt that is counted is the last one exactly when the row is given up.
LEMMA FailureStep ==
    ASSUME TypeOK, JobIsTheWorkers, RowIsCurrent, ClaimIsHeld, FailedAfterMaxAttempts,
           HandleInferenceFailure
    PROVE  /\ TypeOK'
           /\ Return /\ UNCHANGED queue
           /\ \/ UNCHANGED <<status, attempts>>
              \/ /\ status[job] = "processing"
                 /\ attempts' = [attempts EXCEPT ![job] = @ + 1]
                 /\ status' = [status EXCEPT ![job] =
                        IF attempts[job] + 1 = MaxAttempts THEN "failed" ELSE "pending"]
<1>1. job \in Attachments /\ job \in Images /\ row.attempts = attempts[job]
  BY JobIsAnAttachment DEF HandleInferenceFailure, RowIsCurrent
<1>2. /\ Return /\ UNCHANGED <<message, posting, queue, found, supVars>>
      /\ faults' = faults \/ Fault
  BY DEF HandleInferenceFailure
<1>3. CASE UNCHANGED <<status, stale, attempts>>
  BY <1>2, <1>3, ReturnTypes, FaultTypes DEF TypeOK, supVars
<1>4. CASE /\ status[job] # "deleted" /\ attempts' = [attempts EXCEPT ![job] = @ + 1]
           /\ SetStatus(job, IF row.attempts + 1 >= MaxAttempts THEN "failed" ELSE "pending")
  <2>1. status[job] = "processing"
    BY <1>4 DEF HandleInferenceFailure, ClaimIsHeld
  <2>2. attempts[job] \in 0 .. MaxAttempts /\ attempts[job] # MaxAttempts
    BY <1>1, <2>1 DEF FailedAfterMaxAttempts, TypeOK
  <2>3. /\ attempts[job] + 1 \in 0 .. MaxAttempts
        /\ row.attempts + 1 >= MaxAttempts <=> attempts[job] + 1 = MaxAttempts
    BY <1>1, <2>2, Constants
  <2>4. attempts' \in [Attachments -> 0 .. MaxAttempts]
    BY <1>4, <2>3 DEF TypeOK
  <2>5. /\ status' \in [Attachments -> States]
        /\ stale' \in SUBSET {b \in Attachments : status'[b] = "processing"}
    BY <1>1, <1>4, SetStatusTypes DEF States, Final
  <2>6. TypeOK'
    BY <1>2, <2>4, <2>5, ReturnTypes, FaultTypes DEF TypeOK, supVars, States
  <2>7. status' = [status EXCEPT ![job] =
                IF attempts[job] + 1 = MaxAttempts THEN "failed" ELSE "pending"]
    BY <1>4, <2>3 DEF SetStatus
  <2>8. QED
    BY <1>2, <1>4, <2>1, <2>6, <2>7
<1>5. QED
  BY <1>2, <1>3, <1>4 DEF HandleInferenceFailure

LEMMA FinishStep ==
    ASSUME TypeOK, JobIsTheWorkers, ClaimIsHeld, VerdictIsThere, FinishAttachmentModeration
    PROVE  /\ TypeOK'
           /\ UNCHANGED <<attempts, queue>>
           /\ \/ UNCHANGED status
              \/ /\ status[job] = "processing" /\ verdict \in Verdicts
                 /\ status' = [status EXCEPT ![job] = verdict]
           /\ Return \/ (pc' = "remove" /\ UNCHANGED <<job, inflight>>)
<1>1. job \in Attachments /\ verdict \in Verdicts
  BY JobIsAnAttachment DEF FinishAttachmentModeration, VerdictIsThere
<1>2. /\ UNCHANGED <<attempts, message, posting, queue, found, supVars>>
      /\ faults' = faults \/ Fault
  BY DEF FinishAttachmentModeration
<1>3. Return \/ (Goto("remove") /\ UNCHANGED <<job, row, verdict, inflight>>)
  BY DEF FinishAttachmentModeration
<1>4. \/ UNCHANGED <<status, stale>>
      \/ status[job] # "deleted" /\ SetStatus(job, verdict)
  BY DEF FinishAttachmentModeration
<1>5. /\ inflight' \in SUBSET Attachments /\ job' \in Attachments \cup {None}
      /\ pc' \in {"idle", "remove"} /\ verdict' \in Verdicts \cup {None}
      /\ row' \in [linked : BOOLEAN, attempts : 0 .. MaxAttempts]
  BY <1>3, ReturnTypes DEF TypeOK, Goto
<1>6. /\ status' \in [Attachments -> States]
      /\ stale' \in SUBSET {b \in Attachments : status'[b] = "processing"}
  BY <1>1, <1>4, SetStatusTypes, KeptStatusTypes DEF States, Final
<1>7. TypeOK'
  BY <1>2, <1>5, <1>6, FaultTypes DEF TypeOK, supVars, States
<1>8. UNCHANGED status \/ (status[job] = "processing" /\ status' = [status EXCEPT ![job] = verdict])
  BY <1>4 DEF FinishAttachmentModeration, ClaimIsHeld, SetStatus
<1>9. QED
  BY <1>1, <1>2, <1>3, <1>7, <1>8 DEF Goto

LEMMA BlockedStep ==
    ASSUME TypeOK, JobIsTheWorkers, HandleBlocked
    PROVE  /\ TypeOK' /\ Touched
           /\ Return /\ UNCHANGED <<attempts, queue>>
<1>1. job \in Attachments /\ MessageOf[job] \in Messages
  BY JobIsAnAttachment, Constants DEF HandleBlocked
<1>2. /\ Return /\ UNCHANGED <<attempts, posting, queue, found, supVars>>
      /\ faults' = faults \/ Fault
  BY DEF HandleBlocked
<1>3. CASE UNCHANGED <<status, stale, message>>
  <2>1. Touched
    BY <1>3 DEF Touched
  <2>2. TypeOK'
    BY <1>2, <1>3, ReturnTypes, FaultTypes DEF TypeOK, supVars
  <2>3. QED
    BY <1>2, <2>1, <2>2
<1>4. CASE Delete(MessageOf[job])
  <2>1. /\ status' \in [Attachments -> States]
        /\ stale' \in SUBSET {b \in Attachments : status'[b] = "processing"}
        /\ message' \in [Messages -> {"none", "live", "gone", "aborted"}]
    BY <1>1, <1>4 DEF Delete, TypeOK, States
  <2>2. Touched
    BY <1>4 DEF Delete, Touched
  <2>3. TypeOK'
    BY <1>2, <2>1, ReturnTypes, FaultTypes DEF TypeOK, supVars, States
  <2>4. QED
    BY <1>2, <2>2, <2>3
<1>5. QED
  BY <1>3, <1>4 DEF HandleBlocked

-----------------------------------------------------------------------------
(***************************************************************************)
(* The steps preserve the invariant, and take no row out of a final state. *)
(***************************************************************************)
WorkerInv == JobIsTheWorkers /\ RowIsCurrent /\ ClaimIsHeld /\ VerdictIsThere
RowsInv == OthersAreClean /\ FailedAfterMaxAttempts

LEMMA TouchedRows ==
    ASSUME TypeOK, RowsInv, Touched, UNCHANGED attempts
    PROVE  RowsInv' /\ VerdictsStandStep
<1>1. VerdictsStandStep
  BY DEF Touched, VerdictsStandStep, Final, Verdicts
<1>2. OthersAreClean'
  BY DEF RowsInv, Touched, OthersAreClean
<1>3. FailedAfterMaxAttempts'
  BY DEF RowsInv, Touched, FailedAfterMaxAttempts
<1>4. QED
  BY <1>1, <1>2, <1>3 DEF RowsInv

LEMMA TouchedWorker ==
    ASSUME TypeOK, WorkerInv, Touched, UNCHANGED <<attempts, workerVars>>
    PROVE  WorkerInv'
<1>1. UNCHANGED <<pc, job, row, verdict>>
  BY DEF workerVars
<1>2. JobIsTheWorkers' /\ VerdictIsThere' /\ RowIsCurrent'
  BY <1>1 DEF WorkerInv, JobIsTheWorkers, VerdictIsThere, RowIsCurrent
<1>3. pc # "idle" => job \in Attachments
  BY JobIsAnAttachment DEF WorkerInv
<1>4. ClaimIsHeld'
  BY <1>1, <1>3 DEF WorkerInv, ClaimIsHeld, Touched
<1>5. QED
  BY <1>2, <1>4 DEF WorkerInv

LEMMA IdleWorker ==
    ASSUME Return
    PROVE  WorkerInv'
BY DEF Return, WorkerInv, JobIsTheWorkers, RowIsCurrent, ClaimIsHeld, VerdictIsThere

LEMMA KeptQueue ==
    ASSUME InflightIsExact, UNCHANGED <<queueVars, job>>
    PROVE  InflightIsExact'
BY DEF InflightIsExact, queueVars

\* Requests, the reconciler and the supervisor, whatever the worker is at.
LEMMA OthersStep ==
    ASSUME IInv,
           \/ Request \/ Reconciler \/ Supervise \/ WorkerDies
           \/ \E a \in Attachments : GoesStale(a)
    PROVE  IInv' /\ VerdictsStandStep
<1>1. TypeOK /\ WorkerInv /\ RowsInv /\ InflightIsExact
  BY DEF IInv, WorkerInv, RowsInv
<1>2. CASE \/ \E a \in Attachments : CreateAttachment(a)
           \/ \E m \in Messages : Handler(m)
  <2>1. TypeOK' /\ Touched /\ UNCHANGED <<attempts, queueVars, workerVars>>
    BY <1>1, <1>2, HandlerStep
  <2>2. UNCHANGED job
    BY <2>1 DEF workerVars
  <2>3. WorkerInv' /\ RowsInv' /\ VerdictsStandStep /\ InflightIsExact'
    BY <1>1, <2>1, <2>2, TouchedRows, TouchedWorker, KeptQueue
  <2>4. QED
    BY <2>1, <2>3 DEF IInv, WorkerInv, RowsInv
<1>3. CASE Listing
  <2>1. TypeOK' /\ UNCHANGED <<status, attempts, workerVars>>
    BY <1>1, <1>3, ListingStep
  <2>2. Touched /\ UNCHANGED job
    BY <2>1 DEF Touched, workerVars
  <2>3. WorkerInv' /\ RowsInv' /\ VerdictsStandStep
    BY <1>1, <2>1, <2>2, TouchedRows, TouchedWorker
  <2>4. UNCHANGED queueVars \/ \E a \in Attachments : Enqueue(a)
    BY <1>1, <1>3
       DEF Listing, PublishCreatedMessage, GoesStale, ListModerationPending, Reconcile, TypeOK
  <2>5. InflightIsExact'
    BY <1>1, <2>2, <2>4, EnqueueIsExact, KeptQueue
  <2>6. QED
    BY <2>1, <2>3, <2>5 DEF IInv, WorkerInv, RowsInv
<1>4. CASE Supervise \/ WorkerDies
  <2>1. TypeOK' /\ UNCHANGED <<dbVars, queueVars, workerVars>>
    BY <1>1, <1>4, SuperviseStep
  <2>2. Touched /\ UNCHANGED <<attempts, job>>
    BY <2>1 DEF Touched, dbVars, workerVars
  <2>3. WorkerInv' /\ RowsInv' /\ VerdictsStandStep /\ InflightIsExact'
    BY <1>1, <2>1, <2>2, TouchedRows, TouchedWorker, KeptQueue
  <2>4. QED
    BY <2>1, <2>3 DEF IInv, WorkerInv, RowsInv
<1>5. QED
  BY <1>2, <1>3, <1>4 DEF Request, Reconciler, Handler, Listing

LEMMA ProcessStep ==
    ASSUME IInv, Process
    PROVE  IInv' /\ VerdictsStandStep
<1>1. TypeOK /\ WorkerInv /\ RowsInv /\ InflightIsExact
  BY DEF IInv, WorkerInv, RowsInv
<1> USE <1>1
<1>2. CASE TakeJob
  <2>1. /\ TypeOK' /\ job' \in Attachments /\ pc' = "read" /\ UNCHANGED <<status, attempts>>
    BY <1>2, TakeJobStep
  <2>2. InflightIsExact'
    BY <1>2, TakeIsExact DEF WorkerInv
  <2>3. Touched
    BY <2>1 DEF Touched
  <2>4. RowsInv' /\ VerdictsStandStep
    BY <2>1, <2>3, TouchedRows
  <2>5. WorkerInv'
    BY <2>1, Constants DEF WorkerInv, JobIsTheWorkers, RowIsCurrent, ClaimIsHeld, VerdictIsThere
  <2>6. QED
    BY <2>1, <2>2, <2>4, <2>5 DEF IInv, WorkerInv, RowsInv
<1>3. CASE ReadAttachment
  <2>1. pc = "read" /\ job \in Attachments /\ job # None
    BY <1>3, JobIsAnAttachment, Constants DEF ReadAttachment, WorkerInv
  <2>2. /\ TypeOK' /\ UNCHANGED <<attempts, queue>>
    BY <1>3, ReadStep DEF WorkerInv
  <2>3. CASE Return /\ UNCHANGED status
    <3>1. Touched
      BY <2>3 DEF Touched
    <3>2. QED
      BY <2>2, <2>3, <3>1, TouchedRows, IdleWorker, ReturnIsExact DEF IInv, WorkerInv, RowsInv
  <2>4. CASE Return /\ job \notin Images /\ status' = [status EXCEPT ![job] = "clean"]
    <3>1. status[job] \in {"none", "pending", "clean", "deleted"}
      BY <2>1, <2>4 DEF RowsInv, OthersAreClean
    <3>2. /\ status'[job] = "clean"
          /\ \A a \in Attachments \ {job} : status'[a] = status[a]
      BY <2>1, <2>4 DEF TypeOK
    <3>3. VerdictsStandStep /\ OthersAreClean'
      BY <3>1, <3>2 DEF VerdictsStandStep, OthersAreClean, RowsInv, Final, Verdicts
    <3>4. FailedAfterMaxAttempts'
      <4>1. status[job] # "deleted"
        BY <1>3, <2>4, <3>2 DEF ReadAttachment, Return, SetStatus, Goto
      <4>2. QED
        BY <2>2, <3>1, <3>2, <4>1 DEF FailedAfterMaxAttempts, RowsInv
    <3>5. QED
      BY <2>2, <2>4, <3>3, <3>4, IdleWorker, ReturnIsExact DEF IInv, WorkerInv, RowsInv
  <2>5. CASE /\ job \in Images /\ pc' = "claim" /\ row'.attempts = attempts[job]
             /\ UNCHANGED <<status, inflight, job>>
    <3>1. Touched
      BY <2>5 DEF Touched
    <3>2. RowsInv' /\ VerdictsStandStep
      BY <2>2, <3>1, TouchedRows
    <3>3. WorkerInv'
      BY <2>1, <2>2, <2>5 DEF WorkerInv, JobIsTheWorkers, RowIsCurrent, ClaimIsHeld, VerdictIsThere
    <3>4. InflightIsExact'
      BY <2>2, <2>5, KeptQueue DEF queueVars
    <3>5. QED
      BY <2>2, <3>2, <3>3, <3>4 DEF IInv, WorkerInv, RowsInv
  <2>6. QED
    BY <1>3, <2>3, <2>4, <2>5, ReadStep DEF WorkerInv
<1>4. CASE ClaimAttachmentForModeration
  <2>1. job \in Attachments /\ job # None /\ job \in Images /\ row.attempts = attempts[job]
    BY <1>4, JobIsAnAttachment, Constants DEF ClaimAttachmentForModeration, WorkerInv, RowIsCurrent
  <2>2. TypeOK' /\ UNCHANGED <<attempts, queue>>
    BY <1>4, ClaimStep DEF WorkerInv
  <2>3. CASE Return /\ UNCHANGED status
    <3>1. Touched
      BY <2>3 DEF Touched
    <3>2. QED
      BY <2>2, <2>3, <3>1, TouchedRows, IdleWorker, ReturnIsExact DEF IInv, WorkerInv, RowsInv
  <2>4. CASE /\ status[job] \in {"pending", "processing"}
             /\ status' = [status EXCEPT ![job] = "processing"]
             /\ pc' = "classify" /\ UNCHANGED <<inflight, job, row>>
    <3>1. /\ status'[job] = "processing"
          /\ \A a \in Attachments \ {job} : status'[a] = status[a]
      BY <2>1, <2>4 DEF TypeOK
    <3>2. RowsInv' /\ VerdictsStandStep
      BY <2>1, <2>2, <2>4, <3>1
         DEF RowsInv, OthersAreClean, FailedAfterMaxAttempts, VerdictsStandStep, Final, Verdicts
    <3>3. WorkerInv'
      BY <2>1, <2>2, <2>4, <3>1
         DEF WorkerInv, JobIsTheWorkers, RowIsCurrent, ClaimIsHeld, VerdictIsThere
    <3>4. InflightIsExact'
      BY <2>2, <2>4, KeptQueue DEF queueVars
    <3>5. QED
      BY <2>2, <3>2, <3>3, <3>4 DEF IInv, WorkerInv, RowsInv
  <2>5. QED
    BY <1>4, <2>3, <2>4, ClaimStep DEF WorkerInv
<1>5. CASE Classify
  <2>1. /\ TypeOK' /\ UNCHANGED <<status, attempts, queueVars, job, row>>
        /\ pc' = "fail" \/ (pc' = "finish" /\ verdict' \in Verdicts)
    BY <1>5, ClassifyStep
  <2>2. Touched
    BY <2>1 DEF Touched
  <2>3. RowsInv' /\ VerdictsStandStep /\ InflightIsExact'
    BY <2>1, <2>2, TouchedRows, KeptQueue
  <2>4. WorkerInv'
    BY <1>5, <2>1 DEF Classify, WorkerInv, JobIsTheWorkers, RowIsCurrent, ClaimIsHeld, VerdictIsThere
  <2>5. QED
    BY <2>1, <2>3, <2>4 DEF IInv, WorkerInv, RowsInv
<1>6. CASE HandleInferenceFailure
  <2>1. /\ TypeOK' /\ Return /\ UNCHANGED queue
        /\ \/ UNCHANGED <<status, attempts>>
           \/ /\ status[job] = "processing"
              /\ attempts' = [attempts EXCEPT ![job] = @ + 1]
              /\ status' = [status EXCEPT ![job] =
                     IF attempts[job] + 1 = MaxAttempts THEN "failed" ELSE "pending"]
    BY <1>6, FailureStep DEF WorkerInv, RowsInv
  <2>2. job \in Attachments /\ job \in Images
    BY <1>6, JobIsAnAttachment DEF HandleInferenceFailure, WorkerInv, RowIsCurrent
  <2>3. WorkerInv' /\ InflightIsExact'
    BY <2>1, IdleWorker, ReturnIsExact
  <2>4. CASE UNCHANGED <<status, attempts>>
    <3>1. Touched
      BY <2>4 DEF Touched
    <3>2. QED
      BY <2>1, <2>3, <2>4, <3>1, TouchedRows DEF IInv, WorkerInv, RowsInv
  <2>5. CASE /\ status[job] = "processing"
             /\ attempts' = [attempts EXCEPT ![job] = @ + 1]
             /\ status' = [status EXCEPT ![job] =
                    IF attempts[job] + 1 = MaxAttempts THEN "failed" ELSE "pending"]
    <3>1. /\ attempts'[job] = attempts[job] + 1
          /\ status'[job] = IF attempts[job] + 1 = MaxAttempts THEN "failed" ELSE "pending"
          /\ \A a \in Attachments \ {job} : status'[a] = status[a] /\ attempts'[a] = attempts[a]
      BY <2>2, <2>5 DEF TypeOK
    <3>2. VerdictsStandStep
      BY <2>2, <2>5, <3>1 DEF VerdictsStandStep, Final, Verdicts
    <3>3. OthersAreClean'
      BY <2>2, <3>1 DEF RowsInv, OthersAreClean
    <3>4. FailedAfterMaxAttempts'
      BY <2>2, <3>1 DEF RowsInv, FailedAfterMaxAttempts
    <3>5. QED
      BY <2>1, <2>3, <3>2, <3>3, <3>4 DEF IInv, WorkerInv, RowsInv
  <2>6. QED
    BY <2>1, <2>4, <2>5
<1>7. CASE FinishAttachmentModeration
  <2>1. /\ TypeOK' /\ UNCHANGED <<attempts, queue>>
        /\ \/ UNCHANGED status
           \/ /\ status[job] = "processing" /\ verdict \in Verdicts
              /\ status' = [status EXCEPT ![job] = verdict]
        /\ Return \/ (pc' = "remove" /\ UNCHANGED <<job, inflight>>)
    BY <1>7, FinishStep DEF WorkerInv
  <2>2. job \in Attachments /\ job # None /\ job \in Images
    BY <1>7, JobIsAnAttachment, Constants DEF FinishAttachmentModeration, WorkerInv, RowIsCurrent
  <2>3. WorkerInv'
    BY <2>1, <2>2, IdleWorker DEF WorkerInv, JobIsTheWorkers, RowIsCurrent, ClaimIsHeld, VerdictIsThere
  <2>4. InflightIsExact'
    BY <2>1, ReturnIsExact, KeptQueue DEF queueVars
  <2>5. RowsInv' /\ VerdictsStandStep
    <3>1. CASE UNCHANGED status
      <4>1. Touched
        BY <3>1 DEF Touched
      <4>2. QED
        BY <2>1, <4>1, TouchedRows
    <3>2. CASE /\ status[job] = "processing" /\ verdict \in Verdicts
               /\ status' = [status EXCEPT ![job] = verdict]
      <4>1. /\ status'[job] = verdict
            /\ \A a \in Attachments \ {job} : status'[a] = status[a]
        BY <2>2, <3>2 DEF TypeOK
      <4>2. QED
        BY <2>1, <2>2, <3>2, <4>1
           DEF RowsInv, OthersAreClean, FailedAfterMaxAttempts, VerdictsStandStep, Final, Verdicts
    <3>3. QED
      BY <2>1, <3>1, <3>2
  <2>6. QED
    BY <2>1, <2>3, <2>4, <2>5 DEF IInv, WorkerInv, RowsInv
<1>8. CASE HandleBlocked
  <2>1. TypeOK' /\ Touched /\ Return /\ UNCHANGED <<attempts, queue>>
    BY <1>8, BlockedStep DEF WorkerInv
  <2>2. QED
    BY <2>1, TouchedRows, IdleWorker, ReturnIsExact DEF IInv, WorkerInv, RowsInv
<1>9. QED
  BY <1>2, <1>3, <1>4, <1>5, <1>6, <1>7, <1>8 DEF Process

\* A restart forgets queue, marks and job together, and keeps the rows.
LEMMA RestartKeeps ==
    ASSUME IInv, Restart
    PROVE  IInv' /\ VerdictsStandStep
<1>1. TypeOK' /\ UNCHANGED <<status, attempts>>
  BY RestartStep DEF IInv, Restart
<1>2. Touched
  BY <1>1 DEF Touched
<1>3. RowsInv' /\ VerdictsStandStep
  BY <1>1, <1>2, TouchedRows DEF IInv, RowsInv
<1>4. WorkerInv'
  BY DEF Restart, WorkerInv, JobIsTheWorkers, RowIsCurrent, ClaimIsHeld, VerdictIsThere
<1>5. InflightIsExact'
  <2>1. queue' = <<>> /\ inflight' = {} /\ job' = None
    BY DEF Restart
  <2>2. 1 .. Len(queue') = {}
    BY <2>1
  <2>3. QED
    BY <2>1, <2>2 DEF InflightIsExact
<1>6. QED
  BY <1>1, <1>3, <1>4, <1>5 DEF IInv, WorkerInv, RowsInv

LEMMA InvInit == Init => IInv
<1> SUFFICES ASSUME Init PROVE IInv
  OBVIOUS
<1>1. TypeOK
  <2>1. queue \in Seq(Attachments) /\ Len(queue) <= QueueSize
    BY Constants DEF Init
  <2>2. row \in [linked : BOOLEAN, attempts : 0 .. MaxAttempts] /\ faults \in 0 .. MaxFaults
    BY Constants DEF Init, NoRow
  <2>3. /\ status \in [Attachments -> Final \cup {"none", "pending", "processing", "deleted"}]
        /\ attempts \in [Attachments -> 0 .. MaxAttempts]
        /\ message \in [Messages -> {"none", "live", "gone", "aborted"}]
    <3>1. 0 \in 0 .. MaxAttempts
      BY Constants
    <3>2. QED
      BY <3>1 DEF Init
  <2>4. QED
    BY <2>1, <2>2, <2>3 DEF Init, TypeOK
<1>2. InflightIsExact
  <2>1. 1 .. Len(queue) = {}
    BY DEF Init
  <2>2. QED
    BY <2>1 DEF Init, InflightIsExact
<1>3. RowsInv
  BY Constants DEF Init, RowsInv, OthersAreClean, FailedAfterMaxAttempts
<1>4. QED
  BY <1>1, <1>2, <1>3
     DEF Init, IInv, RowsInv, JobIsTheWorkers, RowIsCurrent, ClaimIsHeld, VerdictIsThere

LEMMA InvNext ==
    ASSUME IInv, [Next]_vars
    PROVE  IInv' /\ VerdictsStandStep
<1>1. CASE UNCHANGED vars
  <2>1. UNCHANGED <<status, attempts, stale, message, posting, queue, inflight, found, pc, job, row,
                    verdict, sup, python, faults>>
    BY <1>1 DEF vars, dbVars, queueVars, workerVars, supVars
  <2>2. Touched /\ UNCHANGED <<queueVars, workerVars, job>>
    BY <2>1 DEF Touched, queueVars, workerVars
  <2>3. TypeOK'
    BY <2>1 DEF IInv, TypeOK
  <2>4. QED
    BY <2>1, <2>2, <2>3, TouchedRows, TouchedWorker, KeptQueue DEF IInv, WorkerInv, RowsInv
<1>2. CASE Process
  BY <1>2, ProcessStep
<1>3. CASE Restart
  BY <1>3, RestartKeeps
<1>4. CASE \/ Request \/ Reconciler \/ Supervise \/ WorkerDies
           \/ \E a \in Attachments : GoesStale(a)
  BY <1>4, OthersStep
<1>5. QED
  BY <1>1, <1>2, <1>3, <1>4 DEF Next

LEMMA InvAlways == Spec => []IInv
<1>1. Init => IInv
  BY InvInit
<1>2. IInv /\ [Next]_vars => IInv'
  BY InvNext
<1>3. QED
  BY <1>1, <1>2, PTL DEF Spec

-----------------------------------------------------------------------------
(***************************************************************************)
(* The theorems.                                                           *)
(***************************************************************************)
\* Every variable keeps its type; the queue and the counters stay within their
\* limits, and only a row that is being processed can be stale.
THEOREM TypeCorrect == Spec => []TypeOK
<1>1. IInv => TypeOK
  BY DEF IInv
<1>2. QED
  BY <1>1, InvAlways, PTL

\* However requests, the reconciler and restarts feed the queue, an attachment is
\* in flight at most once and no mark is left behind (enqueue, forget); it is given
\* up after exactly maxModerationAttempts failures, though the new state is derived
\* from the row read before the claim (handleInferenceFailure); and no late job
\* takes it out of a final state (ClaimAttachmentForModeration, isModerableImage).
THEOREM JudgedOnce == Spec => VerdictsAreFinal
<1>1. IInv => InflightIsExact /\ FailedAfterMaxAttempts
  BY DEF IInv
<1>2. IInv /\ [Next]_vars => [VerdictsStandStep]_vars
  BY InvNext
<1>3. QED
  BY <1>1, <1>2, InvAlways, PTL DEF Spec, VerdictsAreFinal

-----------------------------------------------------------------------------
(***************************************************************************)
(* The media store (MediaStore), for any contents, requests and runs of    *)
(* the collector.                                                          *)
(***************************************************************************)
\* What a request of h is about to do to its row or to its references.
Inserting(h) == \E u \in Uploads : HashOf[u] = h /\ up[u] \in {"insert", "get", "refer"}

\* A blob never uploaded again after an hour is as old as its row, and young
\* while somebody publishes it.
AgesAgree(h) ==
    /\ blobRow[h] = "fresh" => file[h] = "fresh"
    /\ blobRow[h] = "old" => file[h] = "old"
    /\ Media!Publishing(h) => file[h] # "old"
    /\ Inserting(h) => file[h] = "fresh"

\* Whatever the collector has listed or in its hands is old, and without a row
\* once the row was deleted or not found.
GarbageIsOld(h) ==
    /\ gc \in {"rows", "check", "delete", "unlink"} /\ h \in list => blobRow[h] = "old"
    /\ gc \in {"check", "delete"} /\ cur = h => blobRow[h] = "old"
    /\ gc = "unlink" /\ cur = h => blobRow[h] = "absent" /\ file[h] = "old"
    /\ gc \in {"files", "remove"} /\ h \in list => file[h] = "old"
    /\ gc = "remove" /\ h \in list => blobRow[h] = "absent"

MediaInv ==
    /\ Media!TypeOK
    /\ gc \in {"check", "delete", "unlink"} => cur \in Hashes \ list
    /\ \A h \in Hashes \ reused : AgesAgree(h) /\ GarbageIsOld(h)

LEMMA MediaConstants ==
    ASSUME Media!Assumptions
    PROVE  /\ MaxStops \in Nat /\ None \notin Hashes
           /\ \A u \in Uploads : HashOf[u] \in Hashes
BY DEF Media!Assumptions

LEMMA MediaInit == ASSUME Media!Assumptions, Media!Init PROVE MediaInv
<1>1. Media!TypeOK
  <2>1. stops \in 0 .. MaxStops
    BY MediaConstants DEF Media!Init
  <2>2. /\ file \in [Hashes -> Media!Ages] /\ blobRow \in [Hashes -> Media!Ages]
        /\ refs \in [Hashes -> SUBSET Uploads] /\ \A h \in Hashes : refs[h] = {}
        /\ up \in [Uploads -> {"idle", "write", "insert", "get", "refer", "done", "failed", "released"}]
    BY DEF Media!Init, Media!Ages
  <2> QED
    BY <2>1, <2>2 DEF Media!Init, Media!TypeOK
<1> QED
  BY <1>1 DEF Media!Init, MediaInv, AgesAgree, GarbageIsOld, Inserting, Media!Publishing

\* A request takes a step.
LEMMA GotoFacts ==
    ASSUME Media!TypeOK, NEW u \in Uploads,
           NEW l \in {"idle", "write", "insert", "get", "refer", "done", "failed", "released"},
           Media!Goto(u, l)
    PROVE  /\ up' \in [Uploads -> {"idle", "write", "insert", "get", "refer", "done", "failed", "released"}]
           /\ \A v \in Uploads : up'[v] = IF v = u THEN l ELSE up[v]
BY DEF Media!TypeOK, Media!Goto

LEMMA StatBlobKeeps ==
    ASSUME Media!Assumptions, MediaInv, NEW u \in Uploads, Media!StatBlob(u)
    PROVE  MediaInv'
<1> DEFINE l == IF u \in Streamed \/ file[HashOf[u]] = "absent" THEN "write" ELSE "insert"
<1>1. /\ Media!Goto(u, l) /\ HashOf[u] \in Hashes
      /\ UNCHANGED <<file, blobRow, refs, gc, list, cur, exists, stops>>
      /\ reused' = IF "old" \in {file[HashOf[u]], blobRow[HashOf[u]]} THEN reused \cup {HashOf[u]} ELSE reused
  BY MediaConstants DEF Media!StatBlob, Media!storeVars, Media!gcVars
<1>2. /\ up' \in [Uploads -> {"idle", "write", "insert", "get", "refer", "done", "failed", "released"}]
      /\ \A v \in Uploads : up'[v] = IF v = u THEN l ELSE up[v]
  BY <1>1, GotoFacts DEF MediaInv
<1>3. Media!TypeOK'
  BY <1>1, <1>2 DEF MediaInv, Media!TypeOK
<1>4. ASSUME NEW h \in Hashes \ reused' PROVE AgesAgree(h)' /\ GarbageIsOld(h)'
  <2>1. h \in Hashes \ reused /\ AgesAgree(h) /\ GarbageIsOld(h) /\ file[h] \in {"absent", "fresh", "old"}
    BY <1>1, <1>4 DEF MediaInv, Media!TypeOK, Media!Ages
  <2>2. GarbageIsOld(h)'
    BY <1>1, <2>1 DEF GarbageIsOld
  <2>3. CASE HashOf[u] = h
    <3>1. file[h] # "old"
      BY <1>1, <1>4, <2>3
    <3>2. Inserting(h)' => file[h] = "fresh"
      <4> SUFFICES ASSUME NEW v \in Uploads, HashOf[v] = h, up'[v] \in {"insert", "get", "refer"}
                   PROVE  file[h] = "fresh"
        BY DEF Inserting
      <4>1. CASE v = u
        BY <1>2, <2>1, <2>3, <3>1, <4>1
      <4>2. CASE v # u
        BY <1>2, <2>1, <4>2 DEF AgesAgree, Inserting
      <4> QED
        BY <4>1, <4>2
    <3> QED
      BY <1>1, <2>1, <2>2, <3>1, <3>2 DEF AgesAgree
  <2>4. CASE HashOf[u] # h
    BY <1>1, <1>2, <2>1, <2>2, <2>4 DEF AgesAgree, Inserting, Media!Publishing
  <2> QED
    BY <2>3, <2>4
<1> QED
  BY <1>1, <1>3, <1>4 DEF MediaInv

LEMMA WriteBlobKeeps ==
    ASSUME Media!Assumptions, MediaInv, NEW u \in Uploads, Media!WriteBlob(u)
    PROVE  MediaInv'
<1>1. /\ Media!Goto(u, "insert") /\ HashOf[u] \in Hashes /\ up[u] = "write"
      /\ UNCHANGED <<blobRow, refs, gc, list, cur, exists, stops, reused>>
      /\ file' = [file EXCEPT ![HashOf[u]] = "fresh"]
  BY MediaConstants DEF Media!WriteBlob, Media!gcVars
<1>2. /\ up' \in [Uploads -> {"idle", "write", "insert", "get", "refer", "done", "failed", "released"}]
      /\ \A v \in Uploads : up'[v] = IF v = u THEN "insert" ELSE up[v]
  BY <1>1, GotoFacts DEF MediaInv
<1>3. /\ file' \in [Hashes -> {"absent", "fresh", "old"}]
      /\ \A h \in Hashes : file'[h] = IF h = HashOf[u] THEN "fresh" ELSE file[h]
  BY <1>1 DEF MediaInv, Media!TypeOK, Media!Ages
<1>4. Media!TypeOK'
  BY <1>1, <1>2, <1>3 DEF MediaInv, Media!TypeOK, Media!Ages
<1>5. ASSUME NEW h \in Hashes \ reused' PROVE AgesAgree(h)' /\ GarbageIsOld(h)'
  <2>1. h \in Hashes \ reused /\ AgesAgree(h) /\ GarbageIsOld(h)
    BY <1>1, <1>5 DEF MediaInv
  <2>2. CASE HashOf[u] = h
    <3>1. file[h] # "old" /\ blobRow[h] # "old"
      BY <1>1, <2>1, <2>2 DEF AgesAgree, Media!Publishing
    <3> QED
      BY <1>1, <1>2, <1>3, <2>1, <2>2, <3>1 DEF AgesAgree, GarbageIsOld, Inserting, Media!Publishing
  <2>3. CASE HashOf[u] # h
    BY <1>1, <1>2, <1>3, <2>1, <2>3 DEF AgesAgree, GarbageIsOld, Inserting, Media!Publishing
  <2> QED
    BY <2>2, <2>3
<1> QED
  BY <1>1, <1>4, <1>5 DEF MediaInv

\* A step of a request that writes no blob, and a row at most where one was
\* absent and the blob is young.
LEMMA RequestKeeps ==
    ASSUME Media!Assumptions, MediaInv, NEW u \in Uploads, Media!TypeOK',
           NEW l \in {"get", "refer", "done", "failed", "released"},
           Media!Goto(u, l), up[u] \notin {"idle", "write"},
           l \in {"get", "refer"} => up[u] \in {"insert", "get"},
           UNCHANGED <<file, gc, list, cur, exists, stops, reused>>,
           blobRow' = blobRow \/ (up[u] = "insert" /\ blobRow' = [blobRow EXCEPT ![HashOf[u]] = "fresh"]),
           blobRow' # blobRow => blobRow[HashOf[u]] = "absent"
    PROVE  MediaInv'
<1>1. \A v \in Uploads : up'[v] = IF v = u THEN l ELSE up[v]
  BY GotoFacts DEF MediaInv
<1>2. ASSUME NEW h \in Hashes \ reused' PROVE AgesAgree(h)' /\ GarbageIsOld(h)'
  <2>1. h \in Hashes \ reused /\ AgesAgree(h) /\ GarbageIsOld(h)
    BY <1>2 DEF MediaInv
  <2>2. \/ blobRow'[h] = blobRow[h]
        \/ /\ blobRow[h] = "absent" /\ blobRow'[h] = "fresh"
           /\ HashOf[u] = h /\ up[u] = "insert"
    BY DEF MediaInv, Media!TypeOK
  <2>3. blobRow'[h] = blobRow[h] \/ (blobRow'[h] = "fresh" /\ blobRow[h] = "absent" /\ file[h] = "fresh")
    BY <2>1, <2>2 DEF AgesAgree, Inserting
  <2>4. (Inserting(h)' => Inserting(h)) /\ (Media!Publishing(h)' => Media!Publishing(h))
    BY <1>1 DEF Inserting, Media!Publishing
  <2>5. AgesAgree(h)'
    BY <2>1, <2>3, <2>4 DEF AgesAgree
  <2>6. GarbageIsOld(h)'
    BY <2>1, <2>3 DEF GarbageIsOld
  <2> QED
    BY <2>5, <2>6
<1> QED
  BY <1>2 DEF MediaInv

LEMMA InsertKeeps ==
    ASSUME Media!Assumptions, MediaInv, NEW u \in Uploads, Media!InsertMediaIfAbsent(u)
    PROVE  MediaInv'
<1>1. /\ UNCHANGED <<file, refs, gc, list, cur, exists, stops, reused>> /\ HashOf[u] \in Hashes
      /\ up[u] \in {"insert", "get"}
  BY MediaConstants DEF Media!InsertMediaIfAbsent, Media!gcVars
<1>2. PICK l \in {"get", "refer", "failed"} : Media!Goto(u, l)
  BY DEF Media!InsertMediaIfAbsent
<1>3. \/ blobRow' = blobRow
      \/ up[u] = "insert" /\ blobRow[HashOf[u]] = "absent" /\ blobRow' = [blobRow EXCEPT ![HashOf[u]] = "fresh"]
  BY DEF Media!InsertMediaIfAbsent
<1>4. up' \in [Uploads -> {"idle", "write", "insert", "get", "refer", "done", "failed", "released"}]
  BY <1>2, GotoFacts DEF MediaInv
<1>5. Media!TypeOK'
  <2>1. /\ blobRow' \in [Hashes -> Media!Ages]
        /\ \A h \in Hashes : blobRow[h] # "absent" => blobRow'[h] # "absent"
    BY <1>1, <1>3 DEF MediaInv, Media!TypeOK, Media!Ages
  <2> QED
    BY <1>1, <1>4, <2>1 DEF MediaInv, Media!TypeOK
<1> QED
  BY <1>1, <1>2, <1>3, <1>5, RequestKeeps

LEMMA ReferKeeps ==
    ASSUME Media!Assumptions, MediaInv, NEW u \in Uploads, Media!Refer(u) \/ Media!Release(u)
    PROVE  MediaInv'
<1>1. /\ UNCHANGED <<file, blobRow, gc, list, cur, exists, stops, reused>> /\ HashOf[u] \in Hashes
      /\ up[u] \in {"refer", "done"}
  BY MediaConstants DEF Media!Refer, Media!Release, Media!gcVars
<1>2. PICK l \in {"done", "failed", "released"} : Media!Goto(u, l)
  BY DEF Media!Refer, Media!Release
<1>3. /\ refs' \in [Hashes -> SUBSET Uploads]
      /\ \A h \in Hashes : refs'[h] # {} => blobRow'[h] # "absent"
  <2>1. \/ refs' = refs
        \/ blobRow[HashOf[u]] # "absent" /\ refs' = [refs EXCEPT ![HashOf[u]] = @ \cup {u}]
        \/ refs' = [refs EXCEPT ![HashOf[u]] = @ \ {u}]
    BY DEF Media!Refer, Media!Release
  <2> QED
    BY <1>1, <2>1 DEF MediaInv, Media!TypeOK
<1>4. up' \in [Uploads -> {"idle", "write", "insert", "get", "refer", "done", "failed", "released"}]
  BY <1>2, GotoFacts DEF MediaInv
<1>5. Media!TypeOK'
  BY <1>1, <1>3, <1>4 DEF MediaInv, Media!TypeOK
<1> QED
  BY <1>1, <1>2, <1>5, RequestKeeps

LEMMA AgeKeeps ==
    ASSUME Media!Assumptions, MediaInv, NEW k \in Hashes, Media!Age(k)
    PROVE  MediaInv'
<1>1. /\ ~Media!Publishing(k)
      /\ UNCHANGED <<refs, up, gc, list, cur, exists, stops, reused>>
      /\ file' = [file EXCEPT ![k] = IF file[k] = "fresh" THEN "old" ELSE file[k]]
      /\ blobRow' = [blobRow EXCEPT ![k] = IF blobRow[k] = "fresh" THEN "old" ELSE blobRow[k]]
  BY DEF Media!Age, Media!gcVars
<1>2. /\ file' \in [Hashes -> {"absent", "fresh", "old"}]
      /\ blobRow' \in [Hashes -> {"absent", "fresh", "old"}]
      /\ \A h \in Hashes : /\ file'[h] = IF h = k /\ file[h] = "fresh" THEN "old" ELSE file[h]
                           /\ blobRow'[h] = IF h = k /\ blobRow[h] = "fresh" THEN "old" ELSE blobRow[h]
  BY <1>1 DEF MediaInv, Media!TypeOK, Media!Ages
<1>3. Media!TypeOK'
  BY <1>1, <1>2 DEF MediaInv, Media!TypeOK, Media!Ages
<1>4. ASSUME NEW h \in Hashes \ reused' PROVE AgesAgree(h)' /\ GarbageIsOld(h)'
  <2>1. h \in Hashes \ reused /\ AgesAgree(h) /\ GarbageIsOld(h)
    BY <1>1, <1>4 DEF MediaInv
  <2>2. CASE h = k
    <3>1. ~Inserting(h) /\ ~Inserting(h)' /\ ~Media!Publishing(h)'
      BY <1>1, <2>2 DEF Inserting, Media!Publishing
    <3> QED
      BY <1>1, <1>2, <2>1, <2>2, <3>1 DEF AgesAgree, GarbageIsOld
  <2>3. CASE h # k
    BY <1>1, <1>2, <2>1, <2>3 DEF AgesAgree, GarbageIsOld, Inserting, Media!Publishing
  <2> QED
    BY <2>2, <2>3
<1> QED
  BY <1>1, <1>3, <1>4 DEF MediaInv

\* The collector looks, and removes nothing.
LEMMA CollectorLooks ==
    ASSUME Media!Assumptions, MediaInv,
           Media!ListMediaHashesBefore \/ Media!StatMedia \/ Media!MediaIsReferenced \/ Media!ScanMediaFiles
           \/ Media!FindExistingMediaHashes \/ Media!RunEnds
    PROVE  MediaInv'
<1>1. UNCHANGED <<file, blobRow, refs, up, reused>>
  BY DEF Media!ListMediaHashesBefore, Media!StatMedia, Media!MediaIsReferenced, Media!ScanMediaFiles,
         Media!FindExistingMediaHashes, Media!RunEnds, Media!storeVars
<1>2. /\ gc' \in {"idle", "rows", "check", "delete", "scan", "files", "remove"}
      /\ list' \in SUBSET Hashes /\ cur' \in Hashes \cup {None} /\ exists' \in BOOLEAN /\ stops' \in 0 .. MaxStops
      /\ gc' \in {"check", "delete", "unlink"} => cur' \in Hashes \ list'
  <2> USE MediaConstants DEF MediaInv, Media!TypeOK
  <2>1. CASE Media!ListMediaHashesBefore \/ Media!ScanMediaFiles \/ Media!FindExistingMediaHashes
    BY <2>1 DEF Media!ListMediaHashesBefore, Media!ScanMediaFiles, Media!FindExistingMediaHashes
  <2>2. CASE Media!StatMedia
    BY <2>2 DEF Media!StatMedia
  <2>3. CASE Media!MediaIsReferenced
    BY <2>3 DEF Media!MediaIsReferenced
  <2>4. CASE Media!RunEnds
    <3>1. stops' \in 0 .. MaxStops
      BY <2>4 DEF Media!RunEnds
    <3> QED
      BY <2>4, <3>1 DEF Media!RunEnds
  <2> QED
    BY <2>1, <2>2, <2>3, <2>4
<1>3. Media!TypeOK'
  BY <1>1, <1>2 DEF MediaInv, Media!TypeOK
<1>4. ASSUME NEW h \in Hashes \ reused' PROVE AgesAgree(h)' /\ GarbageIsOld(h)'
  <2>1. h \in Hashes \ reused /\ AgesAgree(h) /\ GarbageIsOld(h)
    BY <1>1, <1>4 DEF MediaInv
  <2>2. AgesAgree(h)'
    BY <1>1, <2>1 DEF AgesAgree, Inserting, Media!Publishing
  <2>3. GarbageIsOld(h)'
    BY <1>1, <2>1 DEF GarbageIsOld, Media!ListMediaHashesBefore, Media!StatMedia,
       Media!MediaIsReferenced, Media!ScanMediaFiles, Media!FindExistingMediaHashes, Media!RunEnds
  <2> QED
    BY <2>2, <2>3
<1> QED
  BY <1>1, <1>2, <1>3, <1>4 DEF MediaInv

LEMMA DeleteKeeps ==
    ASSUME Media!Assumptions, MediaInv, Media!DeleteMediaByHash
    PROVE  MediaInv'
<1>1. /\ UNCHANGED <<file, refs, up, list, cur, exists, stops, reused>> /\ gc = "delete" /\ cur \in Hashes \ list
      /\ \/ refs[cur] # {} /\ gc' = "idle" /\ blobRow' = blobRow
         \/ /\ refs[cur] = {} /\ blobRow' = [blobRow EXCEPT ![cur] = "absent"]
            /\ gc' \in {"unlink", "rows"}
  BY DEF MediaInv, Media!DeleteMediaByHash
<1>2. /\ blobRow' \in [Hashes -> Media!Ages]
      /\ \A h \in Hashes : blobRow'[h] = blobRow[h] \/ (h = cur /\ refs[h] = {} /\ blobRow'[h] = "absent" /\ gc' \in {"unlink", "rows"})
      /\ gc' \in {"unlink", "rows"} => blobRow'[cur] = "absent"
  BY <1>1 DEF MediaInv, Media!TypeOK, Media!Ages
<1>3. Media!TypeOK'
  BY <1>1, <1>2 DEF MediaInv, Media!TypeOK
<1>4. ASSUME NEW h \in Hashes \ reused' PROVE AgesAgree(h)' /\ GarbageIsOld(h)'
  <2>1. h \in Hashes \ reused /\ AgesAgree(h) /\ GarbageIsOld(h)
    BY <1>1, <1>4 DEF MediaInv
  <2>2. h = cur => file[h] = "old"
    BY <1>1, <2>1 DEF AgesAgree, GarbageIsOld
  <2>3. (Inserting(h)' <=> Inserting(h)) /\ (Media!Publishing(h)' <=> Media!Publishing(h))
    BY <1>1 DEF Inserting, Media!Publishing
  <2>4. AgesAgree(h)'
    BY <1>1, <1>2, <2>1, <2>3 DEF AgesAgree
  <2>5. GarbageIsOld(h)'
    BY <1>1, <1>2, <2>1, <2>2 DEF GarbageIsOld
  <2> QED
    BY <2>4, <2>5
<1> QED
  BY <1>1, <1>3, <1>4 DEF MediaInv

\* A blob that goes is old and has no row, so that nobody is publishing it.
LEMMA RemovalKeeps ==
    ASSUME Media!Assumptions, MediaInv, NEW k \in Hashes,
           k \notin reused => file[k] = "old" /\ blobRow[k] = "absent",
           k \notin reused => k \notin list' /\ gc' \notin {"check", "delete", "unlink"},
           file' = [file EXCEPT ![k] = "absent"], list' \subseteq list, gc' = gc \/ (gc = "unlink" /\ gc' = "rows"),
           UNCHANGED <<blobRow, refs, up, cur, exists, stops, reused>>
    PROVE  MediaInv'
<1>1. /\ file' \in [Hashes -> Media!Ages]
      /\ \A h \in Hashes : file'[h] = IF h = k THEN "absent" ELSE file[h]
  BY DEF MediaInv, Media!TypeOK, Media!Ages
<1>2. Media!TypeOK'
  BY <1>1 DEF MediaInv, Media!TypeOK
<1>3. ASSUME NEW h \in Hashes \ reused' PROVE AgesAgree(h)' /\ GarbageIsOld(h)'
  <2>1. h \in Hashes \ reused /\ AgesAgree(h) /\ GarbageIsOld(h)
    BY <1>3 DEF MediaInv
  <2>2. (Inserting(h)' <=> Inserting(h)) /\ (Media!Publishing(h)' <=> Media!Publishing(h))
    BY DEF Inserting, Media!Publishing
  <2>3. AgesAgree(h)'
    BY <1>1, <2>1, <2>2 DEF AgesAgree
  <2>4. GarbageIsOld(h)'
    BY <1>1, <2>1 DEF GarbageIsOld
  <2> QED
    BY <2>3, <2>4
<1> QED
  BY <1>2, <1>3 DEF MediaInv

LEMMA CollectorKeeps ==
    ASSUME Media!Assumptions, MediaInv, Media!RemoveBlob \/ Media!RemoveOrphanFile
    PROVE  MediaInv'
<1>1. CASE Media!RemoveBlob
  <2>1. /\ gc = "unlink" /\ gc' = "rows" /\ cur \in Hashes \ list
        /\ file' = [file EXCEPT ![cur] = "absent"] /\ list' = list
        /\ UNCHANGED <<blobRow, refs, up, cur, exists, stops, reused>>
    BY <1>1 DEF MediaInv, Media!RemoveBlob
  <2>2. cur \notin reused => file[cur] = "old" /\ blobRow[cur] = "absent"
    BY <2>1 DEF MediaInv, GarbageIsOld
  <2> QED
    BY <2>1, <2>2, RemovalKeeps
<1>2. ASSUME NEW k \in list, Media!RemoveOrphanFile, file' = [file EXCEPT ![k] = "absent"], list' = list \ {k}, gc' = gc
      PROVE  MediaInv'
  <2>1. gc = "remove" /\ UNCHANGED <<blobRow, refs, up, cur, exists, stops, reused>> /\ k \in Hashes
    BY <1>2 DEF MediaInv, Media!TypeOK, Media!RemoveOrphanFile
  <2>2. k \notin reused => file[k] = "old" /\ blobRow[k] = "absent"
    BY <2>1, <1>2 DEF MediaInv, GarbageIsOld
  <2> QED
    BY <1>2, <2>1, <2>2, RemovalKeeps
<1>3. ASSUME Media!RemoveOrphanFile, gc' = "idle", UNCHANGED <<file, list>>
      PROVE  MediaInv'
  <2>1. UNCHANGED <<blobRow, refs, up, cur, exists, stops, reused>>
    BY <1>3 DEF Media!RemoveOrphanFile
  <2> QED
    BY <1>3, <2>1 DEF MediaInv, Media!TypeOK, AgesAgree, GarbageIsOld, Inserting, Media!Publishing
<1> QED
  BY <1>1, <1>2, <1>3 DEF Media!RemoveOrphanFile

LEMMA MediaStep == ASSUME Media!Assumptions, MediaInv, Media!Next PROVE MediaInv'
BY StatBlobKeeps, WriteBlobKeeps, InsertKeeps, ReferKeeps, AgeKeeps, CollectorLooks, DeleteKeeps, CollectorKeeps
   DEF Media!Next, Media!Publish, Media!CleanupMedia

LEMMA MediaIdle == ASSUME MediaInv, UNCHANGED blobVars PROVE MediaInv'
BY DEF blobVars, MediaInv, Media!TypeOK, AgesAgree, GarbageIsOld, Inserting, Media!Publishing

\* A part of a behaviour of WorkersSpec, and its steps.
LEMMA WorkersSteps ==
    ASSUME [WorkersNext]_workersVars
    PROVE  /\ part' = part
           /\ part = "media" => Media!Next \/ UNCHANGED blobVars
           /\ part = "relay" => Relay!Next \/ UNCHANGED relayVars
BY DEF WorkersNext, workersVars

\* The grace period protects uploads (mediaGracePeriod): the blob of a row that
\* is referred to is missing only if its content had been uploaded more than an
\* hour before and was published again, for any requests, contents and runs of
\* the collector.
THEOREM ReferencedBlobsSurvive ==
    WorkersSpec => [](part = "media" => Media!TypeOK /\ Media!FirstUploadsSurvive)
<1> DEFINE I == part = "media" => MediaInv
<1>1. WorkersInit => I
  BY WorkersAssumption, MediaInit DEF WorkersInit
<1>2. I /\ [WorkersNext]_workersVars => I'
  BY WorkersAssumption, WorkersSteps, MediaStep, MediaIdle
<1>3. I => (part = "media" => Media!TypeOK /\ Media!FirstUploadsSurvive)
  <2> SUFFICES ASSUME MediaInv PROVE Media!TypeOK /\ Media!FirstUploadsSurvive
    OBVIOUS
  <2> QED
    BY DEF MediaInv, AgesAgree, Media!TypeOK, Media!Ages, Media!FirstUploadsSurvive
<1> HIDE DEF I
<1> QED
  BY <1>1, <1>2, <1>3, PTL DEF WorkersSpec

-----------------------------------------------------------------------------
(***************************************************************************)
(* The supervisor of papo-push (Supervisor), for any processes, boots and *)
(* any FCM_RELAY_RESTART_MAX.                                              *)
(***************************************************************************)
RelayBetween == {"loop", "backoff", "gaveup"}
RelayRunning == {"wait", "watch", "term", "grace", "reap", "end", "endgrace"}
RelayOwn == Relay!Alive \ orphans

\* Whoever lives and is no orphan is the process Run started last; between two
\* runs there is none, and none starts once Run has returned.
ChildIsKnown ==
    /\ relaySup \in RelayBetween => RelayOwn = {} /\ cmd = None
    /\ relaySup \in RelayRunning => RelayOwn \subseteq {cmd} /\ cmd # None
    /\ relaySup = "off" => \E p \in Procs \cup {None} : RelayOwn \subseteq {p}

\* A backend that ended has nothing of its own; Boot finds what Init promises.
EndedOwnsNothing == main \in Relay!Ended => relaySup = "off" /\ RelayOwn = {} /\ cmd = None

\* Every start since a run last passed the threshold was counted, but for the
\* one that still runs.
StartsAreCounted ==
    /\ relaySup \in {"loop", "backoff"} => starts <= restarts
    /\ relaySup \in RelayRunning => restarts < FCMRelayRestartMax /\ starts <= restarts + 1
    /\ relaySup \in RelayRunning /\ lasted => starts = 0
    /\ starts <= FCMRelayRestartMax

RelayInv ==
    /\ Relay!TypeOK
    /\ ChildIsKnown
    /\ EndedOwnsNothing
    /\ StartsAreCounted

LEMMA RelayConstants ==
    ASSUME Relay!Assumptions
    PROVE  FCMRelayRestartMax \in Nat \ {0} /\ MaxBoots \in Nat \ {0} /\ None \notin Procs
BY DEF Relay!Assumptions

\* Every action keeps the types; a start needs a restart that is left.
LEMMA RelayTypes ==
    ASSUME Relay!Assumptions, RelayInv, [Relay!Next]_(Relay!vars)
    PROVE  Relay!TypeOK'
<1>0. FCMRelayRestartMax \in Nat \ {0} /\ MaxBoots \in Nat \ {0} /\ None \notin Procs
  BY RelayConstants
<1> USE <1>0 DEF Relay!mainVars, Relay!procVars, Relay!Go, RelayInv, Relay!TypeOK, Relay!Alive, Relay!Ended
<1>1. CASE Relay!Run
  <2>1. CASE Relay!Stopped("loop") \/ Relay!Stopped("backoff") \/ Relay!GiveUp
    BY <2>1 DEF Relay!Stopped, Relay!GiveUp
  <2>2. CASE Relay!StartFails \/ Relay!Healthy \/ Relay!NotHealthy \/ Relay!StopWhileReady \/ Relay!BackoffEnds
    BY <2>2 DEF Relay!StartFails, Relay!MayStart, Relay!Healthy, Relay!NotHealthy, Relay!StopWhileReady, Relay!BackoffEnds
  <2>3. ASSUME NEW p \in Procs, Relay!StartProcess(p) PROVE Relay!TypeOK'
    <3>1. Relay!Alive \subseteq Relay!Alive'
      BY <2>3 DEF Relay!StartProcess
    <3>2. starts' \in Nat
      BY <2>3 DEF Relay!StartProcess
    <3>3. QED
      BY <2>3, <3>1, <3>2 DEF Relay!StartProcess
  <2>4. CASE Relay!Terminate("term", "grace") \/ Relay!Terminate("end", "endgrace")
    BY <2>4 DEF Relay!Terminate
  <2>5. CASE Relay!Kill("grace", "reap") \/ Relay!Kill("endgrace", "off")
    <3>1. /\ proc' \in [Procs -> {"gone", "starting", "serving", "killed"}]
          /\ \A p \in Procs : proc'[p] # "gone" <=> proc[p] # "gone"
      BY <2>5 DEF Relay!Kill
    <3>2. QED
      BY <2>5, <3>1 DEF Relay!Kill
  <2>6. CASE Relay!RunEnds
    <3>1. restarts < FCMRelayRestartMax
      BY <2>6 DEF Relay!RunEnds, StartsAreCounted, RelayRunning
    <3>2. QED
      BY <2>6, <3>1 DEF Relay!RunEnds
  <2>7. QED
    BY <1>1, <2>1, <2>2, <2>3, <2>4, <2>5, <2>6 DEF Relay!Run
<1>2. CASE Relay!MinutePasses
  BY <1>2 DEF Relay!MinutePasses
<1>3. CASE Relay!Main
  <2>1. CASE Relay!Interrupt \/ Relay!ServerDrained \/ Relay!PushShutdown
    BY <2>1 DEF Relay!Interrupt, Relay!ServerDrained, Relay!PushShutdown
  <2>2. CASE Relay!MainReturns \/ Relay!FatalOnClosedServer \/ Relay!Crash
    BY <2>2 DEF Relay!MainReturns, Relay!FatalOnClosedServer, Relay!Crash, Relay!EndAs
  <2>3. CASE Relay!Boot
    <3>1. boots' \in 1 .. MaxBoots /\ restarts' \in 0 .. FCMRelayRestartMax /\ starts' \in Nat
      BY <2>3 DEF Relay!Boot
    <3>2. QED
      BY <2>3, <3>1 DEF Relay!Boot
  <2>4. QED
    BY <1>3, <2>1, <2>2, <2>3 DEF Relay!Main
<1>4. ASSUME NEW p \in Procs, Relay!Listen(p) \/ Relay!Exit(p) PROVE Relay!TypeOK'
  BY <1>4 DEF Relay!Listen, Relay!Exit
<1>5. CASE UNCHANGED Relay!vars
  BY <1>5 DEF Relay!vars
<1>6. QED
  BY <1>1, <1>2, <1>3, <1>4, <1>5 DEF Relay!Next

\* A run owns the process it started until that one is gone.
LEMMA RelayChild ==
    ASSUME Relay!Assumptions, RelayInv, Relay!TypeOK', [Relay!Next]_(Relay!vars)
    PROVE  ChildIsKnown' /\ EndedOwnsNothing'
<1>0. FCMRelayRestartMax \in Nat \ {0} /\ MaxBoots \in Nat \ {0} /\ None \notin Procs
  BY RelayConstants
<1> USE <1>0 DEF Relay!mainVars, Relay!procVars, Relay!Go, RelayInv, Relay!TypeOK, Relay!Alive, Relay!Ended, RelayOwn, ChildIsKnown, EndedOwnsNothing, RelayBetween,
                      RelayRunning
<1>1. CASE Relay!Run
  <2>0. main \notin Relay!Ended
    BY <1>1 DEF Relay!Run, Relay!Stopped, Relay!GiveUp, Relay!StartFails, Relay!StartProcess, Relay!MayStart, Relay!Healthy, Relay!NotHealthy,
                Relay!StopWhileReady, Relay!Terminate, Relay!Kill, Relay!RunEnds, Relay!BackoffEnds
  <2>1. CASE Relay!Stopped("loop") \/ Relay!Stopped("backoff") \/ Relay!GiveUp
    BY <2>0, <2>1 DEF Relay!Stopped, Relay!GiveUp
  <2>2. CASE Relay!StartFails \/ Relay!Healthy \/ Relay!NotHealthy \/ Relay!StopWhileReady \/ Relay!BackoffEnds
    BY <2>0, <2>2 DEF Relay!StartFails, Relay!Healthy, Relay!NotHealthy, Relay!StopWhileReady, Relay!BackoffEnds
  <2>3. ASSUME NEW p \in Procs, Relay!StartProcess(p) PROVE ChildIsKnown' /\ EndedOwnsNothing'
    <3>1. RelayOwn' \subseteq {p}
      BY <2>3 DEF Relay!StartProcess
    <3>2. QED
      BY <2>0, <2>3, <3>1 DEF Relay!StartProcess
  <2>4. CASE Relay!Terminate("term", "grace") \/ Relay!Terminate("end", "endgrace")
    BY <2>0, <2>4 DEF Relay!Terminate
  <2>5. CASE Relay!Kill("grace", "reap") \/ Relay!Kill("endgrace", "off")
    <3>1. RelayOwn' = RelayOwn /\ RelayOwn \subseteq {cmd} /\ cmd # None
      BY <2>5 DEF Relay!Kill
    <3>2. QED
      BY <2>0, <2>5, <3>1 DEF Relay!Kill
  <2>6. CASE Relay!RunEnds
    <3>1. RelayOwn = {}
      BY <2>6 DEF Relay!RunEnds
    <3>2. QED
      BY <2>0, <2>6, <3>1 DEF Relay!RunEnds
  <2>7. QED
    BY <1>1, <2>1, <2>2, <2>3, <2>4, <2>5, <2>6 DEF Relay!Run
<1>2. CASE Relay!MinutePasses
  BY <1>2 DEF Relay!MinutePasses
<1>3. CASE Relay!Main
  <2>1. CASE Relay!Interrupt \/ Relay!ServerDrained \/ Relay!PushShutdown
    BY <2>1 DEF Relay!Interrupt, Relay!ServerDrained, Relay!PushShutdown
  <2>2. CASE Relay!MainReturns \/ Relay!FatalOnClosedServer \/ Relay!Crash
    BY <2>2 DEF Relay!MainReturns, Relay!FatalOnClosedServer, Relay!Crash, Relay!EndAs
  <2>3. CASE Relay!Boot
    BY <2>3 DEF Relay!Boot
  <2>4. QED
    BY <1>3, <2>1, <2>2, <2>3 DEF Relay!Main
<1>4. ASSUME NEW p \in Procs, Relay!Listen(p) \/ Relay!Exit(p) PROVE ChildIsKnown' /\ EndedOwnsNothing'
  <2>1. RelayOwn' \subseteq RelayOwn /\ UNCHANGED <<main, relaySup, cmd>>
    BY <1>4 DEF Relay!Listen, Relay!Exit
  <2>2. QED
    BY <2>1
<1>5. CASE UNCHANGED Relay!vars
  BY <1>5 DEF Relay!vars
<1>6. QED
  BY <1>1, <1>2, <1>3, <1>4, <1>5 DEF Relay!Next

\* A start is allowed while restarts are left, and each run that ends before
\* the threshold takes one.
LEMMA RelayStarts ==
    ASSUME Relay!Assumptions, RelayInv, Relay!TypeOK', [Relay!Next]_(Relay!vars)
    PROVE  StartsAreCounted'
<1>0. FCMRelayRestartMax \in Nat \ {0} /\ MaxBoots \in Nat \ {0} /\ None \notin Procs
  BY RelayConstants
<1> USE <1>0 DEF Relay!mainVars, Relay!procVars, Relay!Go, RelayInv, Relay!TypeOK, StartsAreCounted, RelayRunning
<1>1. CASE Relay!Run
  <2>1. CASE Relay!Stopped("loop") \/ Relay!Stopped("backoff") \/ Relay!GiveUp
    BY <2>1 DEF Relay!Stopped, Relay!GiveUp
  <2>2. CASE Relay!StartFails \/ Relay!Healthy \/ Relay!NotHealthy \/ Relay!StopWhileReady \/ Relay!BackoffEnds
    <3>1. CASE Relay!StartFails
      BY <3>1 DEF Relay!StartFails, Relay!MayStart
    <3>2. CASE Relay!Healthy \/ Relay!NotHealthy \/ Relay!StopWhileReady \/ Relay!BackoffEnds
      BY <3>2 DEF Relay!Healthy, Relay!NotHealthy, Relay!StopWhileReady, Relay!BackoffEnds
    <3>3. QED
      BY <2>2, <3>1, <3>2
  <2>3. ASSUME NEW p \in Procs, Relay!StartProcess(p) PROVE StartsAreCounted'
    BY <2>3 DEF Relay!StartProcess, Relay!MayStart
  <2>4. CASE Relay!Terminate("term", "grace") \/ Relay!Terminate("end", "endgrace")
    BY <2>4 DEF Relay!Terminate
  <2>5. CASE Relay!Kill("grace", "reap") \/ Relay!Kill("endgrace", "off")
    BY <2>5 DEF Relay!Kill
  <2>6. CASE Relay!RunEnds
    BY <2>6 DEF Relay!RunEnds
  <2>7. QED
    BY <1>1, <2>1, <2>2, <2>3, <2>4, <2>5, <2>6 DEF Relay!Run
<1>2. CASE Relay!MinutePasses
  BY <1>2 DEF Relay!MinutePasses
<1>3. CASE Relay!Main
  <2>1. CASE Relay!Interrupt \/ Relay!ServerDrained \/ Relay!PushShutdown
    BY <2>1 DEF Relay!Interrupt, Relay!ServerDrained, Relay!PushShutdown
  <2>2. CASE Relay!MainReturns \/ Relay!FatalOnClosedServer \/ Relay!Crash
    BY <2>2 DEF Relay!MainReturns, Relay!FatalOnClosedServer, Relay!Crash, Relay!EndAs
  <2>3. CASE Relay!Boot
    BY <2>3 DEF Relay!Boot
  <2>4. QED
    BY <1>3, <2>1, <2>2, <2>3 DEF Relay!Main
<1>4. ASSUME NEW p \in Procs, Relay!Listen(p) \/ Relay!Exit(p) PROVE StartsAreCounted'
  BY <1>4 DEF Relay!Listen, Relay!Exit
<1>5. CASE UNCHANGED Relay!vars
  BY <1>5 DEF Relay!vars
<1>6. QED
  BY <1>1, <1>2, <1>3, <1>4, <1>5 DEF Relay!Next

-----------------------------------------------------------------------------
LEMMA RelayInit == ASSUME Relay!Assumptions, Relay!Init PROVE RelayInv
<1>1. Relay!Alive = {} /\ RelayOwn = {}
  BY DEF Relay!Init, Relay!Alive, RelayOwn
<1>2. Relay!TypeOK
  <2>1. boots \in 1 .. MaxBoots /\ restarts \in 0 .. FCMRelayRestartMax /\ starts \in Nat
    BY RelayConstants DEF Relay!Init
  <2>2. QED
    BY <1>1, <2>1 DEF Relay!Init, Relay!TypeOK
<1>3. ChildIsKnown /\ EndedOwnsNothing
  BY <1>1 DEF Relay!Init, ChildIsKnown, EndedOwnsNothing, RelayBetween, RelayRunning, Relay!Ended
<1>4. StartsAreCounted
  BY RelayConstants DEF Relay!Init, StartsAreCounted, RelayRunning
<1>5. QED
  BY <1>2, <1>3, <1>4 DEF RelayInv

LEMMA RelayStep ==
    ASSUME Relay!Assumptions, RelayInv, Relay!Next \/ UNCHANGED relayVars
    PROVE  RelayInv'
<1>1. [Relay!Next]_(Relay!vars)
  BY DEF relayVars, Relay!vars, Relay!mainVars, Relay!procVars
<1>2. Relay!TypeOK'
  BY <1>1, RelayTypes
<1>3. QED
  BY <1>1, <1>2, RelayChild, RelayStarts DEF RelayInv

\* What is a part of one process is one process at most.
LEMMA OneAtMost ==
    ASSUME NEW S, NEW p, S \subseteq {p}
    PROVE  Cardinality(S) <= 1
<1>1. IsFiniteSet({p}) /\ Cardinality({p}) = 1
  BY FS_Singleton
<1>2. QED
  BY <1>1, FS_Subset

LEMMA RelayIsBounded == ASSUME RelayInv PROVE Relay!ProcessesAreBounded
<1>1. \E p \in Procs \cup {None} : RelayOwn \subseteq {p}
  BY DEF RelayInv, Relay!TypeOK, ChildIsKnown, RelayBetween, RelayRunning
<1>2. Relay!OneChild
  <2>1. Relay!Cardinality(RelayOwn) = Cardinality(RelayOwn)
    BY DEF Relay!Cardinality, Cardinality
  <2>2. Cardinality(RelayOwn) <= 1
    BY <1>1, OneAtMost
  <2>3. QED
    BY <2>1, <2>2 DEF Relay!OneChild, RelayOwn
<1>3. QED
  BY <1>2 DEF RelayInv, StartsAreCounted, Relay!StartsAreBounded, Relay!ProcessesAreBounded

\* However start-ups fail, processes outlast their grace periods and backends
\* crash and boot over the processes of those before: a backend has at most one
\* papo-push of its own, and one that keeps dying within a minute is started
\* FCM_RELAY_RESTART_MAX times at most.
THEOREM OneAtATimeAndNotForEver == WorkersSpec => []ProcessesAreBounded
<1> DEFINE I == part = "relay" => RelayInv
<1>1. WorkersInit => I
  BY WorkersAssumption, RelayInit DEF WorkersInit
<1>2. I /\ [WorkersNext]_workersVars => I'
  BY WorkersAssumption, WorkersSteps, RelayStep
<1>3. I => ProcessesAreBounded
  BY RelayIsBounded DEF ProcessesAreBounded
<1> HIDE DEF I
<1> QED
  BY <1>1, <1>2, <1>3, PTL DEF WorkersSpec
===============================================================================
