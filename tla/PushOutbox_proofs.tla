-------------------------- MODULE PushOutbox_proofs --------------------------
(***************************************************************************)
(* Proofs about PushOutbox, for any jobs, tokens, workers and bounds:      *)
(* typing, and, when a claim outlives the batch it covers, the exclusivity *)
(* of the reservation and what follows from it: duplicates and uncounted   *)
(* attempts need a fault.  Without that assumption: only settled rows      *)
(* leave, and the outbox implements PushDelivery.                          *)
(***************************************************************************)
EXTENDS PushOutbox, FiniteSetTheorems, TLAPS

-----------------------------------------------------------------------------
USE RecipientAssumption, BadPayloadAssumption, MaxAttemptsAssumption,
    MaxFaultsAssumption, ClaimAssumption, NoneAssumption

-----------------------------------------------------------------------------
\* Going back to the batch keeps the types of what Leave resets.
LEMMA LeaveKeepsTypes ==
    ASSUME TypeOK, NEW w \in Workers, Leave(w)
    PROVE  /\ pc' \in [Workers -> Steps]
           /\ job' \in [Workers -> SUBSET PushJob]
           /\ listed' \in [Workers -> SUBSET Tokens]
           /\ res' \in [Workers -> Result]
  BY DEF TypeOK, Leave, Steps, Result, NoResult

\* What a delivery does to the two histories: one more push for each device that
\* got it, and one more call nobody heard of if there were such devices.
LEMMA Delivered ==
    ASSUME TypeOK, NEW j \in Jobs, NEW heard, NEW missed, Deliver(j, heard, missed)
    PROVE  /\ accepted' \in [Jobs -> [Tokens -> Nat]]
           /\ unheard' \in 0 .. MaxUnheard
           /\ unheard' = IF missed = {} THEN unheard ELSE unheard + 1
           /\ \A i \in Jobs, t \in Tokens :
                 accepted'[i][t] = IF i = j /\ t \in heard \cup missed
                                   THEN accepted[i][t] + 1 ELSE accepted[i][t]
<1>1. accepted' = [accepted EXCEPT ![j] =
                       [t \in Tokens |-> IF t \in heard \cup missed
                                         THEN accepted[j][t] + 1 ELSE accepted[j][t]]]
  BY DEF Deliver
<1>2. \A t \in Tokens : accepted[j][t] \in Nat
  BY DEF TypeOK
<1>3. accepted' \in [Jobs -> [Tokens -> Nat]]
  BY <1>1, <1>2 DEF TypeOK
<1>4. \A i \in Jobs, t \in Tokens :
          accepted'[i][t] = IF i = j /\ t \in heard \cup missed
                            THEN accepted[i][t] + 1 ELSE accepted[i][t]
  BY <1>1 DEF TypeOK
<1>5. unheard' \in 0 .. MaxUnheard /\ unheard' = IF missed = {} THEN unheard ELSE unheard + 1
  BY DEF Deliver, TypeOK
<1>6. QED
  BY <1>3, <1>4, <1>5

\* Typing: every column, snapshot and result keeps its type, and the attempts
\* column never passes PUSH_MAX_ATTEMPTS.
THEOREM TypeCorrect == Spec => []TypeOK
<1>1. Init => TypeOK
  BY DEF Init, TypeOK, Steps, Result, NoResult
<1>2. TypeOK /\ [Next]_vars => TypeOK'
  <2> SUFFICES ASSUME TypeOK, [Next]_vars PROVE TypeOK'
    OBVIOUS
  <2> USE DEF TypeOK, rowVars, deviceVars, workerVars, histVars
  <2>1. ASSUME NEW j \in Jobs, CreatePushJobInTx(j) PROVE TypeOK'
    BY <2>1 DEF CreatePushJobInTx
  <2>2. ASSUME NEW j \in Jobs, DueAgain(j) PROVE TypeOK'
    BY <2>2 DEF DueAgain
  <2>3. ASSUME NEW u \in Users, NEW t \in Tokens, UpsertPushDevice(u, t) PROVE TypeOK'
    BY <2>3 DEF UpsertPushDevice
  <2>4. ASSUME NEW u \in Users, NEW t \in Tokens, DeletePushDevice(u, t) PROVE TypeOK'
    BY <2>4 DEF DeletePushDevice
  <2>5. ASSUME NEW w \in Workers, ClaimDueJobs(w) PROVE TypeOK'
    BY <2>5 DEF ClaimDueJobs, Row, PushJob
  <2>6. ASSUME NEW w \in Workers, NEW s \in batch[w], ProcessJob(w, s) PROVE TypeOK'
    <3>1. s \in PushJob /\ s.id \in Jobs
      BY DEF PushJob
    <3>2. res' \in [Workers -> Result] /\ tries' \in [Jobs -> Nat]
      <4>1. FailedCall \in Result
        BY DEF FailedCall, Result
      <4>2. res' = res \/ res' = [res EXCEPT ![w] = FailedCall]
        BY <2>6 DEF ProcessJob
      <4>3. tries' = tries \/ tries' = [tries EXCEPT ![s.id] = tries[s.id] + 1]
        BY <2>6 DEF ProcessJob
      <4>4. res' \in [Workers -> Result]
        BY <4>1, <4>2
      <4>5. tries[s.id] + 1 \in Nat
        BY <3>1
      <4>6. tries' \in [Jobs -> Nat]
        BY <4>3, <4>5
      <4>7. QED
        BY <4>4, <4>6
    <3>3. pc' \in [Workers -> Steps] /\ batch' \in [Workers -> SUBSET PushJob]
      BY <2>6, <3>1 DEF ProcessJob, Steps
    <3>4. job' \in [Workers -> SUBSET PushJob] /\ listed' \in [Workers -> SUBSET Tokens]
      BY <2>6, <3>1 DEF ProcessJob
    <3>5. QED
      BY <2>6, <3>2, <3>3, <3>4 DEF ProcessJob
  <2>7. ASSUME NEW w \in Workers, NEW s \in batch[w], ListFails(w, s) PROVE TypeOK'
    BY <2>7 DEF ListFails, Fault
  <2>8. ASSUME NEW w \in Workers, NEW s \in job[w], Send(w, s) PROVE TypeOK'
    <3>1. s \in PushJob
      OBVIOUS
    <3>2. PICK status \in [listed[w] \ s.delivered -> Status] :
            LET with(k) == {t \in listed[w] \ s.delivered : status[t] = k} IN
            /\ res' = [res EXCEPT ![w] = [sent |-> with("sent"), invalid |-> with("invalid_token"),
                                          retry |-> with("retryable_error") # {}]]
            /\ \E missed \in SUBSET with("retryable_error") : Deliver(s.id, with("sent"), missed)
            /\ refused' = [refused EXCEPT ![s.id] =
                                @ \cup with("invalid_token") \cup with("permanent_error")]
      BY <2>8 DEF Send
    <3>3. res' \in [Workers -> Result]
      BY <3>1, <3>2 DEF Result, PushJob
    <3>4. refused' \in [Jobs -> SUBSET Tokens]
      BY <3>1, <3>2 DEF PushJob
    <3>5. pc' \in [Workers -> Steps] /\ tries' \in [Jobs -> Nat]
      BY <2>8, <3>1 DEF Send, Steps, PushJob
    <3>6. accepted' \in [Jobs -> [Tokens -> Nat]] /\ unheard' \in 0 .. MaxUnheard
      BY <3>1, <3>2, Delivered DEF PushJob
    <3>7. QED
      BY <2>8, <3>3, <3>4, <3>5, <3>6 DEF Send
  <2>9. ASSUME NEW w \in Workers, NEW s \in job[w], SendFails(w, s) PROVE TypeOK'
    <3>1. s \in PushJob /\ s.id \in Jobs
      BY DEF PushJob
    <3>2. res' \in [Workers -> Result] /\ pc' \in [Workers -> Steps]
      BY <2>9 DEF SendFails, Steps, Result, FailedCall
    <3>3. tries' \in [Jobs -> Nat]
      BY <2>9, <3>1 DEF SendFails, PushJob
    <3>4. \E missed : Deliver(s.id, {}, missed)
      BY <2>9 DEF SendFails
    <3>5. accepted' \in [Jobs -> [Tokens -> Nat]] /\ unheard' \in 0 .. MaxUnheard
      BY <3>1, <3>4, Delivered
    <3>6. QED
      BY <2>9, <3>2, <3>3, <3>5 DEF SendFails
  <2>10. ASSUME NEW w \in Workers, NEW s \in job[w], MergeDeliveredTokens(w, s) PROVE TypeOK'
    <3>1. s.id \in Jobs /\ res[w].sent \subseteq Tokens
      BY DEF Result, PushJob
    <3>2. delivered' \in [Jobs -> SUBSET Tokens]
      <4>1. \/ delivered' = [delivered EXCEPT ![s.id] =
                               IF outbox[s.id] = "gone" THEN @ ELSE @ \cup res[w].sent]
            \/ delivered' = delivered
        BY <2>10 DEF MergeDeliveredTokens
      <4>2. delivered[s.id] \cup res[w].sent \in SUBSET Tokens
        BY <3>1
      <4>3. QED
        BY <3>1, <4>1, <4>2
    <3>3. pc' \in [Workers -> Steps] /\ faults' \in 0 .. MaxFaults
      BY <2>10 DEF MergeDeliveredTokens, Steps, Fault
    <3>4. QED
      BY <2>10, <3>2, <3>3 DEF MergeDeliveredTokens
  <2>11. ASSUME NEW w \in Workers, DisableInvalidTokens(w) PROVE TypeOK'
    BY <2>11 DEF DisableInvalidTokens, Steps, Result, Fault
  <2>12. ASSUME NEW w \in Workers, NEW s \in job[w], CompletePushJob(w, s) PROVE TypeOK'
    <3>1. Leave(w)
      BY <2>12 DEF CompletePushJob
    <3>2. outbox' \in [Jobs -> {"absent", "due", "waiting", "gone"}] /\ faults' \in 0 .. MaxFaults
      <4>1. outbox' = [outbox EXCEPT ![s.id] = "gone"] \/ outbox' = outbox
        BY <2>12 DEF CompletePushJob
      <4>2. faults' \in 0 .. MaxFaults
        BY <2>12 DEF CompletePushJob, Fault
      <4>3. QED
        BY <4>1, <4>2
    <3>3. QED
      BY <2>12, <3>2, LeaveKeepsTypes, <3>1 DEF CompletePushJob
  <2>13. ASSUME NEW w \in Workers, NEW s \in job[w], ReschedulePushJob(w, s) PROVE TypeOK'
    <3>1. Leave(w)
      BY <2>13 DEF ReschedulePushJob
    <3>2. outbox' \in [Jobs -> {"absent", "due", "waiting", "gone"}] /\ faults' \in 0 .. MaxFaults
      <4>1. outbox' = [outbox EXCEPT ![s.id] = "waiting"] \/ outbox' = outbox
        BY <2>13 DEF ReschedulePushJob
      <4>2. faults' = faults \/ Fault
        BY <2>13 DEF ReschedulePushJob
      <4>3. faults' \in 0 .. MaxFaults
        BY <4>2 DEF Fault
      <4>4. QED
        BY <4>1, <4>3
    <3>3. attempts' \in [Jobs -> 0 .. PushMaxAttempts]
      BY <2>13 DEF ReschedulePushJob, PushJob
    <3>4. QED
      BY <2>13, <3>2, <3>3, LeaveKeepsTypes, <3>1 DEF ReschedulePushJob
  <2>14. CASE Crash
    BY <2>14 DEF Crash, Fault, Steps, Result, NoResult
  <2>15. CASE UNCHANGED vars
    BY <2>15 DEF vars
  <2>16. QED
    BY <2>1, <2>2, <2>3, <2>4, <2>5, <2>6, <2>7, <2>8, <2>9, <2>10, <2>11, <2>12,
       <2>13, <2>14, <2>15 DEF Next, WorkerStep
<1>3. QED
  BY <1>1, <1>2, PTL DEF Spec

-----------------------------------------------------------------------------
(***************************************************************************)
(* Exclusivity.  While a claim outlives its batch a row in somebody's hands *)
(* stays "waiting", so nobody can claim it again; the snapshot the worker   *)
(* holds therefore stays equal to the row until the worker itself changes   *)
(* it.  ExclusiveInv is that argument as an inductive invariant.            *)
(***************************************************************************)

Hand(w) == batch[w] \cup job[w]

Idle == \A w \in Workers : pc[w] = "loop" <=> job[w] = {}
OneJob == \A w \in Workers : \A r, s \in job[w] : r = s
NotBoth == \A w \in Workers : batch[w] \cap job[w] = {}
OneSnapshot == \A w \in Workers : \A r, s \in Hand(w) : r.id = s.id => r = s
HandsWait == \A w \in Workers : \A s \in Hand(w) : outbox[s.id] = "waiting"
HandsApart == \A v, w \in Workers : v # w => \A r \in Hand(v), s \in Hand(w) : r.id # s.id

FreshBatch ==
    \A w \in Workers : \A s \in batch[w] :
        s.attempts = attempts[s.id] /\ s.delivered = delivered[s.id]
FreshJob ==
    \A w \in Workers : \A s \in job[w] :
        /\ s.attempts = attempts[s.id]
        /\ pc[w] \in {"send", "merge"} => s.delivered = delivered[s.id]

HandsInv == Idle /\ OneJob /\ NotBoth /\ OneSnapshot /\ HandsWait /\ HandsApart
ExclusiveInv == HandsInv /\ FreshBatch /\ FreshJob

\* Nothing is lost by hands that only let go of jobs whose rows keep waiting.
LEMMA HandsShrink ==
    ASSUME OneSnapshot, HandsApart,
           \A v \in Workers : Hand(v)' \subseteq Hand(v)
    PROVE  OneSnapshot' /\ HandsApart'
  BY DEF OneSnapshot, HandsApart

\* A step that leaves every hand, the rows in hands and the order of the steps alone.
LEMMA HandsUntouched ==
    ASSUME TypeOK, ExclusiveInv,
           UNCHANGED <<batch, job, attempts, delivered>>,
           \A v \in Workers : /\ pc'[v] = "loop" <=> pc[v] = "loop"
                              /\ pc'[v] \in {"send", "merge"} => pc[v] \in {"send", "merge"},
           \A v \in Workers : \A s \in Hand(v) : outbox'[s.id] = "waiting"
    PROVE  ExclusiveInv'
<1>1. \A w \in Workers : Hand(w)' = Hand(w)
  BY DEF Hand
<1>2. Idle' /\ OneJob' /\ NotBoth'
  <2>1. Idle'
    BY DEF ExclusiveInv, HandsInv, Idle
  <2>2. OneJob' /\ NotBoth'
    BY DEF ExclusiveInv, HandsInv, OneJob, NotBoth
  <2>3. QED
    BY <2>1, <2>2
<1>3. OneSnapshot' /\ HandsApart'
  BY <1>1, HandsShrink DEF ExclusiveInv, HandsInv
<1>4. HandsWait'
  BY <1>1 DEF HandsWait
<1>5. FreshBatch'
  BY DEF ExclusiveInv, FreshBatch
<1>6. FreshJob'
  <2> SUFFICES ASSUME NEW v \in Workers, NEW s \in job[v]
               PROVE  /\ s.attempts = attempts[s.id]
                      /\ pc'[v] \in {"send", "merge"} => s.delivered = delivered[s.id]
    BY DEF FreshJob
  <2>1. pc'[v] \in {"send", "merge"} => pc[v] \in {"send", "merge"}
    OBVIOUS
  <2>2. QED
    BY <2>1 DEF ExclusiveInv, FreshJob
<1>7. QED
  BY <1>2, <1>3, <1>4, <1>5, <1>6 DEF ExclusiveInv, HandsInv

\* A worker lets go of snapshot s, whose row only it may have changed.
LEMMA LettingGo ==
    ASSUME TypeOK, ExclusiveInv, NEW w \in Workers, NEW s \in Hand(w),
           \A v \in Workers \ {w} :
               batch'[v] = batch[v] /\ job'[v] = job[v] /\ pc'[v] = pc[v],
           batch'[w] \subseteq batch[w] \ {s},
           job'[w] = {} /\ pc'[w] = "loop",
           \A j \in Jobs \ {s.id} : /\ outbox'[j] = outbox[j]
                                    /\ attempts'[j] = attempts[j]
                                    /\ delivered'[j] = delivered[j]
    PROVE  ExclusiveInv'
<1>1. \A v \in Workers : Hand(v)' \subseteq IF v = w THEN Hand(w) \ {s} ELSE Hand(v)
  BY DEF Hand
<1>2. \A v \in Workers : \A r \in Hand(v)' : r.id \in Jobs \ {s.id}
  <2> SUFFICES ASSUME NEW v \in Workers, NEW r \in Hand(v)' PROVE r.id \in Jobs \ {s.id}
    OBVIOUS
  <2>1. r \in Hand(v) /\ (v = w => r # s)
    BY <1>1
  <2>2. r.id \in Jobs
    BY <2>1 DEF Hand, TypeOK, PushJob
  <2>3. r.id # s.id
    BY <2>1 DEF ExclusiveInv, HandsInv, OneSnapshot, HandsApart
  <2>4. QED
    BY <2>2, <2>3
<1>3. OneSnapshot' /\ HandsApart'
  BY <1>1, HandsShrink DEF ExclusiveInv, HandsInv
<1>4. HandsWait'
  BY <1>1, <1>2 DEF ExclusiveInv, HandsInv, HandsWait
<1>5. Idle' /\ OneJob' /\ NotBoth'
  BY DEF ExclusiveInv, HandsInv, Idle, OneJob, NotBoth
<1>6. FreshBatch'
  <2> SUFFICES ASSUME NEW v \in Workers, NEW r \in batch'[v]
               PROVE  r.attempts = attempts'[r.id] /\ r.delivered = delivered'[r.id]
    BY DEF FreshBatch
  <2>1. r \in Hand(v)' /\ r \in Hand(v)
    BY <1>1 DEF Hand
  <2>2. r \in batch[v]
    OBVIOUS
  <2>3. QED
    BY <1>2, <2>1, <2>2 DEF ExclusiveInv, FreshBatch
<1>7. FreshJob'
  <2> SUFFICES ASSUME NEW v \in Workers, NEW r \in job'[v]
               PROVE  /\ r.attempts = attempts'[r.id]
                      /\ pc'[v] \in {"send", "merge"} => r.delivered = delivered'[r.id]
    BY DEF FreshJob
  <2>1. v # w /\ r \in job[v] /\ r \in Hand(v)'
    BY DEF Hand
  <2>2. QED
    BY <1>2, <2>1 DEF ExclusiveInv, FreshJob
<1>8. QED
  BY <1>3, <1>4, <1>5, <1>6, <1>7 DEF ExclusiveInv, HandsInv

\* Claiming due rows: they are in nobody's hands, and come with fresh snapshots.
LEMMA ClaimKeepsExclusive ==
    ASSUME TypeOK, ExclusiveInv, NEW w \in Workers, ClaimDueJobs(w)
    PROVE  ExclusiveInv'
<1>1. PICK claimed \in SUBSET {j \in Jobs : outbox[j] = "due"} :
         /\ outbox' = [j \in Jobs |-> IF j \in claimed THEN "waiting" ELSE outbox[j]]
         /\ batch' = [batch EXCEPT ![w] = {Row(j) : j \in claimed}]
  BY DEF ClaimDueJobs
<1>2. pc' = pc /\ job' = job /\ attempts' = attempts /\ delivered' = delivered
  BY DEF ClaimDueJobs
<1>3. batch[w] = {} /\ job[w] = {}
  BY DEF ClaimDueJobs, ExclusiveInv, HandsInv, Idle
<1>4. \A v \in Workers : Hand(v)' = IF v = w THEN {Row(j) : j \in claimed} ELSE Hand(v)
  BY <1>1, <1>2, <1>3 DEF Hand, TypeOK
<1>5. \A j \in claimed : j \in Jobs /\ outbox[j] = "due" /\ Row(j).id = j
  BY DEF Row
<1>6. \A v \in Workers : \A s \in Hand(v) : s.id \in Jobs /\ s.id \notin claimed /\ outbox[s.id] = "waiting"
  BY <1>5 DEF ExclusiveInv, HandsInv, HandsWait, Hand, TypeOK, PushJob
<1>7. Idle' /\ OneJob' /\ NotBoth'
  BY <1>1, <1>2, <1>3 DEF ExclusiveInv, HandsInv, Idle, OneJob, NotBoth, TypeOK
<1>8. OneSnapshot'
  BY <1>4, <1>5 DEF ExclusiveInv, HandsInv, OneSnapshot
<1>9. HandsWait'
  BY <1>1, <1>4, <1>5, <1>6 DEF HandsWait
<1>10. HandsApart'
  BY <1>4, <1>5, <1>6 DEF ExclusiveInv, HandsInv, HandsApart
<1>11. FreshBatch'
  BY <1>1, <1>2, <1>5 DEF ExclusiveInv, FreshBatch, Row, TypeOK
<1>12. FreshJob'
  BY <1>2 DEF ExclusiveInv, FreshJob
<1>13. QED
  BY <1>7, <1>8, <1>9, <1>10, <1>11, <1>12 DEF ExclusiveInv, HandsInv

\* Taking a job out of the batch: the hand stays the same.
LEMMA ProcessKeepsExclusive ==
    ASSUME TypeOK, ExclusiveInv, NEW w \in Workers, NEW s \in batch[w], ProcessJob(w, s)
    PROVE  ExclusiveInv'
<1>1. /\ batch' = [batch EXCEPT ![w] = @ \ {s}]
      /\ job' = [job EXCEPT ![w] = {s}]
      /\ outbox' = outbox /\ attempts' = attempts /\ delivered' = delivered
      /\ pc[w] = "loop"
  BY DEF ProcessJob, rowVars
<1>2. \E p \in {"complete", "send", "finish"} : pc' = [pc EXCEPT ![w] = p]
  BY DEF ProcessJob
<1>3. job[w] = {}
  BY <1>1 DEF ExclusiveInv, HandsInv, Idle
<1>4. \A v \in Workers : Hand(v)' = Hand(v)
  BY <1>1, <1>3 DEF Hand, TypeOK
<1>5. OneSnapshot' /\ HandsApart' /\ HandsWait'
  BY <1>1, <1>4 DEF ExclusiveInv, HandsInv, OneSnapshot, HandsApart, HandsWait
<1>6. Idle' /\ OneJob' /\ NotBoth'
  BY <1>1, <1>2 DEF ExclusiveInv, HandsInv, Idle, OneJob, NotBoth, TypeOK
<1>7. FreshBatch'
  BY <1>1 DEF ExclusiveInv, FreshBatch, TypeOK
<1>8. FreshJob'
  BY <1>1, <1>2 DEF ExclusiveInv, FreshBatch, FreshJob, TypeOK
<1>9. QED
  BY <1>5, <1>6, <1>7, <1>8 DEF ExclusiveInv, HandsInv

\* Recording the delivered tokens: no other hand has a snapshot of that row.
LEMMA MergeKeepsExclusive ==
    ASSUME TypeOK, ExclusiveInv, NEW w \in Workers, NEW s \in job[w], MergeDeliveredTokens(w, s)
    PROVE  ExclusiveInv'
<1>1. /\ batch' = batch /\ job' = job /\ outbox' = outbox /\ attempts' = attempts
      /\ pc[w] = "merge" /\ pc' = [pc EXCEPT ![w] = "disable"]
  BY DEF MergeDeliveredTokens
<1>2. \A j \in Jobs \ {s.id} : delivered'[j] = delivered[j]
  BY DEF MergeDeliveredTokens, TypeOK
<1>3. \A v \in Workers : Hand(v)' = Hand(v)
  BY <1>1 DEF Hand
<1>4. HandsInv'
  BY <1>1, <1>3 DEF ExclusiveInv, HandsInv, Idle, OneJob, NotBoth, OneSnapshot, HandsWait,
                    HandsApart, TypeOK
<1>5. \A v \in Workers : \A r \in batch[v] : r.id \in Jobs \ {s.id}
  <2> SUFFICES ASSUME NEW v \in Workers, NEW r \in batch[v] PROVE r.id \in Jobs \ {s.id}
    OBVIOUS
  <2>1. r.id \in Jobs /\ r \in Hand(v) /\ s \in Hand(w)
    BY DEF TypeOK, PushJob, Hand
  <2>2. r.id # s.id
    BY <2>1 DEF ExclusiveInv, HandsInv, HandsApart, OneSnapshot, NotBoth
  <2>3. QED
    BY <2>1, <2>2
<1>6. \A v \in Workers \ {w} : \A r \in job[v] : r.id \in Jobs \ {s.id}
  BY DEF ExclusiveInv, HandsInv, HandsApart, Hand, TypeOK, PushJob
<1>7. FreshBatch'
  BY <1>1, <1>2, <1>5 DEF ExclusiveInv, FreshBatch
<1>8. FreshJob'
  BY <1>1, <1>2, <1>6 DEF ExclusiveInv, FreshJob, TypeOK
<1>9. QED
  BY <1>4, <1>7, <1>8 DEF ExclusiveInv

LEMMA ExclusiveStep ==
    ASSUME ClaimOutlivesBatch, TypeOK, ExclusiveInv, [Next]_vars
    PROVE  ExclusiveInv'
<1> USE DEF rowVars, deviceVars, workerVars, histVars
<1>0. \A v \in Workers : \A s \in Hand(v) : outbox[s.id] = "waiting"
  BY DEF ExclusiveInv, HandsInv, HandsWait
<1>1. ASSUME NEW j \in Jobs, CreatePushJobInTx(j) PROVE ExclusiveInv'
  BY <1>0, <1>1, HandsUntouched DEF CreatePushJobInTx, TypeOK
<1>2. ASSUME NEW j \in Jobs, DueAgain(j) PROVE ExclusiveInv'
  <2>1. \A v \in Workers : \A s \in Hand(v) : s.id # j
    BY <1>2 DEF DueAgain, Held, Hand
  <2>2. QED
    BY <1>0, <1>2, <2>1, HandsUntouched DEF DueAgain, TypeOK
<1>3. ASSUME NEW u \in Users, NEW t \in Tokens,
             UpsertPushDevice(u, t) \/ DeletePushDevice(u, t)
      PROVE ExclusiveInv'
  BY <1>0, <1>3, HandsUntouched DEF UpsertPushDevice, DeletePushDevice
<1>4. ASSUME NEW w \in Workers, ClaimDueJobs(w) PROVE ExclusiveInv'
  BY <1>4, ClaimKeepsExclusive
<1>5. ASSUME NEW w \in Workers, NEW s \in batch[w], ProcessJob(w, s) PROVE ExclusiveInv'
  BY <1>5, ProcessKeepsExclusive
<1>6. ASSUME NEW w \in Workers, NEW s \in batch[w], ListFails(w, s) PROVE ExclusiveInv'
  <2>1. job[w] = {} /\ s \in Hand(w)
    BY <1>6 DEF ListFails, ExclusiveInv, HandsInv, Idle, Hand
  <2>2. /\ \A v \in Workers \ {w} : batch'[v] = batch[v] /\ job'[v] = job[v] /\ pc'[v] = pc[v]
        /\ batch'[w] \subseteq batch[w] \ {s}
        /\ job'[w] = {} /\ pc'[w] = "loop"
    BY <1>6, <2>1 DEF ListFails, TypeOK
  <2>3. outbox' = outbox /\ attempts' = attempts /\ delivered' = delivered
    BY <1>6 DEF ListFails
  <2>4. QED
    BY <2>1, <2>2, <2>3, LettingGo
<1>7. ASSUME NEW w \in Workers, NEW s \in job[w], Send(w, s) \/ SendFails(w, s) PROVE ExclusiveInv'
  <2>1. /\ UNCHANGED <<batch, job, outbox, attempts, delivered>>
        /\ pc[w] = "send" /\ pc' = [pc EXCEPT ![w] = "merge"]
    BY <1>7 DEF Send, SendFails
  <2>2. \A v \in Workers : /\ pc'[v] = "loop" <=> pc[v] = "loop"
                           /\ pc'[v] \in {"send", "merge"} => pc[v] \in {"send", "merge"}
    BY <2>1 DEF TypeOK
  <2>3. QED
    BY <1>0, <2>1, <2>2, HandsUntouched
<1>8. ASSUME NEW w \in Workers, NEW s \in job[w], MergeDeliveredTokens(w, s) PROVE ExclusiveInv'
  BY <1>8, MergeKeepsExclusive
<1>9. ASSUME NEW w \in Workers, DisableInvalidTokens(w) PROVE ExclusiveInv'
  <2>1. UNCHANGED <<batch, job, outbox, attempts, delivered>>
    BY <1>9 DEF DisableInvalidTokens
  <2>2. \A v \in Workers : /\ pc'[v] = "loop" <=> pc[v] = "loop"
                           /\ pc'[v] \in {"send", "merge"} => pc[v] \in {"send", "merge"}
    BY <1>9 DEF DisableInvalidTokens, TypeOK
  <2>3. QED
    BY <1>0, <2>1, <2>2, HandsUntouched
<1>10. ASSUME NEW w \in Workers, NEW s \in job[w],
              CompletePushJob(w, s) \/ ReschedulePushJob(w, s)
       PROVE ExclusiveInv'
  <2>1. s \in Hand(w) /\ s \notin batch[w]
    BY DEF Hand, ExclusiveInv, HandsInv, NotBoth
  <2>2. Leave(w) /\ batch' = batch /\ delivered' = delivered
    BY <1>10 DEF CompletePushJob, ReschedulePushJob
  <2>3. /\ \A v \in Workers \ {w} : batch'[v] = batch[v] /\ job'[v] = job[v] /\ pc'[v] = pc[v]
        /\ batch'[w] \subseteq batch[w] \ {s}
        /\ job'[w] = {} /\ pc'[w] = "loop"
    BY <2>1, <2>2 DEF Leave, TypeOK
  <2>4. \A j \in Jobs \ {s.id} : outbox'[j] = outbox[j] /\ attempts'[j] = attempts[j]
    BY <1>10 DEF CompletePushJob, ReschedulePushJob, TypeOK
  <2>5. QED
    BY <2>1, <2>2, <2>3, <2>4, LettingGo
<1>11. CASE Crash
  <2>1. \A v \in Workers : batch'[v] = {} /\ job'[v] = {} /\ pc'[v] = "loop"
    BY <1>11 DEF Crash
  <2>2. \A v \in Workers : Hand(v)' = {}
    BY <2>1 DEF Hand
  <2>3. QED
    BY <2>1, <2>2 DEF ExclusiveInv, HandsInv, Idle, OneJob, NotBoth, OneSnapshot, HandsWait,
                      HandsApart, FreshBatch, FreshJob
<1>12. CASE UNCHANGED vars
  BY <1>0, <1>12, HandsUntouched DEF vars
<1>13. QED
  BY <1>1, <1>2, <1>3, <1>4, <1>5, <1>6, <1>7, <1>8, <1>9, <1>10, <1>11, <1>12
     DEF Next, WorkerStep

LEMMA ExclusiveAlways == ASSUME ClaimOutlivesBatch PROVE Spec => []ExclusiveInv
<1>1. Init => ExclusiveInv
  BY DEF Init, ExclusiveInv, HandsInv, Idle, OneJob, NotBoth, OneSnapshot, HandsWait,
         HandsApart, FreshBatch, FreshJob, Hand
<1>2. TypeOK /\ ExclusiveInv /\ [Next]_vars => ExclusiveInv'
  BY ExclusiveStep
<1>3. QED
  BY <1>1, <1>2, TypeCorrect, PTL DEF Spec

\* A reserved job is in the hands of one worker only, provided the claim
\* outlives the batch.
THEOREM ReservationIsExclusive == ASSUME ClaimOutlivesBatch PROVE Spec => []OneHolder
<1>1. ExclusiveInv => OneHolder
  BY DEF ExclusiveInv, HandsInv, HandsApart, OneHolder, Held, Hand
<1>2. QED
  BY <1>1, ExclusiveAlways, PTL

-----------------------------------------------------------------------------
(***************************************************************************)
(* Duplicates.  An accepted push is on record in delivered_tokens, or in   *)
(* the result its worker is about to merge, or its job is gone; losing the  *)
(* record takes a fault, and Send targets no device on record.              *)
(***************************************************************************)

Unmerged(j, t) ==
    \E w \in Workers : pc[w] = "merge" /\ t \in res[w].sent /\ \E s \in job[w] : s.id = j

Recorded(j, t) == outbox[j] = "gone" \/ t \in delivered[j] \/ Unmerged(j, t)

CountInv ==
    \A j \in Jobs, t \in Tokens :
        /\ accepted[j][t] <= unheard + faults + 1
        /\ ~Recorded(j, t) => accepted[j][t] <= unheard + faults

\* A fault pays for every record it may lose.
LEMMA FaultPays ==
    ASSUME TypeOK, CountInv, UNCHANGED <<accepted, unheard>>, faults' = faults + 1
    PROVE  CountInv'
  BY DEF TypeOK, CountInv

LEMMA RecordsKept ==
    ASSUME TypeOK, CountInv, UNCHANGED <<accepted, unheard, faults>>,
           \A j \in Jobs, t \in Tokens : Recorded(j, t) => Recorded(j, t)'
    PROVE  CountInv'
  BY DEF TypeOK, CountInv

\* Rows and busy workers as they were: the records are too.
LEMMA RecordsUntouched ==
    ASSUME TypeOK, CountInv, UNCHANGED <<accepted, unheard, faults, res>>,
           \A j \in Jobs : (outbox[j] = "gone" => outbox'[j] = "gone") /\ delivered'[j] = delivered[j],
           \A w \in Workers : pc[w] = "merge" => pc'[w] = "merge" /\ job'[w] = job[w]
    PROVE  CountInv'
  BY RecordsKept DEF Recorded, Unmerged

\* Whom a call reached: some the result names, others it does not.
LEMMA Reached ==
    ASSUME TypeOK, NEW w \in Workers, NEW s \in job[w], Send(w, s) \/ SendFails(w, s)
    PROVE  \E heard \in SUBSET (listed[w] \ s.delivered), missed \in SUBSET (listed[w] \ s.delivered) :
               heard \cap missed = {} /\ res'[w].sent = heard /\ Deliver(s.id, heard, missed)
<1>1. CASE Send(w, s)
  <2>1. PICK status \in [listed[w] \ s.delivered -> Status] :
          LET with(k) == {t \in listed[w] \ s.delivered : status[t] = k} IN
          /\ res' = [res EXCEPT ![w] = [sent |-> with("sent"), invalid |-> with("invalid_token"),
                                        retry |-> with("retryable_error") # {}]]
          /\ \E missed \in SUBSET with("retryable_error") : Deliver(s.id, with("sent"), missed)
    BY <1>1 DEF Send
  <2> DEFINE heard == {t \in listed[w] \ s.delivered : status[t] = "sent"}
  <2>2. PICK missed \in SUBSET {t \in listed[w] \ s.delivered : status[t] = "retryable_error"} :
          Deliver(s.id, heard, missed)
    BY <2>1
  <2>3. heard \cap missed = {} /\ missed \in SUBSET (listed[w] \ s.delivered)
    OBVIOUS
  <2>4. res'[w].sent = heard
    BY <2>1 DEF TypeOK
  <2>5. heard \in SUBSET (listed[w] \ s.delivered)
    OBVIOUS
  <2> HIDE DEF heard
  <2>6. QED
    BY <2>2, <2>3, <2>4, <2>5
<1>2. CASE SendFails(w, s)
  <2>1. PICK missed \in SUBSET (listed[w] \ s.delivered) : Deliver(s.id, {}, missed)
    BY <1>2 DEF SendFails
  <2>2. res'[w].sent = {}
    BY <1>2 DEF SendFails, FailedCall, TypeOK
  <2>3. QED
    BY <2>1, <2>2
<1>3. QED
  BY <1>1, <1>2

\* A call adds a push only where none is on record; one it is not told of pays
\* for itself, one it is told of is in its result.
LEMMA SendCounts ==
    ASSUME TypeOK, ExclusiveInv, CountInv, NEW w \in Workers, NEW s \in job[w],
           Send(w, s) \/ SendFails(w, s)
    PROVE  CountInv'
<1>1. PICK heard \in SUBSET (listed[w] \ s.delivered), missed \in SUBSET (listed[w] \ s.delivered) :
          heard \cap missed = {} /\ res'[w].sent = heard /\ Deliver(s.id, heard, missed)
  BY Reached
<1>2. /\ pc[w] = "send" /\ pc' = [pc EXCEPT ![w] = "merge"] /\ job' = job /\ outbox' = outbox
      /\ delivered' = delivered /\ faults' = faults
      /\ \A v \in Workers \ {w} : res'[v] = res[v]
  BY DEF Send, SendFails, TypeOK, rowVars
<1>3. s.id \in Jobs /\ s \in Hand(w)
  BY DEF TypeOK, PushJob, Hand
<1>4. \A t \in heard \cup missed : ~Recorded(s.id, t)
  <2> SUFFICES ASSUME NEW t \in heard \cup missed PROVE ~Recorded(s.id, t)
    OBVIOUS
  <2>1. outbox[s.id] # "gone"
    BY <1>3 DEF ExclusiveInv, HandsInv, HandsWait
  <2>2. t \notin delivered[s.id]
    BY <1>1, <1>2 DEF ExclusiveInv, FreshJob
  <2>3. ~Unmerged(s.id, t)
    <3> SUFFICES ASSUME NEW v \in Workers, pc[v] = "merge", NEW r \in job[v], r.id = s.id PROVE FALSE
      BY DEF Unmerged
    <3>1. v # w
      BY <1>2
    <3>2. QED
      BY <1>3, <3>1 DEF ExclusiveInv, HandsInv, HandsApart, Hand
  <2>4. QED
    BY <2>1, <2>2, <2>3 DEF Recorded
<1>5. \A j \in Jobs, t \in Tokens : Recorded(j, t) => Recorded(j, t)'
  <2> SUFFICES ASSUME NEW j \in Jobs, NEW t \in Tokens, Recorded(j, t) PROVE Recorded(j, t)'
    OBVIOUS
  <2>1. CASE outbox[j] = "gone" \/ t \in delivered[j]
    BY <1>2, <2>1 DEF Recorded
  <2>2. CASE Unmerged(j, t)
    <3>1. PICK v \in Workers : pc[v] = "merge" /\ t \in res[v].sent /\ \E r \in job[v] : r.id = j
      BY <2>2 DEF Unmerged
    <3>2. v # w
      BY <1>2, <3>1
    <3>3. Unmerged(j, t)'
      BY <1>2, <3>1, <3>2 DEF Unmerged, TypeOK
    <3>4. QED
      BY <3>3 DEF Recorded
  <2>3. QED
    BY <2>1, <2>2 DEF Recorded
<1>6. \A t \in heard : Recorded(s.id, t)'
  <2>1. pc'[w] = "merge"
    BY <1>2 DEF TypeOK
  <2>2. QED
    BY <1>1, <1>2, <2>1 DEF Recorded, Unmerged
<1>7. ASSUME NEW j \in Jobs, NEW t \in Tokens
      PROVE  /\ accepted'[j][t] <= unheard' + faults' + 1
             /\ ~Recorded(j, t)' => accepted'[j][t] <= unheard' + faults'
  <2>0. accepted[j][t] \in Nat /\ faults \in Nat /\ unheard \in Nat
    BY DEF TypeOK
  <2>1. /\ unheard' = IF missed = {} THEN unheard ELSE unheard + 1
        /\ accepted'[j][t] = IF j = s.id /\ t \in heard \cup missed
                             THEN accepted[j][t] + 1 ELSE accepted[j][t]
    BY <1>1, <1>3, Delivered
  <2>2. CASE j = s.id /\ t \in heard
    <3>1. accepted[j][t] <= unheard + faults /\ Recorded(j, t)'
      BY <1>4, <1>6, <2>2 DEF CountInv
    <3>2. QED
      BY <1>2, <2>0, <2>1, <2>2, <3>1
  <2>3. CASE j = s.id /\ t \in missed
    <3>1. accepted[j][t] <= unheard + faults
      BY <1>4, <2>3 DEF CountInv
    <3>2. unheard' = unheard + 1
      BY <2>1, <2>3
    <3>3. QED
      BY <1>2, <2>0, <2>1, <3>1, <3>2
  <2>4. CASE ~(j = s.id /\ t \in heard \cup missed)
    <3>1. accepted'[j][t] = accepted[j][t]
      BY <2>1, <2>4
    <3>2. /\ accepted[j][t] <= unheard + faults + 1
          /\ ~Recorded(j, t)' => accepted[j][t] <= unheard + faults
      BY <1>5 DEF CountInv
    <3>3. QED
      BY <1>2, <2>0, <2>1, <3>1, <3>2
  <2>5. QED
    BY <2>2, <2>3, <2>4
<1>8. QED
  BY <1>7 DEF CountInv

LEMMA MergeCounts ==
    ASSUME TypeOK, ExclusiveInv, CountInv, NEW w \in Workers, NEW s \in job[w],
           MergeDeliveredTokens(w, s)
    PROVE  CountInv'
<1>1. CASE Fault
  BY <1>1, FaultPays DEF Fault, MergeDeliveredTokens, histVars
<1>2. CASE faults' = faults /\ ~Fault
  <2>1. /\ delivered' = [delivered EXCEPT ![s.id] =
                             IF outbox[s.id] = "gone" THEN @ ELSE @ \cup res[w].sent]
        /\ pc[w] = "merge" /\ pc' = [pc EXCEPT ![w] = "disable"] /\ outbox' = outbox
        /\ job' = job /\ res' = res /\ accepted' = accepted /\ unheard' = unheard
    BY <1>2 DEF MergeDeliveredTokens, histVars
  <2>2. s.id \in Jobs
    BY DEF TypeOK, PushJob
  <2>3. \A r \in job[w] : r = s
    BY DEF ExclusiveInv, HandsInv, OneJob
  <2>4. ASSUME NEW j \in Jobs, NEW t \in Tokens, Recorded(j, t) PROVE Recorded(j, t)'
    <3>1. CASE outbox[j] = "gone"
      BY <2>1, <3>1 DEF Recorded
    <3>2. CASE t \in delivered[j]
      <4>1. t \in delivered'[j]
        BY <2>1, <2>2, <3>2 DEF TypeOK
      <4>2. QED
        BY <4>1 DEF Recorded
    <3>3. CASE Unmerged(j, t) /\ outbox[j] # "gone"
      <4>1. PICK v \in Workers : pc[v] = "merge" /\ t \in res[v].sent /\ \E r \in job[v] : r.id = j
        BY <3>3 DEF Unmerged
      <4>2. CASE v = w
        <5>1. j = s.id /\ t \in res[w].sent
          BY <2>3, <4>1, <4>2
        <5>2. t \in delivered'[j]
          BY <2>1, <2>2, <3>3, <5>1 DEF TypeOK
        <5>3. QED
          BY <5>2 DEF Recorded
      <4>3. CASE v # w
        <5>1. pc'[v] = "merge"
          BY <2>1, <4>1, <4>3 DEF TypeOK
        <5>2. QED
          BY <2>1, <4>1, <5>1 DEF Recorded, Unmerged
      <4>4. QED
        BY <4>2, <4>3
    <3>4. QED
      BY <2>4, <3>1, <3>2, <3>3 DEF Recorded
  <2>5. QED
    BY <1>2, <2>1, <2>4, RecordsKept
<1>3. QED
  BY <1>1, <1>2 DEF MergeDeliveredTokens

LEMMA CountStep ==
    ASSUME TypeOK, ExclusiveInv, CountInv, [Next]_vars
    PROVE  CountInv'
<1> USE DEF rowVars, deviceVars, workerVars, histVars
<1>1. ASSUME NEW j \in Jobs, CreatePushJobInTx(j) PROVE CountInv'
  BY <1>1, RecordsUntouched DEF CreatePushJobInTx, TypeOK
<1>2. ASSUME NEW j \in Jobs, DueAgain(j) PROVE CountInv'
  BY <1>2, RecordsUntouched DEF DueAgain, TypeOK
<1>3. ASSUME NEW u \in Users, NEW t \in Tokens,
             UpsertPushDevice(u, t) \/ DeletePushDevice(u, t)
      PROVE CountInv'
  BY <1>3, RecordsUntouched DEF UpsertPushDevice, DeletePushDevice
<1>4. ASSUME NEW w \in Workers, ClaimDueJobs(w) PROVE CountInv'
  BY <1>4, RecordsUntouched DEF ClaimDueJobs, TypeOK
<1>5. ASSUME NEW w \in Workers, NEW s \in batch[w], ProcessJob(w, s) PROVE CountInv'
  <2>1. \A v \in Workers : v # w => pc'[v] = pc[v] /\ job'[v] = job[v] /\ res'[v] = res[v]
    BY <1>5 DEF ProcessJob, TypeOK
  <2>2. /\ pc[w] = "loop" /\ UNCHANGED <<accepted, unheard, faults>>
        /\ outbox' = outbox /\ delivered' = delivered
    BY <1>5 DEF ProcessJob
  <2>3. \A j \in Jobs, t \in Tokens : Recorded(j, t) => Recorded(j, t)'
    BY <2>1, <2>2 DEF Recorded, Unmerged
  <2>4. QED
    BY <2>2, <2>3, RecordsKept
<1>6. ASSUME NEW w \in Workers, NEW s \in batch[w], ListFails(w, s) PROVE CountInv'
  BY <1>6, FaultPays DEF ListFails, Fault
<1>7. ASSUME NEW w \in Workers, NEW s \in job[w], Send(w, s) PROVE CountInv'
  BY <1>7, SendCounts
<1>8. ASSUME NEW w \in Workers, NEW s \in job[w], SendFails(w, s) PROVE CountInv'
  BY <1>8, SendCounts
<1>9. ASSUME NEW w \in Workers, NEW s \in job[w], MergeDeliveredTokens(w, s) PROVE CountInv'
  BY <1>9, MergeCounts
<1>10. ASSUME NEW w \in Workers, DisableInvalidTokens(w) PROVE CountInv'
  <2>1. CASE Fault
    BY <1>10, <2>1, FaultPays DEF DisableInvalidTokens, Fault
  <2>2. CASE ~Fault
    <3>1. /\ pc[w] = "disable" /\ \A v \in Workers \ {w} : pc'[v] = pc[v]
          /\ UNCHANGED <<outbox, delivered, job, res, accepted, unheard, faults>>
      BY <1>10, <2>2 DEF DisableInvalidTokens, TypeOK
    <3>2. QED
      BY <3>1, RecordsUntouched
  <2>3. QED
    BY <2>1, <2>2
<1>11. ASSUME NEW w \in Workers, NEW s \in job[w],
              CompletePushJob(w, s) \/ ReschedulePushJob(w, s)
       PROVE CountInv'
  <2>1. CASE Fault
    BY <1>11, <2>1, FaultPays DEF CompletePushJob, ReschedulePushJob, Fault
  <2>2. CASE ~Fault
    <3>1. /\ Leave(w) /\ pc[w] # "merge" /\ UNCHANGED <<accepted, unheard, faults, delivered>>
      BY <1>11, <2>2 DEF CompletePushJob, ReschedulePushJob
    <3>2. \A j \in Jobs : outbox[j] = "gone" => outbox'[j] = "gone"
      BY <1>11, <2>2 DEF CompletePushJob, ReschedulePushJob, TypeOK
    <3>3. \A v \in Workers : v # w => pc'[v] = pc[v] /\ job'[v] = job[v] /\ res'[v] = res[v]
      BY <3>1 DEF Leave, TypeOK
    <3>4. \A j \in Jobs, t \in Tokens : Recorded(j, t) => Recorded(j, t)'
      BY <3>1, <3>2, <3>3 DEF Recorded, Unmerged
    <3>5. QED
      BY <3>1, <3>4, RecordsKept
  <2>3. QED
    BY <2>1, <2>2
<1>12. CASE Crash
  BY <1>12, FaultPays DEF Crash, Fault
<1>13. CASE UNCHANGED vars
  BY <1>13, RecordsUntouched DEF vars
<1>14. QED
  BY <1>1, <1>2, <1>3, <1>4, <1>5, <1>6, <1>7, <1>8, <1>9, <1>10, <1>11, <1>12, <1>13
     DEF Next, WorkerStep

\* A device gets the push of a job once more only for a delivery without a record,
\* lost by a fault or never heard of, provided the claim outlives the batch.
THEOREM NoDuplicateWithoutFault ==
    ASSUME ClaimOutlivesBatch PROVE Spec => []DuplicatesNeedFaults
<1>1. Init => CountInv
  BY DEF Init, CountInv
<1>2. TypeOK /\ ExclusiveInv /\ CountInv /\ [Next]_vars => CountInv'
  BY CountStep
<1>3. TypeOK /\ CountInv => DuplicatesNeedFaults
  BY DEF TypeOK, CountInv, DuplicatesNeedFaults
<1>4. QED
  BY <1>1, <1>2, <1>3, TypeCorrect, ExclusiveAlways, PTL DEF Spec

-----------------------------------------------------------------------------
(***************************************************************************)
(* Attempts.  Between an attempt and the end of processJob the attempt is  *)
(* "spent" but not yet in the column; a fault may forget it.                *)
(***************************************************************************)

Spent(j) ==
    \E w \in Workers : pc[w] \notin {"loop", "send"} /\ \E s \in job[w] : s.id = j

TriesInv ==
    \A j \in Jobs :
        /\ attempts[j] < PushMaxAttempts
        /\ tries[j] <= PushMaxAttempts + faults
        /\ outbox[j] # "gone" =>
              /\ tries[j] <= attempts[j] + 1 + faults
              /\ ~Spent(j) => tries[j] <= attempts[j] + faults

LEMMA TriesFault ==
    ASSUME TypeOK, TriesInv, tries' = tries, attempts' = attempts, faults' = faults + 1,
           \A j \in Jobs : outbox[j] = "gone" => outbox'[j] = "gone"
    PROVE  TriesInv'
  BY DEF TypeOK, TriesInv

LEMMA TriesUntouched ==
    ASSUME TypeOK, TriesInv, tries' = tries, attempts' = attempts, faults' = faults,
           \A j \in Jobs : outbox[j] = "gone" => outbox'[j] = "gone",
           \A j \in Jobs : Spent(j) => Spent(j)'
    PROVE  TriesInv'
  BY DEF TypeOK, TriesInv

\* An attempt at job s by worker w, who holds it alone and had not tried it yet.
LEMMA TriesCount ==
    ASSUME TypeOK, ExclusiveInv, TriesInv, NEW w \in Workers, NEW s \in Hand(w),
           s \in batch[w] \/ pc[w] = "send",
           tries' = [tries EXCEPT ![s.id] = @ + 1],
           attempts' = attempts, faults' = faults, outbox' = outbox,
           \A v \in Workers : v # w => pc'[v] = pc[v] /\ job'[v] = job[v],
           pc[w] \in {"loop", "send"},
           pc'[w] \notin {"loop", "send"}, s \in job'[w]
    PROVE  TriesInv'
<1>1. s.id \in Jobs
  BY DEF Hand, TypeOK, PushJob
<1>2. ~Spent(s.id)
  <2> SUFFICES ASSUME NEW v \in Workers, pc[v] \notin {"loop", "send"},
                      NEW r \in job[v], r.id = s.id
               PROVE FALSE
    BY DEF Spent
  <2>1. v # w /\ r \in Hand(v)
    BY DEF Hand
  <2>2. QED
    BY <2>1 DEF ExclusiveInv, HandsInv, HandsApart
<1>3. outbox[s.id] # "gone"
  BY DEF ExclusiveInv, HandsInv, HandsWait
<1>4. Spent(s.id)'
  BY DEF Spent
<1>5. \A j \in Jobs : Spent(j) => Spent(j)'
  BY DEF Spent
<1>6. ASSUME NEW j \in Jobs
      PROVE  /\ attempts'[j] < PushMaxAttempts
             /\ tries'[j] <= PushMaxAttempts + faults'
             /\ outbox'[j] # "gone" =>
                   /\ tries'[j] <= attempts'[j] + 1 + faults'
                   /\ ~Spent(j)' => tries'[j] <= attempts'[j] + faults'
  <2>0. tries[j] \in Nat /\ attempts[j] \in Nat /\ faults \in Nat
    BY DEF TypeOK
  <2>1. CASE j = s.id
    <3>1. tries'[j] = tries[j] + 1
      BY <1>1, <2>1 DEF TypeOK
    <3>2. tries[j] <= attempts[j] + faults /\ attempts[j] < PushMaxAttempts
      BY <1>2, <1>3, <2>1 DEF TriesInv
    <3>3. QED
      BY <1>4, <2>0, <2>1, <3>1, <3>2
  <2>2. CASE j # s.id
    <3>1. tries'[j] = tries[j]
      BY <2>2 DEF TypeOK
    <3>2. QED
      BY <1>5, <3>1 DEF TriesInv
  <2>3. QED
    BY <2>1, <2>2
<1>7. QED
  BY <1>6 DEF TriesInv

\* The end of processJob: the row is deleted, or the attempt goes into its column.
LEMMA TriesSettle ==
    ASSUME TypeOK, ExclusiveInv, TriesInv, NEW w \in Workers, NEW s \in job[w],
           CompletePushJob(w, s) \/ ReschedulePushJob(w, s), ~Fault
    PROVE  TriesInv'
<1>1. s.id \in Jobs /\ s \in Hand(w)
  BY DEF TypeOK, PushJob, Hand
<1>2. outbox[s.id] # "gone"
  BY <1>1 DEF ExclusiveInv, HandsInv, HandsWait
<1>3. Leave(w) /\ faults' = faults /\ tries' = tries
  BY DEF CompletePushJob, ReschedulePushJob, histVars
<1>4. \A r \in job[w] : r = s
  BY DEF ExclusiveInv, HandsInv, OneJob
<1>5. \A j \in Jobs \ {s.id} : Spent(j) => Spent(j)'
  BY <1>3, <1>4 DEF Spent, Leave, TypeOK
<1>6. \/ outbox'[s.id] = "gone" /\ attempts' = attempts
      \/ attempts'[s.id] = attempts[s.id] + 1 /\ attempts[s.id] + 1 < PushMaxAttempts
  <2>1. s.attempts = attempts[s.id]
    BY DEF ExclusiveInv, FreshJob
  <2>2. QED
    BY <1>1, <1>2, <2>1 DEF CompletePushJob, ReschedulePushJob, TypeOK
<1>7. \A j \in Jobs \ {s.id} : outbox'[j] = outbox[j] /\ attempts'[j] = attempts[j]
  BY DEF CompletePushJob, ReschedulePushJob, TypeOK
<1>8. ASSUME NEW j \in Jobs
      PROVE  /\ attempts'[j] < PushMaxAttempts
             /\ tries'[j] <= PushMaxAttempts + faults'
             /\ outbox'[j] # "gone" =>
                   /\ tries'[j] <= attempts'[j] + 1 + faults'
                   /\ ~Spent(j)' => tries'[j] <= attempts'[j] + faults'
  <2>0. tries[j] \in Nat /\ attempts[j] \in Nat /\ faults \in Nat
    BY DEF TypeOK
  <2>1. CASE j = s.id
    <3>1. /\ attempts[j] < PushMaxAttempts /\ tries[j] <= PushMaxAttempts + faults
          /\ tries[j] <= attempts[j] + 1 + faults
      BY <1>2, <2>1 DEF TriesInv
    <3>2. QED
      BY <1>3, <1>6, <2>0, <2>1, <3>1
  <2>2. CASE j # s.id
    BY <1>3, <1>5, <1>7, <2>2 DEF TriesInv
  <2>3. QED
    BY <2>1, <2>2
<1>9. QED
  BY <1>8 DEF TriesInv

LEMMA TriesStep ==
    ASSUME TypeOK, ExclusiveInv, TriesInv, [Next]_vars
    PROVE  TriesInv'
<1> USE DEF rowVars, deviceVars, workerVars, histVars
<1>1. ASSUME NEW j \in Jobs, CreatePushJobInTx(j) \/ DueAgain(j) PROVE TriesInv'
  <2>1. \A i \in Jobs : outbox[i] = "gone" => outbox'[i] = "gone"
    BY <1>1 DEF CreatePushJobInTx, DueAgain, TypeOK
  <2>2. UNCHANGED <<tries, attempts, faults, pc, job>>
    BY <1>1 DEF CreatePushJobInTx, DueAgain
  <2>3. QED
    BY <2>1, <2>2, TriesUntouched DEF Spent
<1>2. ASSUME NEW u \in Users, NEW t \in Tokens,
             UpsertPushDevice(u, t) \/ DeletePushDevice(u, t)
      PROVE TriesInv'
  BY <1>2, TriesUntouched DEF UpsertPushDevice, DeletePushDevice, Spent
<1>3. ASSUME NEW w \in Workers, ClaimDueJobs(w) PROVE TriesInv'
  <2>1. \A i \in Jobs : outbox[i] = "gone" => outbox'[i] = "gone"
    BY <1>3 DEF ClaimDueJobs, TypeOK
  <2>2. UNCHANGED <<tries, attempts, faults, pc, job>>
    BY <1>3 DEF ClaimDueJobs
  <2>3. QED
    BY <2>1, <2>2, TriesUntouched DEF Spent
<1>4. ASSUME NEW w \in Workers, NEW s \in batch[w], ProcessJob(w, s) PROVE TriesInv'
  <2>1. \A v \in Workers : v # w => pc'[v] = pc[v] /\ job'[v] = job[v]
    BY <1>4 DEF ProcessJob, TypeOK
  <2>2. /\ pc[w] = "loop" /\ s \in job'[w] /\ s \in Hand(w)
        /\ attempts' = attempts /\ faults' = faults /\ outbox' = outbox
    BY <1>4 DEF ProcessJob, TypeOK, Hand
  <2>3. CASE tries' = tries
    <3>1. \A j \in Jobs : Spent(j) => Spent(j)'
      BY <2>1, <2>2 DEF Spent
    <3>2. QED
      BY <2>2, <2>3, <3>1, TriesUntouched
  <2>4. CASE tries' = [tries EXCEPT ![s.id] = @ + 1] /\ pc' = [pc EXCEPT ![w] = "finish"]
    <3>1. pc'[w] \notin {"loop", "send"}
      BY <2>4 DEF TypeOK
    <3>2. QED
      BY <2>1, <2>2, <2>4, <3>1, TriesCount
  <2>5. QED
    BY <1>4, <2>3, <2>4 DEF ProcessJob
<1>5. ASSUME NEW w \in Workers, NEW s \in batch[w], ListFails(w, s) PROVE TriesInv'
  BY <1>5, TriesFault DEF ListFails, Fault
<1>6. ASSUME NEW w \in Workers, NEW s \in job[w], Send(w, s) \/ SendFails(w, s) PROVE TriesInv'
  <2>1. \A v \in Workers : v # w => pc'[v] = pc[v] /\ job'[v] = job[v]
    BY <1>6 DEF Send, SendFails, TypeOK
  <2>2. /\ pc[w] = "send" /\ pc'[w] = "merge" /\ s \in job'[w] /\ s \in Hand(w)
        /\ attempts' = attempts /\ faults' = faults /\ outbox' = outbox
        /\ tries' = [tries EXCEPT ![s.id] = @ + 1]
    BY <1>6 DEF Send, SendFails, TypeOK, Hand
  <2>3. QED
    BY <2>1, <2>2, TriesCount
<1>7. ASSUME NEW w \in Workers, NEW s \in job[w],
             MergeDeliveredTokens(w, s) \/ DisableInvalidTokens(w)
      PROVE TriesInv'
  <2>1. /\ UNCHANGED <<outbox, tries, attempts, job>>
        /\ faults' = faults \/ faults' = faults + 1
    BY <1>7 DEF MergeDeliveredTokens, DisableInvalidTokens, Fault
  <2>2. \A v \in Workers : pc[v] \notin {"loop", "send"} => pc'[v] \notin {"loop", "send"}
    BY <1>7 DEF MergeDeliveredTokens, DisableInvalidTokens, TypeOK
  <2>3. \A j \in Jobs : Spent(j) => Spent(j)'
    BY <2>1, <2>2 DEF Spent
  <2>4. QED
    BY <2>1, <2>3, TriesFault, TriesUntouched
<1>8. ASSUME NEW w \in Workers, NEW s \in job[w],
             CompletePushJob(w, s) \/ ReschedulePushJob(w, s)
      PROVE TriesInv'
  <2>1. CASE Fault
    <3>1. attempts' = attempts \/ faults' = faults
      BY <1>8 DEF CompletePushJob, ReschedulePushJob
    <3>2. faults' = faults + 1 /\ faults \in Nat
      BY <2>1 DEF Fault, TypeOK
    <3>3. tries' = tries /\ (\A j \in Jobs : outbox[j] = "gone" => outbox'[j] = "gone")
      BY <1>8 DEF CompletePushJob, ReschedulePushJob, TypeOK
    <3>4. QED
      BY <3>1, <3>2, <3>3, TriesFault
  <2>2. CASE ~Fault
    BY <1>8, <2>2, TriesSettle
  <2>3. QED
    BY <2>1, <2>2
<1>9. CASE Crash
  BY <1>9, TriesFault DEF Crash, Fault
<1>10. CASE UNCHANGED vars
  BY <1>10, TriesUntouched DEF vars, Spent
<1>11. ASSUME NEW w \in Workers, DisableInvalidTokens(w) PROVE TriesInv'
  <2>1. job[w] # {}
    BY <1>11 DEF DisableInvalidTokens, ExclusiveInv, HandsInv, Idle
  <2>2. QED
    BY <1>7, <1>11, <2>1
<1>12. QED
  BY <1>1, <1>2, <1>3, <1>4, <1>5, <1>6, <1>7, <1>8, <1>9, <1>10, <1>11 DEF Next, WorkerStep

\* PUSH_MAX_ATTEMPTS bounds the attempts really made, faults apart, provided
\* the claim outlives the batch.
THEOREM AttemptsAreBounded ==
    ASSUME ClaimOutlivesBatch PROVE Spec => []AttemptsBounded
<1>1. Init => TriesInv
  BY DEF Init, TriesInv
<1>2. TypeOK /\ ExclusiveInv /\ TriesInv /\ [Next]_vars => TriesInv'
  BY TriesStep
<1>3. TriesInv => AttemptsBounded
  BY DEF TriesInv, AttemptsBounded
<1>4. QED
  BY <1>1, <1>2, <1>3, TypeCorrect, ExclusiveAlways, PTL DEF Spec

-----------------------------------------------------------------------------
(***************************************************************************)
(* PushOutbox implements PushDelivery, whether or not a claim outlives the *)
(* batch it covers.                                                        *)
(*                                                                         *)
(* A worker decides from a snapshot of the row and from the answers of its *)
(* own attempt.  Nothing keeps these equal to the row once two workers     *)
(* hold it, but the history only grows: what a snapshot or a result says   *)
(* was delivered, refused or tried stays so.  SettleInv is that argument.  *)
(***************************************************************************)
Got(j) == {t \in Tokens : accepted[j][t] > 0}

\* A row records no more than what happened.
RowsAreTrue == \A j \in Jobs : delivered[j] \subseteq Got(j) /\ attempts[j] <= tries[j]

\* So does a snapshot, whose row exists.
SnapshotIsTrue(s) ==
    /\ outbox[s.id] # "absent"
    /\ s.delivered \subseteq Got(s.id)
    /\ s.attempts <= tries[s.id]

\* Where the worker stands tells what its attempt did.
AttemptIsTrue(w, s) ==
    /\ pc[w] = "merge" => res[w].sent \subseteq Got(s.id)
    /\ pc[w] \in {"merge", "disable", "finish"} => s.attempts + 1 <= tries[s.id]
    /\ pc[w] = "complete" \/ (pc[w] \in {"merge", "disable"} /\ ~res[w].retry) =>
           listed[w] \subseteq Got(s.id) \cup refused[s.id]

WorkerInv(w) ==
    /\ pc[w] = "loop" <=> job[w] = {}
    /\ \A r, s \in job[w] : r = s
    /\ \A s \in Hand(w) : SnapshotIsTrue(s)
    /\ \A s \in job[w] : AttemptIsTrue(w, s)

SettleInv == RowsAreTrue /\ \A w \in Workers : WorkerInv(w)

\* The history grows and no row disappears into "absent".
Grows ==
    \A j \in Jobs :
        /\ Got(j) \subseteq Got(j)'
        /\ refused[j] \subseteq refused'[j]
        /\ tries[j] <= tries'[j]
        /\ outbox[j] # "absent" => outbox'[j] # "absent"

Same(w) == /\ batch'[w] = batch[w] /\ job'[w] = job[w] /\ pc'[w] = pc[w]
           /\ listed'[w] = listed[w] /\ res'[w] = res[w]

-----------------------------------------------------------------------------
\* Snapshots stay true while the history grows.
LEMMA SnapshotsStayTrue ==
    ASSUME TypeOK, TypeOK', Grows, NEW s \in PushJob, SnapshotIsTrue(s)
    PROVE  SnapshotIsTrue(s)'
<1>1. /\ s.id \in Jobs /\ s.attempts \in Nat
      /\ tries[s.id] \in Nat /\ tries'[s.id] \in Nat
  BY DEF PushJob, TypeOK
<1>2. QED
  BY <1>1 DEF SnapshotIsTrue, Grows

\* A worker that does not move keeps its invariant while the history grows.
LEMMA OthersKeepInv ==
    ASSUME TypeOK, TypeOK', Grows, NEW w \in Workers, WorkerInv(w), Same(w)
    PROVE  WorkerInv(w)'
<1>1. Hand(w)' = Hand(w) /\ Hand(w) \subseteq PushJob
  BY DEF Hand, Same, TypeOK
<1>2. \A s \in Hand(w)' : SnapshotIsTrue(s)'
  BY <1>1, SnapshotsStayTrue DEF WorkerInv
<1>3. ASSUME NEW s \in job[w] PROVE AttemptIsTrue(w, s)'
  <2>1. /\ s.id \in Jobs /\ s.attempts \in Nat
        /\ tries[s.id] \in Nat /\ tries'[s.id] \in Nat
    BY DEF PushJob, TypeOK
  <2>2. AttemptIsTrue(w, s)
    BY DEF WorkerInv
  <2>3. /\ Got(s.id) \subseteq Got(s.id)' /\ refused[s.id] \subseteq refused'[s.id]
        /\ tries[s.id] <= tries'[s.id]
    BY <2>1 DEF Grows
  <2>4. QED
    BY <2>1, <2>2, <2>3 DEF AttemptIsTrue, Same
<1>4. QED
  BY <1>2, <1>3 DEF WorkerInv, Same

\* A worker that lets go of its job keeps a batch of true snapshots.
LEMMA LeavingKeepsInv ==
    ASSUME TypeOK, TypeOK', Grows, NEW w \in Workers, WorkerInv(w),
           batch'[w] \subseteq batch[w], job'[w] = {}, pc'[w] = "loop"
    PROVE  WorkerInv(w)'
<1>1. Hand(w)' \subseteq Hand(w) /\ Hand(w) \subseteq PushJob
  BY DEF Hand, TypeOK
<1>2. \A s \in Hand(w)' : SnapshotIsTrue(s)'
  BY <1>1, SnapshotsStayTrue DEF WorkerInv
<1>3. QED
  BY <1>2 DEF WorkerInv

\* A worker that goes on with its job: what is left to show is its attempt.
LEMMA GoingOnKeepsInv ==
    ASSUME TypeOK, TypeOK', Grows, NEW w \in Workers, NEW s \in job[w], WorkerInv(w),
           Hand(w)' \subseteq Hand(w), job'[w] = job[w], pc'[w] # "loop",
           AttemptIsTrue(w, s)'
    PROVE  WorkerInv(w)'
<1>1. Hand(w) \subseteq PushJob
  BY DEF Hand, TypeOK
<1>2. \A r \in Hand(w)' : SnapshotIsTrue(r)'
  BY <1>1, SnapshotsStayTrue DEF WorkerInv
<1>3. \A r \in job'[w] : AttemptIsTrue(w, r)'
  BY DEF WorkerInv
<1>4. QED
  BY <1>2, <1>3 DEF WorkerInv

\* Steps that leave the columns and the history alone.
LEMMA NothingLost ==
    ASSUME TypeOK, UNCHANGED <<accepted, refused, tries>>,
           \A j \in Jobs : outbox[j] # "absent" => outbox'[j] # "absent"
    PROVE  Grows /\ (RowsAreTrue /\ delivered' = delivered /\ attempts' = attempts => RowsAreTrue')
<1>1. \A j \in Jobs : Got(j)' = Got(j) /\ tries[j] \in Nat
  BY DEF Got, TypeOK
<1>2. QED
  BY <1>1 DEF Grows, RowsAreTrue

\* The devices a call asked for whose status is k.
With(w, s, status, k) == {t \in listed[w] \ s.delivered : status[t] = k}

\* An attempt that has just been spent: the histories of its job grew.
LEMMA HistoryOf ==
    ASSUME TypeOK, NEW w \in Workers, NEW s \in job[w], Send(w, s)
    PROVE  \E status \in [listed[w] \ s.delivered -> Status] :
               /\ res'[w] = [sent |-> With(w, s, status, "sent"),
                             invalid |-> With(w, s, status, "invalid_token"),
                             retry |-> With(w, s, status, "retryable_error") # {}]
               /\ \E missed \in SUBSET With(w, s, status, "retryable_error") :
                      Deliver(s.id, With(w, s, status, "sent"), missed)
               /\ refused' = [refused EXCEPT ![s.id] = @ \cup With(w, s, status, "invalid_token")
                                                        \cup With(w, s, status, "permanent_error")]
  BY DEF Send, TypeOK, With

LEMMA RetryOfResult ==
    ASSUME NEW a, NEW b, NEW c \in BOOLEAN, NEW r, r = [sent |-> a, invalid |-> b, retry |-> c]
    PROVE  r.retry = c
  OBVIOUS

\* Sending: the answer is in the history before it is in the result.
LEMMA SendKeepsInv ==
    ASSUME TypeOK, TypeOK', SettleInv, NEW w \in Workers, NEW s \in job[w], Send(w, s)
    PROVE  SettleInv'
<1>1. PICK status \in [listed[w] \ s.delivered -> Status] :
          /\ res'[w] = [sent |-> With(w, s, status, "sent"),
                        invalid |-> With(w, s, status, "invalid_token"),
                        retry |-> With(w, s, status, "retryable_error") # {}]
          /\ \E missed \in SUBSET With(w, s, status, "retryable_error") :
                 Deliver(s.id, With(w, s, status, "sent"), missed)
          /\ refused' = [refused EXCEPT ![s.id] = @ \cup With(w, s, status, "invalid_token")
                                                   \cup With(w, s, status, "permanent_error")]
  BY HistoryOf
<1> USE DEF With
<1> DEFINE with(k) == {t \in listed[w] \ s.delivered : status[t] = k}
<1>0. PICK missed : Deliver(s.id, with("sent"), missed)
  BY <1>1
<1>2. /\ pc[w] = "send" /\ pc' = [pc EXCEPT ![w] = "merge"]
      /\ tries' = [tries EXCEPT ![s.id] = @ + 1]
      /\ UNCHANGED <<outbox, attempts, delivered, batch, job, listed>>
      /\ \A v \in Workers \ {w} : res'[v] = res[v]
  BY DEF Send, rowVars, TypeOK
<1>3. s.id \in Jobs /\ s \in Hand(w) /\ s.attempts \in Nat
  BY DEF TypeOK, PushJob, Hand
<1>4. \A j \in Jobs, t \in Tokens : accepted[j][t] \in Nat /\ accepted[j][t] <= accepted'[j][t]
  <2> SUFFICES ASSUME NEW j \in Jobs, NEW t \in Tokens
               PROVE  accepted[j][t] \in Nat /\ accepted[j][t] <= accepted'[j][t]
    OBVIOUS
  <2>1. accepted[j][t] \in Nat
    BY DEF TypeOK
  <2>2. accepted'[j][t] \in {accepted[j][t], accepted[j][t] + 1}
    BY <1>0, <1>3, Delivered
  <2>3. QED
    BY <2>1, <2>2
<1>5. with("sent") \subseteq Got(s.id)'
  <2> SUFFICES ASSUME NEW t \in with("sent") PROVE t \in Got(s.id)'
    OBVIOUS
  <2>1. t \in Tokens /\ accepted[s.id][t] \in Nat
    BY <1>3 DEF TypeOK
  <2>2. accepted'[s.id][t] = accepted[s.id][t] + 1
    BY <1>0, <1>3, <2>1, Delivered
  <2>3. QED
    BY <2>1, <2>2 DEF Got
<1>6. \A j \in Jobs : Got(j) \subseteq Got(j)'
  <2> SUFFICES ASSUME NEW j \in Jobs, NEW t \in Got(j) PROVE t \in Got(j)'
    OBVIOUS
  <2>1. t \in Tokens /\ accepted'[j][t] \in Nat
    BY DEF Got, TypeOK
  <2>2. QED
    BY <1>4, <2>1 DEF Got
<1>7. \A j \in Jobs : refused[j] \subseteq refused'[j]
  BY <1>1, <1>3 DEF TypeOK
<1>8. \A j \in Jobs : tries[j] \in Nat /\ tries[j] <= tries'[j]
  BY <1>2, <1>3 DEF TypeOK
<1>9. Grows
  BY <1>2, <1>6, <1>7, <1>8 DEF Grows
<1>10. RowsAreTrue'
  <2> SUFFICES ASSUME NEW j \in Jobs PROVE delivered'[j] \subseteq Got(j)' /\ attempts'[j] <= tries'[j]
    BY DEF RowsAreTrue
  <2>1. attempts[j] \in Nat /\ tries'[j] \in Nat /\ delivered[j] \subseteq Got(j) /\ attempts[j] <= tries[j]
    BY DEF TypeOK, SettleInv, RowsAreTrue
  <2>2. QED
    BY <1>2, <1>6, <1>8, <2>1
<1>11. AttemptIsTrue(w, s)'
  <2>1. pc'[w] = "merge" /\ res'[w].sent = with("sent")
    BY <1>1, <1>2 DEF TypeOK
  <2>2. s.attempts + 1 <= tries'[s.id]
    <3>1. s.attempts <= tries[s.id] /\ tries[s.id] \in Nat /\ tries'[s.id] = tries[s.id] + 1
      BY <1>2, <1>3 DEF SettleInv, WorkerInv, SnapshotIsTrue, TypeOK
    <3>2. QED
      BY <1>3, <3>1
  <2>3. ASSUME ~res'[w].retry, NEW t \in listed[w] PROVE t \in Got(s.id)' \cup refused'[s.id]
    <3>1. CASE t \in s.delivered
      BY <1>3, <1>6, <3>1 DEF SettleInv, WorkerInv, SnapshotIsTrue
    <3>2. CASE t \notin s.delivered
      <4>1. with("retryable_error") = {}
        <5>1. res'[w].retry = (with("retryable_error") # {})
          <6>1. res'[w] = [sent |-> with("sent"), invalid |-> with("invalid_token"),
                           retry |-> with("retryable_error") # {}]
            BY <1>1
          <6>2. (with("retryable_error") # {}) \in BOOLEAN
            OBVIOUS
          <6>3. [sent |-> with("sent"), invalid |-> with("invalid_token"),
                 retry |-> with("retryable_error") # {}].retry = (with("retryable_error") # {})
            BY <6>2, RetryOfResult
          <6>4. QED
            BY <6>1, <6>3, Zenon
        <5>2. QED
          BY <2>3, <5>1, Zenon
      <4>2. status[t] \in {"sent", "invalid_token", "permanent_error"}
        BY <3>2, <4>1 DEF Status
      <4>3. t \in with("sent") \cup with("invalid_token") \cup with("permanent_error")
        BY <3>2, <4>2
      <4>4. with("invalid_token") \cup with("permanent_error") \subseteq refused'[s.id]
        BY <1>1, <1>3 DEF TypeOK
      <4>5. QED
        BY <1>5, <4>3, <4>4
    <3>3. QED
      BY <3>1, <3>2
  <2>4. QED
    BY <1>2, <1>5, <2>1, <2>2, <2>3 DEF AttemptIsTrue
<1>12. WorkerInv(w)'
  <2>1. Hand(w)' = Hand(w) /\ pc'[w] # "loop"
    BY <1>2 DEF Hand, TypeOK
  <2>2. QED
    BY <1>2, <1>9, <1>11, <2>1, GoingOnKeepsInv DEF SettleInv
<1>13. \A v \in Workers \ {w} : WorkerInv(v)'
  <2>1. \A v \in Workers \ {w} : Same(v)
    BY <1>2 DEF Same, TypeOK
  <2>2. QED
    BY <1>9, <2>1, OthersKeepInv DEF SettleInv
<1>14. QED
  BY <1>10, <1>12, <1>13 DEF SettleInv

\* A call or a decoding that failed as a whole is an attempt all the same.
LEMMA TryGrows ==
    ASSUME TypeOK, SettleInv, NEW s \in PushJob,
           tries' = [tries EXCEPT ![s.id] = @ + 1] \/ tries' = tries,
           UNCHANGED <<outbox, attempts, delivered, refused>>,
           \A j \in Jobs, t \in Tokens : accepted'[j][t] \in {accepted[j][t], accepted[j][t] + 1}
    PROVE  Grows /\ RowsAreTrue'
<1>1. s.id \in Jobs
  BY DEF PushJob
<1>2. \A j \in Jobs : tries[j] \in Nat /\ tries[j] <= tries'[j] /\ tries'[j] \in Nat
  <2>1. \A j \in Jobs : tries[j] \in Nat
    BY DEF TypeOK
  <2>2. \A j \in Jobs : tries'[j] \in {tries[j], tries[j] + 1}
    BY <1>1 DEF TypeOK
  <2>3. QED
    BY <2>1, <2>2
<1>3. \A j \in Jobs : Got(j) \subseteq Got(j)' /\ attempts[j] \in Nat
  <2>1. \A j \in Jobs, t \in Tokens : accepted[j][t] \in Nat
    BY DEF TypeOK
  <2>2. \A j \in Jobs, t \in Tokens : accepted[j][t] > 0 => accepted'[j][t] > 0
    BY <2>1
  <2>3. QED
    BY <2>2 DEF Got, TypeOK
<1>4. Grows
  BY <1>2, <1>3 DEF Grows
<1>5. ASSUME NEW j \in Jobs PROVE delivered'[j] \subseteq Got(j)' /\ attempts'[j] <= tries'[j]
  <2>1. delivered[j] \subseteq Got(j) /\ attempts[j] <= tries[j]
    BY DEF SettleInv, RowsAreTrue
  <2>2. QED
    BY <1>2, <1>3, <2>1
<1>6. QED
  BY <1>4, <1>5 DEF RowsAreTrue

LEMMA SendFailsKeepsInv ==
    ASSUME TypeOK, TypeOK', SettleInv, NEW w \in Workers, NEW s \in job[w], SendFails(w, s)
    PROVE  SettleInv'
<1>1. /\ pc' = [pc EXCEPT ![w] = "merge"] /\ res' = [res EXCEPT ![w] = FailedCall]
      /\ tries' = [tries EXCEPT ![s.id] = @ + 1]
      /\ UNCHANGED <<outbox, attempts, delivered, batch, job, listed, refused>>
  BY DEF SendFails, rowVars
<1>2. s \in PushJob /\ s.id \in Jobs /\ s \in Hand(w) /\ s.attempts \in Nat
  BY DEF TypeOK, PushJob, Hand
<1>3. Grows /\ RowsAreTrue'
  <2>1. \E missed : Deliver(s.id, {}, missed)
    BY DEF SendFails
  <2>2. \A j \in Jobs, t \in Tokens : accepted'[j][t] \in {accepted[j][t], accepted[j][t] + 1}
    BY <1>2, <2>1, Delivered
  <2>3. QED
    BY <1>1, <1>2, <2>2, TryGrows
<1>4. AttemptIsTrue(w, s)'
  <2>1. s.attempts <= tries[s.id] /\ tries[s.id] \in Nat /\ tries'[s.id] = tries[s.id] + 1
    BY <1>1, <1>2 DEF SettleInv, WorkerInv, SnapshotIsTrue, TypeOK
  <2>2. pc'[w] = "merge" /\ res'[w].sent = {} /\ res'[w].retry
    BY <1>1 DEF TypeOK, FailedCall
  <2>3. QED
    BY <1>2, <2>1, <2>2 DEF AttemptIsTrue
<1>5. WorkerInv(w)'
  <2>1. Hand(w)' = Hand(w) /\ pc'[w] # "loop"
    BY <1>1 DEF Hand, TypeOK
  <2>2. QED
    BY <1>1, <1>3, <1>4, <2>1, GoingOnKeepsInv DEF SettleInv
<1>6. \A v \in Workers \ {w} : WorkerInv(v)'
  <2>1. \A v \in Workers \ {w} : Same(v)
    BY <1>1 DEF Same, TypeOK
  <2>2. QED
    BY <1>3, <2>1, OthersKeepInv DEF SettleInv
<1>7. QED
  BY <1>3, <1>5, <1>6 DEF SettleInv

\* Taking a job: "complete" is chosen only when the row says all devices have it.
LEMMA ProcessKeepsInv ==
    ASSUME TypeOK, TypeOK', SettleInv, NEW w \in Workers, NEW s \in batch[w], ProcessJob(w, s)
    PROVE  SettleInv'
<1>1. /\ pc[w] = "loop" /\ batch' = [batch EXCEPT ![w] = @ \ {s}]
      /\ job' = [job EXCEPT ![w] = {s}]
      /\ UNCHANGED <<outbox, attempts, delivered, accepted, refused>>
      /\ tries' = [tries EXCEPT ![s.id] = @ + 1] \/ tries' = tries
      /\ \A v \in Workers \ {w} : pc'[v] = pc[v] /\ res'[v] = res[v] /\ listed'[v] = listed[v]
  BY DEF ProcessJob, rowVars, TypeOK
<1>2. s \in PushJob /\ s.id \in Jobs /\ s \in Hand(w) /\ s.attempts \in Nat
  BY DEF TypeOK, PushJob, Hand
<1>3. Grows /\ RowsAreTrue'
  BY <1>1, <1>2, TryGrows
<1>4. AttemptIsTrue(w, s)'
  <2>1. CASE pc' = [pc EXCEPT ![w] = "complete"] /\ listed'[w] \subseteq s.delivered
    <3>1. s.delivered \subseteq Got(s.id) /\ Got(s.id) \subseteq Got(s.id)'
      BY <1>2, <1>3 DEF SettleInv, WorkerInv, SnapshotIsTrue, Grows
    <3>2. pc'[w] = "complete"
      BY <2>1 DEF TypeOK
    <3>3. QED
      BY <2>1, <3>1, <3>2 DEF AttemptIsTrue
  <2>2. CASE pc' = [pc EXCEPT ![w] = "send"]
    <3>1. pc'[w] = "send"
      BY <2>2 DEF TypeOK
    <3>2. QED
      BY <3>1 DEF AttemptIsTrue
  <2>3. CASE pc' = [pc EXCEPT ![w] = "finish"] /\ tries' = [tries EXCEPT ![s.id] = @ + 1]
    <3>1. s.attempts <= tries[s.id] /\ tries[s.id] \in Nat /\ tries'[s.id] = tries[s.id] + 1
      BY <1>2, <2>3 DEF SettleInv, WorkerInv, SnapshotIsTrue, TypeOK
    <3>2. pc'[w] = "finish"
      BY <2>3 DEF TypeOK
    <3>3. QED
      BY <1>2, <3>1, <3>2 DEF AttemptIsTrue
  <2>4. QED
    BY <2>1, <2>2, <2>3 DEF ProcessJob, TypeOK
<1>5. WorkerInv(w)'
  <2>1. Hand(w)' \subseteq Hand(w) /\ Hand(w) \subseteq PushJob
    BY <1>1, <1>2 DEF Hand, TypeOK
  <2>2. \A r \in Hand(w)' : SnapshotIsTrue(r)'
    BY <1>3, <2>1, SnapshotsStayTrue DEF SettleInv, WorkerInv
  <2>3. job'[w] = {s} /\ pc'[w] # "loop"
    BY <1>1 DEF ProcessJob, TypeOK
  <2>4. QED
    BY <1>4, <2>2, <2>3 DEF WorkerInv
<1>6. \A v \in Workers \ {w} : WorkerInv(v)'
  <2>1. \A v \in Workers \ {w} : Same(v)
    BY <1>1 DEF Same, TypeOK
  <2>2. QED
    BY <1>3, <2>1, OthersKeepInv DEF SettleInv
<1>7. QED
  BY <1>3, <1>5, <1>6 DEF SettleInv

\* Recording what was sent, and the fault of not recording it.
LEMMA MergeKeepsInv ==
    ASSUME TypeOK, TypeOK', SettleInv, NEW w \in Workers, NEW s \in job[w],
           MergeDeliveredTokens(w, s)
    PROVE  SettleInv'
<1>1. /\ pc[w] = "merge" /\ pc' = [pc EXCEPT ![w] = "disable"]
      /\ \/ delivered' = [delivered EXCEPT ![s.id] =
                              IF outbox[s.id] = "gone" THEN @ ELSE @ \cup res[w].sent]
         \/ delivered' = delivered
      /\ UNCHANGED <<outbox, attempts, batch, job, listed, res, accepted, refused, tries>>
  BY DEF MergeDeliveredTokens, histVars
<1>2. s \in PushJob /\ s.id \in Jobs
  BY DEF TypeOK, PushJob
<1>3. Grows
  BY <1>1, NothingLost
<1>4. AttemptIsTrue(w, s)
  BY DEF SettleInv, WorkerInv
<1>5. RowsAreTrue'
  <2> SUFFICES ASSUME NEW j \in Jobs PROVE delivered'[j] \subseteq Got(j)' /\ attempts'[j] <= tries'[j]
    BY DEF RowsAreTrue
  <2>1. Got(j)' = Got(j) /\ delivered[j] \subseteq Got(j) /\ attempts[j] <= tries[j]
    BY <1>1 DEF SettleInv, RowsAreTrue, Got
  <2>2. delivered'[j] \subseteq delivered[j] \cup (IF j = s.id THEN res[w].sent ELSE {})
    BY <1>1, <1>2 DEF TypeOK
  <2>3. QED
    BY <1>1, <1>4, <2>1, <2>2 DEF AttemptIsTrue
<1>6. AttemptIsTrue(w, s)'
  <2>1. pc'[w] = "disable" /\ Got(s.id)' = Got(s.id)
    BY <1>1 DEF TypeOK, Got
  <2>2. QED
    BY <1>1, <1>4, <2>1 DEF AttemptIsTrue
<1>7. WorkerInv(w)'
  <2>1. Hand(w)' = Hand(w) /\ pc'[w] # "loop"
    BY <1>1 DEF Hand, TypeOK
  <2>2. QED
    BY <1>1, <1>3, <1>6, <2>1, GoingOnKeepsInv DEF SettleInv
<1>8. \A v \in Workers \ {w} : WorkerInv(v)'
  <2>1. \A v \in Workers \ {w} : Same(v)
    BY <1>1 DEF Same, TypeOK
  <2>2. QED
    BY <1>3, <2>1, OthersKeepInv DEF SettleInv
<1>9. QED
  BY <1>5, <1>7, <1>8 DEF SettleInv

\* Without a retryable error the job is complete.
LEMMA DisableKeepsInv ==
    ASSUME TypeOK, TypeOK', SettleInv, NEW w \in Workers, DisableInvalidTokens(w)
    PROVE  SettleInv'
<1>1. /\ pc[w] = "disable"
      /\ pc' = [pc EXCEPT ![w] = IF res[w].retry THEN "finish" ELSE "complete"]
      /\ UNCHANGED <<outbox, attempts, delivered, batch, job, listed, res, accepted, refused, tries>>
  BY DEF DisableInvalidTokens, rowVars, histVars
<1>2. PICK s \in job[w] : TRUE
  BY <1>1 DEF SettleInv, WorkerInv
<1>3. Grows /\ RowsAreTrue'
  BY <1>1, NothingLost DEF SettleInv
<1>4. AttemptIsTrue(w, s)'
  <2>1. AttemptIsTrue(w, s)
    BY DEF SettleInv, WorkerInv
  <2>2. pc'[w] = IF res[w].retry THEN "finish" ELSE "complete"
    BY <1>1 DEF TypeOK
  <2>3. Got(s.id)' = Got(s.id)
    BY <1>1 DEF Got
  <2>4. QED
    BY <1>1, <2>1, <2>2, <2>3 DEF AttemptIsTrue
<1>5. WorkerInv(w)'
  <2>1. Hand(w)' = Hand(w) /\ pc'[w] # "loop"
    BY <1>1 DEF Hand, TypeOK
  <2>2. QED
    BY <1>1, <1>2, <1>3, <1>4, <2>1, GoingOnKeepsInv DEF SettleInv
<1>6. \A v \in Workers \ {w} : WorkerInv(v)'
  <2>1. \A v \in Workers \ {w} : Same(v)
    BY <1>1 DEF Same, TypeOK
  <2>2. QED
    BY <1>3, <2>1, OthersKeepInv DEF SettleInv
<1>7. QED
  BY <1>3, <1>5, <1>6 DEF SettleInv

\* The end of processJob; a rescheduled row counts an attempt that was made.
LEMMA EndKeepsInv ==
    ASSUME TypeOK, TypeOK', SettleInv, NEW w \in Workers, NEW s \in job[w],
           CompletePushJob(w, s) \/ ReschedulePushJob(w, s)
    PROVE  SettleInv'
<1>1. /\ Leave(w) /\ UNCHANGED <<delivered, batch, accepted, refused, tries>>
      /\ outbox' \in {outbox, [outbox EXCEPT ![s.id] = "gone"], [outbox EXCEPT ![s.id] = "waiting"]}
      /\ \/ attempts' = attempts
         \/ pc[w] = "finish" /\ attempts' = [attempts EXCEPT ![s.id] = s.attempts + 1]
  BY DEF CompletePushJob, ReschedulePushJob, histVars
<1>2. s \in PushJob /\ s.id \in Jobs
  BY DEF TypeOK, PushJob
<1>3. Grows
  <2>1. \A j \in Jobs : outbox[j] # "absent" => outbox'[j] # "absent"
    BY <1>1, <1>2 DEF TypeOK
  <2>2. QED
    BY <1>1, <2>1, NothingLost
<1>4. RowsAreTrue'
  <2> SUFFICES ASSUME NEW j \in Jobs PROVE delivered'[j] \subseteq Got(j)' /\ attempts'[j] <= tries'[j]
    BY DEF RowsAreTrue
  <2>1. Got(j)' = Got(j) /\ delivered[j] \subseteq Got(j) /\ attempts[j] <= tries[j]
    BY <1>1 DEF SettleInv, RowsAreTrue, Got
  <2>2. CASE attempts' = attempts
    BY <1>1, <2>1, <2>2
  <2>3. CASE pc[w] = "finish" /\ attempts' = [attempts EXCEPT ![s.id] = s.attempts + 1]
    <3>1. s.attempts + 1 <= tries[s.id]
      BY <2>3 DEF SettleInv, WorkerInv, AttemptIsTrue
    <3>2. QED
      BY <1>1, <1>2, <2>1, <2>3, <3>1 DEF TypeOK
  <2>4. QED
    BY <1>1, <2>2, <2>3
<1>5. WorkerInv(w)'
  <2>1. batch'[w] \subseteq batch[w] /\ job'[w] = {} /\ pc'[w] = "loop"
    BY <1>1 DEF Leave, TypeOK
  <2>2. QED
    BY <1>3, <2>1, LeavingKeepsInv DEF SettleInv
<1>6. \A v \in Workers \ {w} : WorkerInv(v)'
  <2>1. \A v \in Workers \ {w} : Same(v)
    BY <1>1 DEF Same, Leave, TypeOK
  <2>2. QED
    BY <1>3, <2>1, OthersKeepInv DEF SettleInv
<1>7. QED
  BY <1>4, <1>5, <1>6 DEF SettleInv

\* Fresh snapshots are true because the rows are.
LEMMA ClaimKeepsInv ==
    ASSUME TypeOK, TypeOK', SettleInv, NEW w \in Workers, ClaimDueJobs(w)
    PROVE  SettleInv'
<1>1. PICK claimed \in SUBSET {j \in Jobs : outbox[j] = "due"} :
         /\ outbox' = [j \in Jobs |-> IF j \in claimed THEN "waiting" ELSE outbox[j]]
         /\ batch' = [batch EXCEPT ![w] = {Row(j) : j \in claimed}]
  BY DEF ClaimDueJobs
<1>2. pc[w] = "loop" /\ UNCHANGED <<pc, job, listed, res, attempts, delivered, accepted, refused, tries>>
  BY DEF ClaimDueJobs, histVars
<1>3. Grows /\ RowsAreTrue'
  <2>1. \A j \in Jobs : outbox[j] # "absent" => outbox'[j] # "absent"
    BY <1>1
  <2>2. QED
    BY <1>2, <2>1, NothingLost DEF SettleInv
<1>4. WorkerInv(w)'
  <2>1. job'[w] = {} /\ Hand(w)' = {Row(j) : j \in claimed}
    BY <1>1, <1>2 DEF Hand, SettleInv, WorkerInv, TypeOK
  <2>2. ASSUME NEW j \in claimed PROVE SnapshotIsTrue(Row(j))'
    <3>1. /\ Row(j)' = Row(j) /\ Row(j).id = j /\ Row(j).attempts = attempts[j]
          /\ Row(j).delivered = delivered[j]
      BY <1>2 DEF Row
    <3>2. j \in Jobs /\ outbox'[j] = "waiting"
      BY <1>1
    <3>3. delivered[j] \subseteq Got(j)' /\ attempts[j] <= tries'[j]
      BY <1>2, <1>3, <3>2 DEF RowsAreTrue
    <3>4. QED
      BY <3>1, <3>2, <3>3 DEF SnapshotIsTrue
  <2>3. \A j \in claimed : Row(j)' = Row(j)
    BY <1>2 DEF Row
  <2>4. QED
    BY <1>2, <2>1, <2>2, <2>3 DEF WorkerInv
<1>5. \A v \in Workers \ {w} : WorkerInv(v)'
  <2>1. \A v \in Workers \ {w} : Same(v)
    BY <1>1, <1>2 DEF Same, TypeOK
  <2>2. QED
    BY <1>3, <2>1, OthersKeepInv DEF SettleInv
<1>6. QED
  BY <1>3, <1>4, <1>5 DEF SettleInv

LEMMA SettleStep ==
    ASSUME TypeOK, TypeOK', SettleInv, [Next]_vars
    PROVE  SettleInv'
<1> USE DEF rowVars, deviceVars, workerVars, histVars
<1>1. ASSUME UNCHANGED <<attempts, delivered, workerVars, histVars>>,
             \A j \in Jobs : outbox[j] # "absent" => outbox'[j] # "absent"
      PROVE  SettleInv'
  <2>1. Grows /\ RowsAreTrue'
    BY <1>1, NothingLost DEF SettleInv
  <2>2. \A w \in Workers : Same(w)
    BY <1>1 DEF Same
  <2>3. QED
    BY <2>1, <2>2, OthersKeepInv DEF SettleInv
<1>2. ASSUME NEW j \in Jobs, CreatePushJobInTx(j) \/ DueAgain(j) PROVE SettleInv'
  BY <1>1, <1>2 DEF CreatePushJobInTx, DueAgain, TypeOK
<1>3. ASSUME NEW u \in Users, NEW t \in Tokens,
             UpsertPushDevice(u, t) \/ DeletePushDevice(u, t)
      PROVE SettleInv'
  BY <1>1, <1>3 DEF UpsertPushDevice, DeletePushDevice
<1>4. ASSUME NEW w \in Workers, ClaimDueJobs(w) PROVE SettleInv'
  BY <1>4, ClaimKeepsInv
<1>5. ASSUME NEW w \in Workers, NEW s \in batch[w], ProcessJob(w, s) PROVE SettleInv'
  BY <1>5, ProcessKeepsInv
<1>6. ASSUME NEW w \in Workers, NEW s \in batch[w], ListFails(w, s) PROVE SettleInv'
  <2>1. Grows /\ RowsAreTrue'
    BY <1>6, NothingLost DEF ListFails, SettleInv
  <2>2. /\ batch'[w] \subseteq batch[w] /\ job'[w] = {} /\ pc'[w] = "loop"
        /\ \A v \in Workers \ {w} : Same(v)
    BY <1>6 DEF ListFails, Same, SettleInv, WorkerInv, TypeOK
  <2>3. QED
    BY <2>1, <2>2, LeavingKeepsInv, OthersKeepInv DEF SettleInv
<1>7. ASSUME NEW w \in Workers, NEW s \in job[w],
             Send(w, s) \/ SendFails(w, s) \/ MergeDeliveredTokens(w, s)
      PROVE SettleInv'
  BY <1>7, SendKeepsInv, SendFailsKeepsInv, MergeKeepsInv
<1>8. ASSUME NEW w \in Workers, DisableInvalidTokens(w) PROVE SettleInv'
  BY <1>8, DisableKeepsInv
<1>9. ASSUME NEW w \in Workers, NEW s \in job[w],
             CompletePushJob(w, s) \/ ReschedulePushJob(w, s)
      PROVE SettleInv'
  BY <1>9, EndKeepsInv
<1>10. CASE Crash
  <2>1. Grows /\ RowsAreTrue'
    BY <1>10, NothingLost DEF Crash, SettleInv
  <2>2. \A w \in Workers : batch'[w] \subseteq batch[w] /\ job'[w] = {} /\ pc'[w] = "loop"
    BY <1>10 DEF Crash
  <2>3. QED
    BY <2>1, <2>2, LeavingKeepsInv DEF SettleInv
<1>11. CASE UNCHANGED vars
  BY <1>1, <1>11 DEF vars
<1>12. QED
  BY <1>2, <1>3, <1>4, <1>5, <1>6, <1>7, <1>8, <1>9, <1>10, <1>11 DEF Next, WorkerStep

LEMMA SettleAlways == Spec => []SettleInv
<1>1. Init => SettleInv
  <2>1. Init => RowsAreTrue
    BY DEF Init, RowsAreTrue
  <2>2. Init => \A w \in Workers : WorkerInv(w)
    BY DEF Init, WorkerInv, Hand
  <2>3. QED
    BY <2>1, <2>2 DEF SettleInv
<1>2. TypeOK /\ TypeOK' /\ SettleInv /\ [Next]_vars => SettleInv'
  BY SettleStep
<1>3. QED
  BY <1>1, <1>2, TypeCorrect, PTL DEF Spec

\* A job that is complete has been served.
LEMMA CompleteIsServed ==
    ASSUME NEW w \in Workers, NEW s \in PushJob, AttemptIsTrue(w, s), pc[w] = "complete"
    PROVE  \A t \in listed[w] : accepted[s.id][t] > 0 \/ t \in refused[s.id]
<1>1. listed[w] \subseteq Got(s.id) \cup refused[s.id]
  BY DEF AttemptIsTrue
<1>2. QED
  BY <1>1 DEF Got

\* A row is deleted only when every device listed for it by the worker that
\* deletes it took the push or was refused for good, or after PUSH_MAX_ATTEMPTS
\* real attempts: claims may expire, workers overlap and processes crash.
THEOREM OnlySettledLeave == Spec => OnlySettledJobsLeave
<1>1. TypeOK /\ SettleInv /\ [Next]_vars => [OnlySettledStep]_vars
  <2> SUFFICES ASSUME TypeOK, SettleInv, [Next]_vars,
                      NEW j \in Jobs, outbox[j] # "gone", outbox'[j] = "gone"
               PROVE  \/ tries[j] >= PushMaxAttempts
                      \/ \E w \in Workers :
                            /\ j \in Held(w)
                            /\ \A t \in listed[w] : accepted[j][t] > 0 \/ t \in refused[j]
    BY DEF OnlySettledStep
  <2>1. \E w \in Workers : \E s \in job[w] : CompletePushJob(w, s) /\ s.id = j
    <3>1. \/ UNCHANGED outbox
          \/ \E i \in Jobs : CreatePushJobInTx(i) \/ DueAgain(i)
          \/ \E w \in Workers : ClaimDueJobs(w)
          \/ \E w \in Workers : \E s \in job[w] : CompletePushJob(w, s) \/ ReschedulePushJob(w, s)
      <4>1. ASSUME NEW u \in Users, NEW t \in Tokens,
                   UpsertPushDevice(u, t) \/ DeletePushDevice(u, t)
            PROVE  UNCHANGED outbox
        BY <4>1 DEF UpsertPushDevice, DeletePushDevice, rowVars
      <4>2. ASSUME NEW w \in Workers, NEW s \in batch[w], ProcessJob(w, s) \/ ListFails(w, s)
            PROVE  UNCHANGED outbox
        BY <4>2 DEF ProcessJob, ListFails, rowVars
      <4>3. ASSUME NEW w \in Workers, NEW s \in job[w],
                   Send(w, s) \/ SendFails(w, s) \/ MergeDeliveredTokens(w, s)
            PROVE  UNCHANGED outbox
        BY <4>3 DEF Send, SendFails, MergeDeliveredTokens, rowVars
      <4>4. ASSUME NEW w \in Workers, DisableInvalidTokens(w) PROVE UNCHANGED outbox
        BY <4>4 DEF DisableInvalidTokens, rowVars
      <4>5. Crash \/ UNCHANGED vars => UNCHANGED outbox
        BY DEF Crash, vars, rowVars
      <4>6. QED
        BY <4>1, <4>2, <4>3, <4>4, <4>5 DEF Next, WorkerStep
    <3>2. \A i \in Jobs : ~CreatePushJobInTx(i) /\ ~DueAgain(i)
      BY DEF CreatePushJobInTx, DueAgain, TypeOK
    <3>3. \A w \in Workers : ~ClaimDueJobs(w)
      BY DEF ClaimDueJobs
    <3>4. \A w \in Workers : \A s \in job[w] : ~ReschedulePushJob(w, s)
      BY DEF ReschedulePushJob, TypeOK
    <3>5. \A w \in Workers : \A s \in job[w] : CompletePushJob(w, s) => s.id = j
      BY DEF CompletePushJob, TypeOK
    <3>6. QED
      BY <3>1, <3>2, <3>3, <3>4, <3>5
  <2> PICK w \in Workers : \E s \in job[w] : CompletePushJob(w, s) /\ s.id = j
    BY <2>1
  <2> PICK s \in job[w] : CompletePushJob(w, s) /\ s.id = j
    OBVIOUS
  <2>2. AttemptIsTrue(w, s) /\ j \in Held(w) /\ s \in PushJob
    BY DEF SettleInv, WorkerInv, Held, TypeOK
  <2>3. CASE pc[w] = "complete"
    <3>1. \A t \in listed[w] : accepted[s.id][t] > 0 \/ t \in refused[s.id]
      BY <2>2, <2>3, CompleteIsServed
    <3>2. QED
      BY <2>2, <3>1
  <2>4. CASE pc[w] = "finish" /\ s.attempts + 1 >= PushMaxAttempts
    <3>1. s.attempts \in Nat /\ tries[j] \in Nat /\ PushMaxAttempts \in Nat
      BY MaxAttemptsAssumption DEF TypeOK, PushJob
    <3>2. s.attempts + 1 <= tries[j]
      BY <2>2, <2>4 DEF AttemptIsTrue
    <3>3. QED
      BY <2>4, <3>1, <3>2
  <2>5. QED
    BY <2>3, <2>4 DEF CompletePushJob
<1>2. QED
  BY <1>1, TypeCorrect, SettleAlways, PTL DEF Spec, OnlySettledJobsLeave

-----------------------------------------------------------------------------
(***************************************************************************)
(* The refinement.  Creating a row is Submit, taking a job out of a batch  *)
(* is Open, a call is Call, deleting the row is Settle, every other end of *)
(* processJob and a crash is LetGo; claims, due times, devices and the     *)
(* bookkeeping of an attempt are invisible.                                *)
(***************************************************************************)

\* A step nobody sees.
LEMMA Invisible ==
    ASSUME UNCHANGED <<job, listed, accepted, refused, tries>>,
           \A j \in Jobs : /\ outbox[j] = "absent" <=> outbox'[j] = "absent"
                           /\ outbox[j] = "gone" <=> outbox'[j] = "gone"
    PROVE  UNCHANGED Delivery!vars
<1>1. DeliveryState' = DeliveryState
  BY DEF DeliveryState
<1>2. OpenAttempts' = OpenAttempts
  BY DEF OpenAttempts, Attending
<1>3. QED
  BY <1>1, <1>2 DEF Delivery!vars

\* Workers that go on or let go of their job.
LEMMA WorkersLetGo ==
    ASSUME TypeOK',
           \A v \in Workers : job'[v] = {} \/ (job'[v] = job[v] /\ listed'[v] = listed[v])
    PROVE  Delivery!LetGo
<1>1. OpenAttempts' \in [Jobs -> SUBSET SUBSET Tokens]
  BY DEF OpenAttempts, Attending, TypeOK
<1>2. \A j \in Jobs : OpenAttempts'[j] \subseteq OpenAttempts[j]
  BY DEF OpenAttempts, Attending
<1>3. QED
  BY <1>1, <1>2 DEF Delivery!LetGo

LEMMA OpensAttempt ==
    ASSUME TypeOK, TypeOK', SettleInv, ClaimOutlivesBatch => ExclusiveInv,
           NEW w \in Workers, NEW s \in batch[w], ProcessJob(w, s)
    PROVE  Delivery!Open(s.id, listed'[w])
<1>1. /\ pc[w] = "loop" /\ job' = [job EXCEPT ![w] = {s}]
      /\ UNCHANGED <<outbox, accepted, refused>>
      /\ tries' = tries \/ tries' = [tries EXCEPT ![s.id] = @ + 1]
      /\ \A v \in Workers \ {w} : listed'[v] = listed[v]
  BY DEF ProcessJob, rowVars, TypeOK
<1>2. s.id \in Jobs /\ s \in Hand(w) /\ job[w] = {}
  BY <1>1 DEF TypeOK, PushJob, Hand, SettleInv, WorkerInv
<1>3. DeliveryState[s.id] # "none"
  BY <1>2 DEF SettleInv, WorkerInv, SnapshotIsTrue, DeliveryState
<1>4. ASSUME ClaimOutlivesBatch PROVE DeliveryState[s.id] = "pending" /\ OpenAttempts[s.id] = {}
  <2>1. outbox[s.id] = "waiting"
    BY <1>2, <1>4 DEF ExclusiveInv, HandsInv, HandsWait
  <2>2. Attending(s.id) = {}
    <3> SUFFICES ASSUME NEW v \in Workers, NEW r \in job[v], r.id = s.id PROVE FALSE
      BY DEF Attending
    <3>1. r \in Hand(v) /\ v # w
      BY <1>2 DEF Hand
    <3>2. QED
      BY <1>2, <1>4, <3>1 DEF ExclusiveInv, HandsInv, HandsApart
  <2>3. QED
    BY <1>2, <2>1, <2>2 DEF DeliveryState, OpenAttempts
<1>5. OpenAttempts' = [OpenAttempts EXCEPT ![s.id] = @ \cup {listed'[w]}]
  <2>1. \A j \in Jobs : w \notin Attending(j)
    BY <1>2 DEF Attending
  <2>2. \A j \in Jobs : Attending(j)' = Attending(j) \cup (IF j = s.id THEN {w} ELSE {})
    BY <1>1, <2>1 DEF Attending, TypeOK
  <2>3. \A j \in Jobs : Attending(j) \subseteq Workers \ {w}
    BY <2>1 DEF Attending
  <2>4. \A j \in Jobs : {listed'[v] : v \in Attending(j)'} =
            {listed[v] : v \in Attending(j)} \cup (IF j = s.id THEN {listed'[w]} ELSE {})
    BY <1>1, <2>2, <2>3
  <2>5. QED
    BY <1>2, <2>4 DEF OpenAttempts
<1>6. DeliveryState' = DeliveryState
  BY <1>1 DEF DeliveryState
<1>7. QED
  BY <1>1, <1>3, <1>4, <1>5, <1>6 DEF Delivery!Open

LEMMA Calls ==
    ASSUME TypeOK, ClaimOutlivesBatch => ExclusiveInv,
           NEW w \in Workers, NEW s \in job[w], Send(w, s) \/ SendFails(w, s)
    PROVE  Delivery!Call(s.id, listed[w])
<1>1. /\ UNCHANGED <<outbox, job, listed>>
      /\ tries' = [tries EXCEPT ![s.id] = @ + 1]
  BY DEF Send, SendFails, rowVars
<1>2. s.id \in Jobs /\ s \in Hand(w)
  BY DEF TypeOK, PushJob, Hand
<1>3. listed[w] \in OpenAttempts[s.id]
  BY <1>2 DEF OpenAttempts, Attending
<1>4. ClaimOutlivesBatch => DeliveryState[s.id] = "pending"
  BY <1>2 DEF ExclusiveInv, HandsInv, HandsWait, DeliveryState
<1>5. \E sent \in SUBSET listed[w], no \in SUBSET listed[w] :
          /\ sent \cap no = {}
          /\ accepted' = [accepted EXCEPT ![s.id] =
                              [t \in Tokens |-> IF t \in sent THEN @[t] + 1 ELSE @[t]]]
          /\ refused' = [refused EXCEPT ![s.id] = @ \cup no]
  <2>1. CASE Send(w, s)
    <3>1. PICK status \in [listed[w] \ s.delivered -> Status] :
              /\ \E missed \in SUBSET With(w, s, status, "retryable_error") :
                     Deliver(s.id, With(w, s, status, "sent"), missed)
              /\ refused' = [refused EXCEPT ![s.id] = @ \cup With(w, s, status, "invalid_token")
                                                       \cup With(w, s, status, "permanent_error")]
      BY <2>1, HistoryOf
    <3> DEFINE with(k) == With(w, s, status, k)
               no == with("invalid_token") \cup with("permanent_error")
    <3>2. PICK missed \in SUBSET with("retryable_error") : Deliver(s.id, with("sent"), missed)
      BY <3>1
    <3> DEFINE sent == with("sent") \cup missed
    <3>3. sent \cap no = {} /\ sent \in SUBSET listed[w] /\ no \in SUBSET listed[w]
      BY DEF With
    <3>4. refused' = [refused EXCEPT ![s.id] = @ \cup no]
      <4>1. refused[s.id] \cup with("invalid_token") \cup with("permanent_error")
              = refused[s.id] \cup no
        OBVIOUS
      <4>2. QED
        BY <3>1, <4>1
    <3>5. accepted' = [accepted EXCEPT ![s.id] =
                           [t \in Tokens |-> IF t \in sent THEN @[t] + 1 ELSE @[t]]]
      BY <3>2 DEF Deliver
    <3> HIDE DEF sent, no
    <3>6. QED
      BY <3>3, <3>4, <3>5
  <2>2. CASE SendFails(w, s)
    <3>1. PICK missed \in SUBSET (listed[w] \ s.delivered) : Deliver(s.id, {}, missed)
      BY <2>2 DEF SendFails
    <3>2. accepted' = [accepted EXCEPT ![s.id] =
                           [t \in Tokens |-> IF t \in missed THEN @[t] + 1 ELSE @[t]]]
      BY <3>1 DEF Deliver
    <3>3. refused' = [refused EXCEPT ![s.id] = @ \cup {}]
      BY <2>2, <1>2 DEF SendFails, TypeOK
    <3>4. missed \in SUBSET listed[w] /\ {} \in SUBSET listed[w] /\ missed \cap {} = {}
      OBVIOUS
    <3>5. QED
      BY <3>2, <3>3, <3>4
  <2>3. QED
    BY <2>1, <2>2
<1>6. DeliveryState' = DeliveryState /\ OpenAttempts' = OpenAttempts
  BY <1>1 DEF DeliveryState, OpenAttempts, Attending
<1>7. QED
  BY <1>1, <1>3, <1>4, <1>5, <1>6 DEF Delivery!Call

LEMMA Settles ==
    ASSUME TypeOK, TypeOK', SettleInv,
           NEW w \in Workers, NEW s \in job[w], CompletePushJob(w, s)
    PROVE  \/ Delivery!Settle(s.id)
           \/ Delivery!LetGo /\ UNCHANGED <<DeliveryState, accepted, refused, tries>>
<1>1. Leave(w) /\ UNCHANGED <<accepted, refused, tries>>
  BY DEF CompletePushJob, histVars
<1>2. s \in PushJob /\ s.id \in Jobs /\ s \in Hand(w) /\ s.attempts \in Nat
  BY DEF TypeOK, PushJob, Hand
<1>3. Delivery!LetGo
  <2>1. \A v \in Workers : job'[v] = {} \/ (job'[v] = job[v] /\ listed'[v] = listed[v])
    BY <1>1 DEF Leave, TypeOK
  <2>2. QED
    BY <2>1, WorkersLetGo
<1>4. AttemptIsTrue(w, s) /\ outbox[s.id] # "absent"
  BY <1>2 DEF SettleInv, WorkerInv, SnapshotIsTrue
<1>5. CASE outbox' = outbox \/ outbox[s.id] = "gone"
  <2>1. outbox' = outbox
    BY <1>2, <1>5 DEF CompletePushJob, TypeOK
  <2>2. QED
    BY <1>1, <1>3, <2>1 DEF DeliveryState
<1>6. CASE outbox[s.id] # "gone" /\ outbox' = [outbox EXCEPT ![s.id] = "gone"]
  <2>1. DeliveryState[s.id] = "pending"
    BY <1>2, <1>4, <1>6 DEF DeliveryState
  <2>2. DeliveryState' = [DeliveryState EXCEPT ![s.id] = "settled"]
    BY <1>2, <1>6 DEF DeliveryState, TypeOK
  <2>3. listed[w] \in OpenAttempts[s.id]
    BY <1>2 DEF OpenAttempts, Attending
  <2>4. Delivery!Settled(s.id, listed[w])
    <3>1. CASE pc[w] = "complete"
      BY <1>2, <1>4, <3>1, CompleteIsServed DEF Delivery!Settled
    <3>2. CASE pc[w] = "finish" /\ s.attempts + 1 >= PushMaxAttempts
      <4>1. s.attempts + 1 <= tries[s.id] /\ tries[s.id] \in Nat /\ PushMaxAttempts \in Nat
        BY <1>2, <1>4, <3>2, MaxAttemptsAssumption DEF AttemptIsTrue, TypeOK
      <4>2. tries[s.id] >= PushMaxAttempts
        BY <1>2, <3>2, <4>1
      <4>3. QED
        BY <4>2 DEF Delivery!Settled
    <3>3. QED
      BY <3>1, <3>2 DEF CompletePushJob
  <2>5. QED
    BY <1>1, <1>3, <2>1, <2>2, <2>3, <2>4 DEF Delivery!Settle
<1>7. QED
  BY <1>5, <1>6 DEF CompletePushJob

LEMMA DeliveryStep ==
    ASSUME TypeOK, TypeOK', SettleInv, ClaimOutlivesBatch => ExclusiveInv, [Next]_vars
    PROVE  [Delivery!Next]_(Delivery!vars)
<1> USE DEF rowVars, deviceVars, workerVars, histVars
<1>1. ASSUME NEW j \in Jobs, CreatePushJobInTx(j) PROVE Delivery!Next
  <2>1. /\ DeliveryState[j] = "none" /\ DeliveryState' = [DeliveryState EXCEPT ![j] = "pending"]
        /\ OpenAttempts' = OpenAttempts
    <3>1. outbox[j] = "absent" /\ outbox' = [outbox EXCEPT ![j] = "due"] /\ UNCHANGED <<job, listed>>
      BY <1>1 DEF CreatePushJobInTx
    <3>2. DeliveryState[j] = "none" /\ DeliveryState' = [DeliveryState EXCEPT ![j] = "pending"]
      BY <3>1 DEF DeliveryState, TypeOK
    <3>3. OpenAttempts' = OpenAttempts
      BY <3>1 DEF OpenAttempts, Attending
    <3>4. QED
      BY <3>2, <3>3
  <2>2. Delivery!Submit(j)
    BY <1>1, <2>1 DEF CreatePushJobInTx, Delivery!Submit
  <2>3. QED
    BY <2>2 DEF Delivery!Next
<1>2. ASSUME NEW j \in Jobs, DueAgain(j) PROVE UNCHANGED Delivery!vars
  <2>1. /\ UNCHANGED <<job, listed, accepted, refused, tries>>
        /\ \A i \in Jobs : /\ outbox[i] = "absent" <=> outbox'[i] = "absent"
                           /\ outbox[i] = "gone" <=> outbox'[i] = "gone"
    BY <1>2 DEF DueAgain, TypeOK
  <2>2. QED
    BY <2>1, Invisible
<1>3. ASSUME NEW w \in Workers, ClaimDueJobs(w) PROVE UNCHANGED Delivery!vars
  <2>1. /\ UNCHANGED <<job, listed, accepted, refused, tries>>
        /\ \A i \in Jobs : /\ outbox[i] = "absent" <=> outbox'[i] = "absent"
                           /\ outbox[i] = "gone" <=> outbox'[i] = "gone"
    BY <1>3 DEF ClaimDueJobs, TypeOK
  <2>2. QED
    BY <2>1, Invisible
<1>4. ASSUME UNCHANGED <<outbox, job, listed, accepted, refused, tries>>
      PROVE  UNCHANGED Delivery!vars
  BY <1>4, Invisible
<1>5. ASSUME NEW w \in Workers, NEW s \in batch[w], ProcessJob(w, s) PROVE Delivery!Next
  <2>1. s.id \in Jobs /\ listed'[w] \in SUBSET Tokens
    BY DEF TypeOK, PushJob
  <2>2. QED
    BY <1>5, <2>1, OpensAttempt DEF Delivery!Next
<1>6. ASSUME NEW w \in Workers, NEW s \in job[w], Send(w, s) \/ SendFails(w, s) PROVE Delivery!Next
  <2>1. s.id \in Jobs /\ listed[w] \in SUBSET Tokens
    BY DEF TypeOK, PushJob
  <2>2. QED
    BY <1>6, <2>1, Calls DEF Delivery!Next
<1>7. ASSUME NEW w \in Workers, NEW s \in job[w], CompletePushJob(w, s) PROVE Delivery!Next
  <2>1. s.id \in Jobs
    BY DEF TypeOK, PushJob
  <2>2. QED
    BY <1>7, <2>1, Settles DEF Delivery!Next
<1>8. ASSUME NEW w \in Workers, NEW s \in job[w], ReschedulePushJob(w, s) PROVE Delivery!Next
  <2>1. s \in PushJob /\ s.id \in Jobs /\ s \in Hand(w)
    BY DEF TypeOK, PushJob, Hand
  <2>2. outbox[s.id] # "absent"
    BY <2>1 DEF SettleInv, WorkerInv, SnapshotIsTrue
  <2>3. DeliveryState' = DeliveryState
    BY <1>8, <2>1, <2>2 DEF ReschedulePushJob, DeliveryState, TypeOK
  <2>4. \A v \in Workers : job'[v] = {} \/ (job'[v] = job[v] /\ listed'[v] = listed[v])
    BY <1>8 DEF ReschedulePushJob, Leave, TypeOK
  <2>5. Delivery!LetGo
    BY <2>4, WorkersLetGo
  <2>6. QED
    BY <1>8, <2>3, <2>5 DEF ReschedulePushJob, Delivery!Next
<1>9. CASE Crash
  <2>1. DeliveryState' = DeliveryState
    BY <1>9 DEF Crash, DeliveryState
  <2>2. \A v \in Workers : job'[v] = {} \/ (job'[v] = job[v] /\ listed'[v] = listed[v])
    BY <1>9 DEF Crash
  <2>3. Delivery!LetGo
    BY <2>2, WorkersLetGo
  <2>4. QED
    BY <1>9, <2>1, <2>3 DEF Crash, Delivery!Next
<1>10. CASE \/ \E u \in Users, t \in Tokens : UpsertPushDevice(u, t) \/ DeletePushDevice(u, t)
            \/ \E w \in Workers : \/ \E s \in batch[w] : ListFails(w, s)
                                  \/ \E s \in job[w] : MergeDeliveredTokens(w, s)
                                  \/ DisableInvalidTokens(w)
            \/ UNCHANGED vars
  <2>1. UNCHANGED <<outbox, job, listed, accepted, refused, tries>>
    BY <1>10 DEF UpsertPushDevice, DeletePushDevice, ListFails, MergeDeliveredTokens,
                 DisableInvalidTokens, vars
  <2>2. QED
    BY <1>4, <2>1
<1>11. QED
  BY <1>1, <1>2, <1>3, <1>5, <1>6, <1>7, <1>8, <1>9, <1>10 DEF Next, WorkerStep

\* The outbox and its workers implement at-least-once delivery, and exclusive
\* attempts when the claim outlives the batch it covers.
THEOREM OutboxDelivers == Spec => ImplementsDelivery
<1>1. Init => Delivery!Init
  BY DEF Init, Delivery!Init, DeliveryState, OpenAttempts, Attending
<1>2. TypeOK /\ TypeOK' /\ SettleInv /\ (ClaimOutlivesBatch => ExclusiveInv) /\ [Next]_vars
        => [Delivery!Next]_(Delivery!vars)
  BY DeliveryStep
<1>3. Spec => [](ClaimOutlivesBatch => ExclusiveInv)
  <2>1. CASE ClaimOutlivesBatch
    <3>1. ExclusiveInv => (ClaimOutlivesBatch => ExclusiveInv)
      OBVIOUS
    <3>2. Spec => []ExclusiveInv
      BY <2>1, ExclusiveAlways
    <3>3. QED
      BY <3>1, <3>2, PTL
  <2>2. CASE ~ClaimOutlivesBatch
    <3>1. ClaimOutlivesBatch => ExclusiveInv
      BY <2>2
    <3>2. QED
      BY <3>1, PTL
  <2>3. QED
    BY <2>1, <2>2
<1>4. QED
  BY <1>1, <1>2, <1>3, TypeCorrect, SettleAlways, PTL DEF Spec, ImplementsDelivery, Delivery!Spec
=============================================================================
