------------------------------ MODULE MCWorkers ------------------------------
(***************************************************************************)
(* The loops that work off what others left: the moderation of images (the *)
(* module extended), and instances of the push outbox when a batch may     *)
(* outlive its reservation, of the collector of the media store, of the    *)
(* loop that keeps papo-push running, and of the audio slots of a call. A  *)
(* behaviour is of one part, chosen at the start; the variables of the     *)
(* others keep one value.                                                  *)
(***************************************************************************)
EXTENDS Moderation

CONSTANTS
    Hashes, Uploads, HashOf, Streamed, MaxStops,    \* of MediaStore
    Procs, FCMRelayRestartMax, MaxBoots,            \* of Supervisor
    j1, t1, w1, w2, u1, m1, m2, h1, k1, k2

\* An attachment in each message.
MCMessageOf == [i \in Attachments |-> IF i = 1 THEN m1 ELSE m2]
\* All requests publish one content.
MCHashOf == [i \in Uploads |-> h1]

VARIABLE part     \* the part this behaviour is of

VARIABLES outbox, pushAttempts, delivered, owner, enabled, pushPc, batch, pushJob,
    listed, res, accepted, unheard, refused, tries, pushFaults
pushVars == <<outbox, pushAttempts, delivered, owner, enabled, pushPc, batch,
    pushJob, listed, res, accepted, unheard, refused, tries, pushFaults>>
Push == INSTANCE PushOutbox WITH
    Jobs <- {j1}, Users <- {u1}, Tokens <- {t1}, Workers <- {w1, w2},
    Recipient <- [j \in {j1} |-> u1], BadPayload <- {}, PushBatchSize <- 1,
    PushMaxAttempts <- 2, ClaimOutlivesBatch <- FALSE, MaxFaults <- 1, MaxUnheard <- 0,
    attempts <- pushAttempts, pc <- pushPc, job <- pushJob, faults <- pushFaults

VARIABLES file, blobRow, refs, up, gc, list, cur, exists, stops, reused
blobVars == <<file, blobRow, refs, up, gc, list, cur, exists, stops, reused>>
Media == INSTANCE MediaStore WITH row <- blobRow

VARIABLES main, boots, stopCh, relaySup, restarts, cmd, lasted, proc, signalled, port,
    orphans, starts
relayVars == <<main, boots, stopCh, relaySup, restarts, cmd, lasted, proc, signalled,
    port, orphans, starts>>
Relay == INSTANCE Supervisor WITH sup <- relaySup

VARIABLES room, closed, active, remote, flowing, fanouts, alive, ready,
    slots, pending, asked, audioJobs, events
audioVars == <<room, closed, active, remote, flowing, fanouts, alive, ready,
    slots, pending, asked, audioJobs, events>>
Audio == INSTANCE Sfu WITH
    Peers <- {k1, k2}, Publishers <- {k1}, Ready <- {k1, k2}, Kinds <- {"audio"},
    SlotCount <- 1, MaxTracks <- 2, MaxEvents <- 3, jobs <- audioJobs

ASSUME WorkersAssumption == Media!Assumptions /\ Relay!Assumptions /\ Audio!Assumptions

workersVars == <<part, vars, pushVars, blobVars, relayVars, audioVars>>

\* The audio slots in the other parts: nobody is in the room.
AudioFrozen ==
    /\ room = {} /\ closed = {k1, k2} /\ active = None /\ remote = None
    /\ flowing = None /\ fanouts = None /\ alive = None /\ ready = None
    /\ slots = None /\ pending = None /\ asked = None /\ audioJobs = None
    /\ events = None

WorkersInit ==
    /\ part \in {"moderation", "push", "media", "relay", "audio"}
    /\ Init
    /\ Push!Init
    /\ Media!Init
    /\ Relay!Init
    /\ IF part = "audio" THEN Audio!Init ELSE AudioFrozen

WorkersNext ==
    \/ /\ part = "moderation" /\ Next
       /\ UNCHANGED <<part, pushVars, blobVars, relayVars, audioVars>>
    \/ /\ part = "push" /\ Push!Next
       /\ UNCHANGED <<part, vars, blobVars, relayVars, audioVars>>
    \/ /\ part = "media" /\ Media!Next
       /\ UNCHANGED <<part, vars, pushVars, relayVars, audioVars>>
    \/ /\ part = "relay" /\ Relay!Next
       /\ UNCHANGED <<part, vars, pushVars, blobVars, audioVars>>
    \/ /\ part = "audio" /\ Audio!Next
       /\ UNCHANGED <<part, vars, pushVars, blobVars, relayVars>>

\* Loops run on, tickers and timers fire, time passes; a process that was killed
\* ends.  Each conjunct is one of the fairness of the part's module.
WorkersSpec ==
    /\ WorkersInit /\ [][WorkersNext]_workersVars
    /\ \A w \in {w1, w2} : WF_pushVars(part = "push" /\ Push!WorkerStep(w))
    /\ WF_pushVars(part = "push" /\ Push!DueAgain(j1))
    /\ WF_vars(part = "moderation" /\ Reconciler)
    /\ WF_vars(part = "moderation" /\ Process)
    /\ WF_vars(part = "moderation" /\ Supervise)
    /\ \A i \in Attachments : WF_vars(part = "moderation" /\ GoesStale(i))
    /\ WF_blobVars(part = "media" /\ Media!CleanupMedia)
    /\ \A h \in Hashes : WF_blobVars(part = "media" /\ Media!Age(h))
    /\ WF_relayVars(part = "relay" /\ Relay!Run)
    /\ \A i \in Procs : WF_relayVars(part = "relay" /\ proc[i] = "killed" /\ Relay!Exit(i))
    /\ WF_audioVars(part = "audio" /\ (Audio!Tick \/ Audio!TickDone))
    /\ \A t \in {<<"leave", k1>>, <<"leave", k2>>, <<"tick", None>>} :
          WF_audioVars(part = "audio" /\ Audio!SyncStep(t))

-----------------------------------------------------------------------------
\* Where a claim may end while its batch is still under way, two workers hold one
\* row: even so it leaves only when every device one of them listed was served or
\* refused for good, or its attempts were really made. And it does leave, whatever
\* the provider answers. (A push the worker never hears of is a failed call to it:
\* PushOutbox.cfg has it, here it would only repeat states.)
PushJobsLeave ==
    /\ [](part = "push" => Push!TypeOK)
    /\ [][part = "push" => Push!OnlySettledStep]_workersVars
    /\ part = "push" => Push!EveryJobLeaves

\* The blob of a referenced row can be missing only if the same content had
\* been uploaded more than an hour before and was published again: the grace
\* period protects uploads (mediaGracePeriod, disk before database). And when
\* the last request for a content is through and nothing refers to it, both its
\* row and its blob go, whatever run was cut short and whichever of the two was
\* left behind.
OnlyGarbageGoes ==
    /\ [](part = "media" => Media!TypeOK /\ Media!FirstUploadsSurvive)
    /\ part = "media" => Media!GarbageGoes

\* However start-ups fail, processes outlast their grace periods and backends
\* crash and boot over the papo-push of those before: a backend has one of its
\* own at most, and one that keeps dying within a minute is started
\* FCM_RELAY_RESTART_MAX times at most.
ProcessesAreBounded == part = "relay" => Relay!ProcessesAreBounded

\* A papo-push that will not start, will not answer or will not end does not
\* hold the supervisor for ever: it has a healthy one again, gives up after
\* FCM_RELAY_RESTART_MAX starts that failed within a minute, or the backend
\* ends.
RelaySettles == part = "relay" => Relay!SupervisorSettles

\* The audio slots of a peer that left the room are freed in every subscriber,
\* although a tick may bind them again from a snapshot taken before.
AudioForgetsLeavers == part = "audio" => Audio!AudioForgetsLeavers
=============================================================================
