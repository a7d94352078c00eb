------------------------------ MODULE Supervisor ------------------------------
(***************************************************************************)
(* The backend process as the keeper of papo-push: main's orderly shutdown, *)
(* the goroutine that serves HTTP, the supervision loop of push.Manager and  *)
(* the papo-push processes, which live in process groups of their own and   *)
(* so outlive a backend that does not end them.                             *)
(*                                                                         *)
(* Times are choices: a start-up may pass or miss healthTimeout, a process  *)
(* that was told to end may outlast terminateGrace, and MinutePasses says   *)
(* that a run has passed stableRunThreshold.  Process identifiers are used  *)
(* again once their process is gone.                                        *)
(***************************************************************************)
EXTENDS Naturals, FiniteSets

CONSTANTS
    Procs,              \* identifiers of papo-push processes
    FCMRelayRestartMax,
    MaxBoots,           \* bound: times the backend is started
    None

Assumptions == FCMRelayRestartMax \in Nat \ {0} /\ MaxBoots \in Nat \ {0} /\ None \notin Procs

VARIABLES
    main,       \* where main() stands
    boots,
    stopCh,     \* is stopCh closed?
    sup,        \* where Manager.Run stands
    restarts,
    cmd,        \* the process Run started last, None when it has none
    lasted,     \* has that run passed stableRunThreshold?
    proc,       \* each process
    signalled,  \* processes that were sent SIGTERM
    port,       \* the process that listens on PUSH_HEALTH_PORT
    orphans,    \* processes of a backend that is gone
    starts      \* history: processes started since a run last passed the threshold

mainVars == <<main, boots>>
procVars == <<proc, signalled, port, orphans>>
vars == <<mainVars, stopCh, sup, restarts, cmd, lasted, procVars, starts>>

Alive == {p \in Procs : proc[p] # "gone"}
Ended == {"exited", "crashed"}

TypeOK ==
    /\ main \in {"serving", "closing", "push", "hub"} \cup Ended /\ boots \in 1 .. MaxBoots
    /\ stopCh \in BOOLEAN /\ lasted \in BOOLEAN
    /\ sup \in {"loop", "wait", "watch", "term", "grace", "reap", "end", "endgrace",
                "backoff", "gaveup", "off"}
    /\ restarts \in 0 .. FCMRelayRestartMax /\ cmd \in Procs \cup {None}
    /\ proc \in [Procs -> {"gone", "starting", "serving", "killed"}]
    /\ signalled \subseteq Alive /\ orphans \subseteq Alive /\ port \in Alive \cup {None}
    /\ starts \in Nat

Init ==
    /\ main = "serving" /\ boots = 1 /\ stopCh = FALSE
    /\ sup = "loop" /\ restarts = 0 /\ cmd = None /\ lasted = FALSE /\ starts = 0
    /\ proc = [p \in Procs |-> "gone"] /\ signalled = {} /\ port = None /\ orphans = {}

-----------------------------------------------------------------------------
(***************************************************************************)
(* A papo-push process.  It goes on without its health endpoint when the    *)
(* port is taken; nothing but the end of the process is noticed once it was *)
(* found healthy.                                                           *)
(***************************************************************************)
Listen(p) ==
    /\ proc[p] = "starting"
    /\ proc' = [proc EXCEPT ![p] = "serving"]
    /\ port' = IF port = None THEN p ELSE port
    /\ UNCHANGED <<mainVars, stopCh, sup, restarts, cmd, lasted, signalled, orphans, starts>>

Exit(p) ==
    /\ p \in Alive
    /\ proc' = [proc EXCEPT ![p] = "gone"]
    /\ port' = IF port = p THEN None ELSE port
    /\ signalled' = signalled \ {p} /\ orphans' = orphans \ {p}
    /\ UNCHANGED <<mainVars, stopCh, sup, restarts, cmd, lasted, starts>>

MinutePasses ==
    /\ sup = "watch" /\ cmd \in Alive /\ ~lasted
    /\ lasted' = TRUE /\ starts' = 0
    /\ UNCHANGED <<mainVars, stopCh, sup, restarts, cmd, procVars>>

-----------------------------------------------------------------------------
(***************************************************************************)
(* Manager.Run.                                                            *)
(***************************************************************************)
Go(from, to) == sup = from /\ sup' = to

Stopped(from) ==
    /\ stopCh /\ Go(from, "off")
    /\ UNCHANGED <<mainVars, stopCh, restarts, cmd, lasted, procVars, starts>>

GiveUp ==
    /\ ~stopCh /\ restarts >= FCMRelayRestartMax /\ Go("loop", "gaveup")
    /\ UNCHANGED <<mainVars, stopCh, restarts, cmd, lasted, procVars, starts>>

MayStart == ~stopCh /\ restarts < FCMRelayRestartMax

StartProcess(p) ==
    /\ MayStart /\ Go("loop", "wait") /\ p \notin Alive
    /\ cmd' = p /\ lasted' = FALSE /\ starts' = starts + 1
    /\ proc' = [proc EXCEPT ![p] = "starting"]
    /\ UNCHANGED <<mainVars, stopCh, restarts, signalled, port, orphans>>

StartFails ==
    /\ MayStart /\ Go("loop", "backoff")
    /\ restarts' = restarts + 1
    /\ UNCHANGED <<mainVars, stopCh, cmd, lasted, procVars, starts>>

\* healthz answers 200, whichever process it belongs to.
Healthy ==
    /\ port # None /\ Go("wait", "watch")
    /\ UNCHANGED <<mainVars, stopCh, restarts, cmd, lasted, procVars, starts>>

\* Variant: healthTimeout is missing.
NotHealthyOnExit ==
    /\ (stopCh \/ cmd \notin Alive) /\ Go("wait", "term")
    /\ UNCHANGED <<mainVars, stopCh, restarts, cmd, lasted, procVars, starts>>

\* The process exits, stopCh is closed, or healthTimeout ends.
NotHealthy ==
    /\ Go("wait", "term")
    /\ UNCHANGED <<mainVars, stopCh, restarts, cmd, lasted, procVars, starts>>

StopWhileReady ==
    /\ stopCh /\ Go("watch", "end")
    /\ UNCHANGED <<mainVars, stopCh, restarts, cmd, lasted, procVars, starts>>

\* terminate: SIGTERM, terminateGrace, SIGKILL.
Terminate(from, to) ==
    /\ Go(from, to)
    /\ signalled' = signalled \cup ({cmd} \cap Alive)
    /\ UNCHANGED <<mainVars, stopCh, restarts, cmd, lasted, proc, port, orphans, starts>>

Kill(from, to) ==
    /\ Go(from, to)
    /\ proc' = [proc EXCEPT ![cmd] = IF cmd \in Alive THEN "killed" ELSE "gone"]
    /\ UNCHANGED <<mainVars, stopCh, restarts, lasted, signalled, port, orphans, starts>>
    /\ cmd' = IF to = "off" THEN None ELSE cmd

\* Variant: the exit of the process is not waited for.
RunEndsUnwaited ==
    /\ \/ sup = "watch" /\ cmd \notin Alive
       \/ sup = "reap"
    /\ sup' = "backoff" /\ cmd' = None
    /\ restarts' = IF lasted THEN 0 ELSE restarts + 1
    /\ UNCHANGED <<mainVars, stopCh, lasted, procVars, starts>>

\* The exit is seen while ready, or (exitErr) after a failed start-up.
RunEnds ==
    /\ sup \in {"watch", "reap"} /\ cmd \notin Alive
    /\ sup' = "backoff" /\ cmd' = None
    /\ restarts' = IF lasted THEN 0 ELSE restarts + 1
    /\ UNCHANGED <<mainVars, stopCh, lasted, procVars, starts>>

BackoffEnds ==
    /\ Go("backoff", "loop")
    /\ UNCHANGED <<mainVars, stopCh, restarts, cmd, lasted, procVars, starts>>

Run ==
    \/ Stopped("loop") \/ GiveUp \/ StartFails \/ \E p \in Procs : StartProcess(p)
    \/ Healthy \/ NotHealthy \/ Terminate("term", "grace") \/ Kill("grace", "reap")
    \/ StopWhileReady \/ Terminate("end", "endgrace") \/ Kill("endgrace", "off")
    \/ RunEnds \/ BackoffEnds \/ Stopped("backoff")

-----------------------------------------------------------------------------
(***************************************************************************)
(* main.                                                                   *)
(***************************************************************************)
Interrupt ==
    /\ main = "serving" /\ main' = "closing"
    /\ UNCHANGED <<boots, stopCh, sup, restarts, cmd, lasted, procVars, starts>>

ServerDrained ==
    /\ main = "closing" /\ main' = "push"
    /\ UNCHANGED <<boots, stopCh, sup, restarts, cmd, lasted, procVars, starts>>

PushShutdown ==
    /\ main = "push" /\ main' = "hub" /\ stopCh' = TRUE
    /\ UNCHANGED <<boots, sup, restarts, cmd, lasted, procVars, starts>>

\* The process ends and every goroutine with it; papo-push goes on.
EndAs(end) ==
    /\ main' = end /\ sup' = "off" /\ cmd' = None
    /\ orphans' = Alive
    /\ UNCHANGED <<boots, stopCh, restarts, lasted, proc, signalled, port, starts>>

MainReturns == main = "hub" /\ EndAs("exited")

\* e.Start returns http.ErrServerClosed as soon as e.Shutdown closed the listener, and
\* its goroutine calls Fatal; so does main when e.Shutdown runs out of time.
FatalOnClosedServer == main \in {"closing", "push", "hub"} /\ EndAs("exited")

Crash == main \notin Ended /\ EndAs("crashed")

Boot ==
    /\ main \in Ended /\ boots < MaxBoots
    /\ main' = "serving" /\ boots' = boots + 1 /\ stopCh' = FALSE
    /\ sup' = "loop" /\ restarts' = 0 /\ lasted' = FALSE /\ starts' = 0
    /\ UNCHANGED <<cmd, procVars>>

Main == Interrupt \/ ServerDrained \/ PushShutdown \/ MainReturns \/ FatalOnClosedServer \/ Crash \/ Boot

Next == Run \/ MinutePasses \/ Main \/ \E p \in Procs : Listen(p) \/ Exit(p)

Spec == Init /\ [][Next]_vars

-----------------------------------------------------------------------------
\* A backend has at most one papo-push of its own, also while a start-up that failed is
\* being ended.
OneChild == Cardinality(Alive \ orphans) <= 1

\* A papo-push that keeps dying within a minute is started FCM_RELAY_RESTART_MAX times.
StartsAreBounded == starts <= FCMRelayRestartMax

\* Neither a second one at a time nor starts without end.
ProcessesAreBounded == TypeOK /\ OneChild /\ StartsAreBounded

\* The supervisor does not get stuck on a papo-push that will not start, will not answer
\* or will not end: it has a healthy one again, gives up, or the backend ends.
SupervisorSettles == sup = "loop" ~> sup \in {"watch", "gaveup", "off"}

\* What a comment says and the model refutes: a backend that ends in order (an
\* interrupt, not a crash) has told its papo-push to end, `o papo-push recebe
\* SIGTERM' (cmd/main.go).
WorkerIsTold == main = "exited" => \A p \in orphans : p \in signalled
=============================================================================
