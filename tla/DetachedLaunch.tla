------------------------------ MODULE DetachedLaunch ------------------------------
(***************************************************************************)
(* One launch of an application: the worker of the launcher controller     *)
(* makes the plan and forks a broker; the broker makes a session, forks    *)
(* the detached child and reports; the child sets itself up and executes   *)
(* the application.  The worker learns of it by two pipes, a deadline and  *)
(* waitpid, and kills what it started when it gives up.                    *)
(*                                                                         *)
(* Every system call that others can observe is a step of its own.  The    *)
(* deadline may pass, and other programs may kill the broker or the child, *)
(* between any two steps.  An application stays in its session.            *)
(***************************************************************************)
EXTENDS LaunchPlans

CONSTANTS
    Entries, Contexts, Programs,   \* what may be launched, and where
    FileLocation,                  \* the desktop entry's own path
    MaxKills                       \* bound on kills by others

(* The types of what a launch is made of.                                  *)
ASSUME LaunchAssumption ==
    /\ {MaxArguments, MaxEnvironment, MaxEnvelope} \subseteq Nat
    /\ \A e \in Entries : e.exec = Absent \/ e.exec[1] \in Seq([quoted : BOOLEAN, parts : Seq(STRING)])
    /\ \A c \in Contexts :
           /\ c.environment \in Seq([name : STRING, value : Seq(STRING)])
           /\ c.terminal = Absent \/ c.terminal[1].arguments \in Seq(Seq(STRING))

VARIABLES
    launch,          \* what is launched, its plan and the check of it
    worker,          \* where launchDetachedApplication is, and the error of its
                     \* result, "none" as long as there is none
    broker, child,   \* the two processes
    resultPipe,      \* the record of the broker
    errorPipe,       \* the record of the child
    expired,         \* has the deadline passed?
    cancelled,       \* CancellationToken
    autoReap,        \* is SIGCHLD ignored by this process?
    kills,
    missed           \* history: the session was killed before it was made
processVars == <<broker, child, resultPipe, errorPipe>>
outsideVars == <<launch, autoReap>>
vars == <<launch, worker, broker, child, resultPipe, errorPipe,
          expired, cancelled, autoReap, kills, missed>>

NoRecord == "none"
BrokerStages == {"started", "session", "forked", "reported"}
BrokerRuns == broker.at \in BrokerStages
ChildStages == {"started", "setup", "ready", "executed"}
ChildRuns  == child \in ChildStages
HasGroup == broker.at \in {"session", "forked", "reported"} \/ ChildRuns

Done == worker.at = "done"
Fail(error) == worker' = [worker EXCEPT !.at = "done", !.result = error]
GoTo(phase) == worker' = [worker EXCEPT !.at = phase]
GiveUp(error) == worker' = [worker EXCEPT !.at = "killGroup", !.result = error]

-----------------------------------------------------------------------------
(* The worker.                                                             *)

(* What only depends on the entry and the context is worked out once.      *)
LaunchOf(e, c) ==
    LET argv == ExpandDesktopExec(e, FileLocation)
        plan == IF Ok(argv) THEN MakeProcessLaunchPlan(e, argv.value, c, Programs) ELSE argv
    IN  [entry |-> e, context |-> c, argv |-> argv, plan |-> plan,
         accepted |-> Ok(plan) /\ ValidPlan(plan.value)]

(* DefaultLaunchBackend::launch: Exec is expanded before the first look at *)
(* the cancellation, the plan is made after it.                            *)
PrepareInvocation ==
    /\ worker.at = "plan"
    /\ \/ ~Ok(launch.argv) /\ Fail(launch.argv.error)
       \/ Ok(launch.argv) /\ cancelled /\ Fail("cancelled")
       \/ Ok(launch.argv) /\ ~cancelled /\ ~Ok(launch.plan) /\ Fail(launch.plan.error)
       \/ Ok(launch.plan) /\ ~cancelled /\ GoTo("prepare")
    /\ UNCHANGED <<processVars, outsideVars, expired, cancelled, kills, missed>>

(* The plan is checked again, and the pipes made.                          *)
PrepareLaunch ==
    /\ worker.at = "prepare"
    /\ \/ ~launch.accepted /\ Fail("invalid_argument")
       \/ launch.accepted /\ \E error \in {"unsupported", "io_error"} : Fail(error)
       \/ launch.accepted /\ cancelled /\ Fail("cancelled")
       \/ launch.accepted /\ ~cancelled /\ GoTo("fork")
    /\ UNCHANGED <<processVars, outsideVars, expired, cancelled, kills, missed>>

ForkBroker ==
    /\ worker.at = "fork"
    /\ \/ Fail("io_error") /\ UNCHANGED broker
       \/ GoTo("awaitBroker") /\ broker' = [broker EXCEPT !.at = "started"]
    /\ UNCHANGED <<child, resultPipe, errorPipe, outsideVars, expired, cancelled, kills, missed>>

(* A pipe is at its end when nobody holds its other end any more.  The     *)
(* child holds the result pipe until it starts its set-up.                 *)
ResultPipeEnds == resultPipe = NoRecord /\ ~BrokerRuns /\ child # "started"
ErrorPipeEnds ==
    /\ errorPipe = NoRecord
    /\ broker.at \notin {"started", "session", "forked"} /\ child \notin {"started", "setup", "ready"}

ReadBrokerRecord ==
    /\ worker.at = "awaitBroker"
    /\ \/ expired /\ GiveUp("io_error")
       \/ ~expired /\ ResultPipeEnds /\ GiveUp("io_error")
       \/ ~expired /\ resultPipe = "brokerReady" /\ GoTo("awaitExec")
       \/ /\ ~expired /\ resultPipe \in {"createSession", "secondFork"}
          /\ worker' = [worker EXCEPT !.at = "reap", !.result = "io_error"]
    /\ UNCHANGED <<processVars, outsideVars, expired, cancelled, kills, missed>>

(* No record at the end of the pipe is success.                            *)
ReadExecOutcome ==
    /\ worker.at = "awaitExec"
    /\ \/ expired /\ GiveUp("io_error")
       \/ /\ ~expired /\ ErrorPipeEnds
          /\ GoTo("reap")
       \/ /\ ~expired /\ errorPipe # NoRecord
          /\ worker' = [worker EXCEPT !.at = "reap", !.result = errorPipe]
    /\ UNCHANGED <<processVars, outsideVars, expired, cancelled, kills, missed>>

(* Mutant: the broker is waited for as long as it takes.                   *)
ReapIsLateNever == FALSE

ReapIsLate == expired /\ BrokerRuns

ReapBroker ==
    /\ worker.at = "reap"
    /\ \/ broker.at = "exited" /\ GoTo("done") /\ broker' = [broker EXCEPT !.at = "reaped"]
       \/ broker.at = "killed" /\ GiveUp("io_error") /\ broker' = [broker EXCEPT !.at = "reaped"]
       \/ broker.at = "reaped" /\ GoTo("done") /\ UNCHANGED broker
       \/ ReapIsLate /\ GiveUp("io_error") /\ UNCHANGED broker
    /\ UNCHANGED <<child, resultPipe, errorPipe, outsideVars, expired, cancelled, kills, missed>>

(* The dead are collected at once when SIGCHLD is ignored.                 *)
Ended(how) == IF autoReap THEN "reaped" ELSE how
KilledBroker == IF BrokerRuns THEN [broker EXCEPT !.at = Ended("killed")] ELSE broker
KilledChild == IF ChildRuns THEN "killedByWorker" ELSE child

(* Mutant: only the broker is killed.                                      *)
KillBrokerAlone == worker.at = "killGroup" /\ GoTo("killBroker") /\ UNCHANGED <<broker, child, missed>>

(* kill(-broker) reaches nobody before the broker has made its session.    *)
SignalSession ==
    /\ worker.at = "killGroup" /\ GoTo("killBroker")
    /\ missed' = (broker.at = "started")
    /\ IF HasGroup THEN broker' = KilledBroker /\ child' = KilledChild
       ELSE UNCHANGED <<broker, child>>
KillSession ==
    SignalSession
    /\ UNCHANGED <<resultPipe, errorPipe, outsideVars, expired, cancelled, kills>>

KillBroker ==
    /\ worker.at = "killBroker" /\ GoTo("waitBroker")
    /\ broker' = KilledBroker
    /\ UNCHANGED <<child, resultPipe, errorPipe, outsideVars, expired, cancelled, kills, missed>>

Collected == IF broker.at \in {"exited", "killed"} THEN [broker EXCEPT !.at = "reaped"] ELSE broker

WaitBroker ==
    /\ worker.at = "waitBroker" /\ ~BrokerRuns
    /\ GoTo("done") /\ broker' = Collected
    /\ UNCHANGED <<child, resultPipe, errorPipe, outsideVars, expired, cancelled, kills, missed>>

WorkerStep ==
    \/ PrepareInvocation \/ PrepareLaunch \/ ForkBroker \/ ReadBrokerRecord \/ ReadExecOutcome
    \/ ReapBroker \/ KillSession \/ KillBroker \/ WaitBroker

-----------------------------------------------------------------------------
(* The broker.  A record nobody reads any more kills who writes it.        *)

EndOfBroker == broker' = [broker EXCEPT !.at = Ended("exited")]
Unread == worker.at \notin {"awaitBroker"}

BrokerFails(stage, record) ==
    /\ broker.at = stage
    /\ \/ EndOfBroker /\ resultPipe' = record
       \/ Unread /\ broker' = [broker EXCEPT !.at = Ended("killed")] /\ UNCHANGED resultPipe
    /\ UNCHANGED child

MakeSession ==
    \/ BrokerFails("started", "createSession")
    \/ /\ broker.at = "started" /\ broker' = [broker EXCEPT !.at = "session"]
       /\ UNCHANGED <<resultPipe, child>>

ForkChild ==
    \/ BrokerFails("session", "secondFork")
    \/ /\ broker.at = "session" /\ broker' = [broker EXCEPT !.at = "forked"] /\ child' = "started"
       /\ UNCHANGED resultPipe

ReportReady ==
    /\ broker.at = "forked" /\ UNCHANGED child
    /\ \/ broker' = [broker EXCEPT !.at = "reported"] /\ resultPipe' = "brokerReady"
       \/ Unread /\ broker' = [broker EXCEPT !.at = Ended("killed")] /\ UNCHANGED resultPipe

BrokerExits ==
    broker.at = "reported" /\ EndOfBroker /\ UNCHANGED <<resultPipe, child>>

BrokerStep ==
    /\ MakeSession \/ ForkChild \/ ReportReady \/ BrokerExits
    /\ UNCHANGED <<outsideVars, worker, errorPipe, expired, cancelled, kills, missed>>

-----------------------------------------------------------------------------
(* The detached child.                                                     *)

CloseResultPipe == child = "started" /\ child' = "setup" /\ UNCHANGED errorPipe

(* Mutant: a child that fails leaves no record.                            *)
FailQuietly(error) == child' = "failed" /\ UNCHANGED errorPipe

WriteRecordAndExit(error) == child' = "failed" /\ errorPipe' = error

(* Signals, working directory, and standard input and output.              *)
SetUp ==
    /\ child = "setup"
    /\ \/ child' = "ready" /\ UNCHANGED errorPipe
       \/ \E error \in {"not_found", "io_error"} : WriteRecordAndExit(error)

Execute ==
    /\ child = "ready"
    /\ \/ child' = "executed" /\ UNCHANGED errorPipe
       \/ \E error \in {"not_found", "permission_denied", "too_large"} : WriteRecordAndExit(error)

ApplicationEnds == child = "executed" /\ child' = "ended" /\ UNCHANGED errorPipe

ChildStep ==
    /\ CloseResultPipe \/ SetUp \/ Execute \/ ApplicationEnds
    /\ UNCHANGED <<outsideVars, worker, broker, resultPipe, expired, cancelled, kills, missed>>

-----------------------------------------------------------------------------
(* Everything else.                                                        *)

DeadlinePasses ==
    /\ worker.at \in {"awaitBroker", "awaitExec", "reap"} /\ ~expired /\ expired' = TRUE
    /\ UNCHANGED <<processVars, outsideVars, worker, cancelled, kills, missed>>

RequestCancellation ==
    /\ ~cancelled /\ ~Done /\ cancelled' = TRUE
    /\ UNCHANGED <<processVars, outsideVars, worker, expired, kills, missed>>

OthersKill ==
    /\ kills < MaxKills /\ kills' = kills + 1
    /\ \/ BrokerRuns /\ broker' = [broker EXCEPT !.at = Ended("killed")] /\ UNCHANGED child
       \/ ChildRuns /\ child' = "killed" /\ UNCHANGED broker
    /\ UNCHANGED <<outsideVars, worker, resultPipe, errorPipe, expired, cancelled, missed>>

Init ==
    /\ launch \in {LaunchOf(e, c) : e \in Entries, c \in Contexts} /\ autoReap \in BOOLEAN
    /\ worker = [at |-> "plan", result |-> "none"]
    /\ broker = [at |-> "none"] /\ child = "none"
    /\ resultPipe = NoRecord /\ errorPipe = NoRecord
    /\ expired = FALSE /\ cancelled = FALSE /\ kills = 0 /\ missed = FALSE

Next ==
    \/ WorkerStep \/ BrokerStep \/ ChildStep
    \/ DeadlinePasses \/ RequestCancellation \/ OthersKill

Spec == Init /\ [][Next]_vars
(* The worker runs and its clock advances; nothing is asked of the others. *)
FairSpec == Spec /\ WF_vars(WorkerStep) /\ WF_vars(DeadlinePasses)

-----------------------------------------------------------------------------
(* A plan that was made is accepted by the process boundary, which checks  *)
(* it by rules of its own (ProcessLaunch.cpp:248, DetachedApplication.cpp:93). *)
PlansAreAccepted == Ok(launch.plan) => launch.accepted

Succeeded == Done /\ worker.result = "none"
GaveUp == Done /\ worker.result # "none"

(* After a launch that failed, neither broker nor child nor application    *)
(* is left running; unless the session was signalled before it was made    *)
(* (DetachedApplication.cpp:448-457).                                      *)
SessionIsKilled == GaveUp /\ ~missed => ~BrokerRuns /\ ~ChildRuns

(* No zombie is left, whichever way the launch ends                        *)
(* (DetachedApplication.cpp:457).                                          *)
BrokerIsReaped == Done => broker.at \in {"none", "reaped"}

(* A launch leaves nothing behind that nobody waits for.                   *)
NothingIsLeftBehind == SessionIsKilled /\ BrokerIsReaped

(* A launch that succeeded was executed, or killed by others on the way:   *)
(* never one that reported an error (DetachedApplication.cpp:408).         *)
SuccessMeansExecuted == Succeeded => child \in {"executed", "ended", "killed"}

(* The worker is free again in the end, whatever the processes do          *)
(* (DetachedApplication.cpp:298).                                          *)
LaunchEnds == <>Done
=============================================================================
