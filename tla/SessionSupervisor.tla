-------------------------- MODULE SessionSupervisor --------------------------
(***************************************************************************)
(* prismdrake-session (src/src/session/SessionSupervisor.cpp and the part  *)
(* of main.cpp around it): one thread that launches settingsd and then the *)
(* shell, waits for each to become ready, restarts them within the budget  *)
(* of RecoveryBudget, falls back once to safe mode, and stops both before  *)
(* it leaves.  The children, the signal handler and the operating system   *)
(* act between any two of its steps.                                       *)
(*                                                                         *)
(* run, startUntilStable, recover, handleExit, enterSafeMode and           *)
(* stopComponent are unrolled into one program counter: `ctx` is the call  *)
(* of startUntilStable that is active, `goal` what follows the stops in    *)
(* `queue`.  A deadline is a number of polling slices that a late wakeup   *)
(* may use up early.                                                       *)
(***************************************************************************)
EXTENDS RecoveryBudget, Sequences

CONSTANTS ReadinessAttempts,  \* bound: probes within a readiness timeout
          BackoffSlices,      \* bound: monitor intervals in one backoff
          StopSlices          \* bound: polls within a terminate or a kill grace

ASSUME SupervisorAssumption ==
    /\ Component = {"settingsd", "shell"}
    /\ ReadinessAttempts \in Nat /\ BackoffSlices \in Nat /\ StopSlices \in Nat

VARIABLES
    signal,       \* sessionShutdownRequested
    pc, ctx,      \* control, see above
    comp,         \* the component the current call is about
    patience,     \* slices left of the current bounded wait
    queue, goal,  \* components still to stop, and what to do then
    stopError,    \* firstError of the stops in progress
    child,        \* the owned process of a role; a zombie is its exit reason
    safeLaunch,   \* the last launch of the role was in safe mode
    launchKnown,  \* launchTime(component) has a value
    channel,      \* the shell's readiness descriptor and what was written to it
    serving,      \* settingsd answers on the session bus
    ready,        \* the session-ready marker
    safeMarker,   \* the safe-mode marker
    outcome       \* what run() returns, then the process exit status

control  == <<pc, ctx, comp, patience>>
stops    == <<queue, goal, stopError>>
children == <<child, safeLaunch, launchKnown, channel, serving>>
markers  == <<ready, safeMarker>>
vars     == <<signal, control, stops, children, markers, outcome, budgetVars>>

Zombie  == {"clean", "failure", "signal"}
Outcome == {"clean", "shutdown_requested", "failed"}
StartGoal == {"interrupted", "unsupervised", "timed_out", "contract", "broken"}

PC == {"init", "start", "launch", "await", "probe", "retry", "backoff",
       "stop", "grace", "kill", "reap", "stopped", "mark_safe", "mark_ready",
       "monitor", "watch", "cleanup", "done"}
Context == {"first_settings", "first_shell", "safe_settings", "safe_shell", "monitor"}

TypeOK ==
    /\ BudgetTypeOK
    /\ signal \in BOOLEAN
    /\ pc \in PC /\ ctx \in Context /\ comp \in Component
    /\ patience \in Nat
    /\ queue \in Seq(Component)
    /\ goal \in StartGoal \cup Outcome \cup {"none", "safe_mode"}
    /\ stopError \in BOOLEAN
    /\ child \in [Component -> Zombie \cup {"none", "running"}]
    /\ safeLaunch \in [Component -> BOOLEAN]
    /\ launchKnown \in [Component -> BOOLEAN]
    /\ channel \in {"closed", "silent", "ready", "malformed"}
    /\ serving \in BOOLEAN
    /\ ready \in BOOLEAN /\ safeMarker \in BOOLEAN
    /\ outcome \in Outcome \cup {"none"}

Init ==
    /\ BudgetInit
    /\ signal = FALSE
    /\ pc = "init" /\ ctx = "first_settings" /\ comp = "settingsd" /\ patience = 0
    /\ queue = <<>> /\ goal = "none" /\ stopError = FALSE
    /\ child = [c \in Component |-> "none"]
    /\ safeLaunch = [c \in Component |-> FALSE]
    /\ launchKnown = [c \in Component |-> FALSE]
    /\ channel = "closed" /\ serving = FALSE
    /\ ready = FALSE /\ safeMarker = FALSE
    /\ outcome = "none"

Owned(c) == child[c] # "none"

-----------------------------------------------------------------------------
(* Control transfers.                                                      *)

Goto(label) ==
    /\ pc' = label
    /\ UNCHANGED <<ctx, comp, stops>>

(* A call of startUntilStable(c).                                          *)
Start(c, caller) ==
    /\ pc' = "start" /\ ctx' = caller /\ comp' = c /\ patience' = 0
    /\ UNCHANGED stops

(* stopComponent for each role in q, then `next`.                          *)
StopThen(q, next) ==
    /\ pc' = "stop" /\ comp' = Head(q) /\ patience' = 0
    /\ queue' = Tail(q) /\ goal' = next /\ stopError' = FALSE
    /\ UNCHANGED ctx

(* shutdownAll, in this order; then run() returns o.                       *)
Finish(o) == StopThen(<<"shell", "settingsd">>, o)

Label(label) == Goto(label) /\ patience' = 0

(* startUntilStable (through handleExit for "monitor", and enterSafeMode   *)
(* for the safe contexts) returned Progress::running.                      *)
Proceed ==
    \/ ctx = "first_settings" /\ Start("shell", "first_shell")
    \/ ctx = "safe_settings" /\ Start("shell", "safe_shell")
    \/ ctx = "first_shell" /\ Label("mark_ready")
    \/ /\ ctx = "safe_shell"
       /\ Label(IF ready THEN "monitor" ELSE "mark_ready")  \* run's loop is under way iff ready
    \/ /\ ctx = "monitor"
       /\ pc' = IF comp = "shell" THEN "watch" ELSE "monitor"
       /\ comp' = "settingsd" /\ patience' = 0
       /\ UNCHANGED <<ctx, stops>>

(* Progress::clean_stop: run has no case for it after the first start of   *)
(* the shell and goes on to mark the session ready; enterSafeMode turns it *)
(* into a failure for the shell.                                           *)
CleanStop ==
    \/ ctx = "first_shell" /\ Label("mark_ready")
    \/ ctx = "safe_shell" /\ Finish("failed")
    \/ ctx \in {"first_settings", "safe_settings", "monitor"} /\ Finish("clean")

(* Mutant: only the exhausted component is stopped.                        *)
EnterSafeModeAlone == StopThen(<<comp>>, "safe_mode")

EnterSafeMode ==
    IF ctx \in {"safe_settings", "safe_shell"} THEN Finish("failed")
    ELSE StopThen(<<"shell", "settingsd">>, "safe_mode")

(* recover: the policy's decision on an exit of c, and what follows it.    *)
Recover(c, reason) ==
    \/ Observe(c, reason, "stop_clean") /\ CleanStop
    \/ Observe(c, reason, "enter_safe_mode") /\ EnterSafeMode
    \/ Observe(c, reason, "stop_failed") /\ Finish("failed")
    \/ /\ Observe(c, reason, "restart_component")
       /\ Goto("backoff") /\ patience' = BackoffSlices

(* poll: nothing to collect; an exit, which releases the child; or a       *)
(* waitpid error, which releases it only for ECHILD.                       *)
PollAlive(c) == child[c] = "running" /\ UNCHANGED <<child, channel>>
PollExit(c) ==
    /\ child[c] \in Zombie
    /\ child' = [child EXCEPT ![c] = "none"]
    /\ channel' = IF c = "shell" THEN "closed" ELSE channel
PollError(c) ==
    /\ Owned(c)
    /\ child' \in {child, [child EXCEPT ![c] = "none"]}
    /\ UNCHANGED channel

(* Mutant: every launch time is reset.                                     *)
ForgetLaunches(c) == launchKnown' = [d \in Component |-> FALSE]

ForgetLaunch(c) == launchKnown' = [launchKnown EXCEPT ![c] = FALSE]

-----------------------------------------------------------------------------
(* run: entry, and startUntilStable.                                       *)

Begin ==
    /\ pc = "init"
    /\ IF signal
       THEN /\ pc' = "cleanup" /\ outcome' = "shutdown_requested"
            /\ UNCHANGED <<ctx, comp, patience, stops>>
       ELSE Start("settingsd", "first_settings") /\ UNCHANGED outcome
    /\ UNCHANGED <<signal, children, markers, budgetVars>>

CheckSignal ==
    /\ pc = "start"
    /\ IF signal THEN Finish("shutdown_requested") ELSE Label("launch")
    /\ UNCHANGED <<signal, children, markers, outcome, budgetVars>>

(* The platform refuses a second launch over an owned child; otherwise the *)
(* exec handshake decides.                                                 *)
LaunchSucceeds ==
    /\ pc = "launch" /\ ~Owned(comp)
    /\ child' = [child EXCEPT ![comp] = "running"]
    /\ safeLaunch' = [safeLaunch EXCEPT ![comp] = safeActive]
    /\ launchKnown' = [launchKnown EXCEPT ![comp] = TRUE]
    /\ channel' = IF comp = "shell" THEN "silent" ELSE channel
    /\ patience' \in 0..ReadinessAttempts
    /\ Goto("await")
    /\ UNCHANGED <<signal, serving, markers, outcome, budgetVars>>

LaunchFails ==
    /\ pc = "launch"
    /\ ForgetLaunch(comp)
    /\ channel' = IF comp = "shell" /\ ~Owned(comp) THEN "closed" ELSE channel
    /\ Recover(comp, "failure")
    /\ UNCHANGED <<signal, child, safeLaunch, serving, markers, outcome>>

(* One turn of the readiness loop up to the probe.                         *)
AwaitInterrupted ==
    /\ pc = "await" /\ signal
    /\ StopThen(<<comp>>, "interrupted")
    /\ UNCHANGED <<signal, children, markers, outcome, budgetVars>>

AwaitPolls ==
    /\ pc = "await" /\ ~signal
    /\ \/ /\ PollError(comp)
          /\ StopThen(<<comp>>, "unsupervised")
          /\ UNCHANGED <<launchKnown, budgetVars>>
       \/ /\ PollExit(comp)
          /\ ForgetLaunch(comp)
          /\ Recover(comp, child[comp])
       \/ /\ PollAlive(comp)
          /\ IF patience = 0 THEN StopThen(<<comp>>, "timed_out")
             ELSE Goto("probe") /\ UNCHANGED patience
          /\ UNCHANGED <<launchKnown, budgetVars>>
    /\ UNCHANGED <<signal, safeLaunch, serving, markers, outcome>>

(* waitForSettingsReadiness and waitForShellReadiness; whatever the shell  *)
(* wrote, its descriptor is closed once it is read.                        *)
Answers(answer) ==
    \/ answer = "io_error"
    \/ answer = "not_found" /\ (comp = "shell" => channel = "silent")
    \/ answer = "ready" /\ (IF comp = "shell" THEN channel = "ready" ELSE serving)
    \/ answer = "contract" /\ (IF comp = "shell" THEN channel \in {"malformed", "closed"}
                               ELSE serving)

Probe ==
    /\ pc = "probe"
    /\ \E answer \in {"ready", "not_found", "contract", "io_error"} :
        /\ Answers(answer)
        /\ \/ answer = "ready" /\ Proceed
           \/ answer = "contract" /\ StopThen(<<comp>>, "contract")
           \/ answer = "io_error" /\ StopThen(<<comp>>, "broken")
           \/ /\ answer = "not_found"
              /\ patience' \in 0..(patience - 1)
              /\ Goto(IF comp = "settingsd" /\ patience' > 0 THEN "retry" ELSE "await")
        /\ channel' = IF comp = "shell" /\ answer # "not_found" THEN "closed" ELSE channel
    /\ UNCHANGED <<signal, child, safeLaunch, launchKnown, serving,
                   markers, outcome, budgetVars>>

RetryDelay ==
    /\ pc = "retry"
    /\ IF signal THEN StopThen(<<comp>>, "interrupted")
       ELSE Goto("await") /\ patience' \in 0..patience
    /\ UNCHANGED <<signal, children, markers, outcome, budgetVars>>

(* waitInterruptibly inside recover.                                       *)
Backoff ==
    /\ pc = "backoff"
    /\ \/ signal /\ Finish("shutdown_requested")
       \/ ~signal /\ patience > 0 /\ patience' = patience - 1 /\ Goto("backoff")
       \/ ~signal /\ patience = 0 /\ Start(comp, ctx)
    /\ UNCHANGED <<signal, children, markers, outcome, budgetVars>>

-----------------------------------------------------------------------------
(* stopComponent and what its callers do afterwards.                       *)

(* A child that is no longer owned needs no signal.                        *)
NothingToStop ==
    /\ pc = "stop" /\ ~Owned(comp)
    /\ ForgetLaunch(comp)
    /\ Label("stopped")
    /\ UNCHANGED <<signal, child, safeLaunch, channel, serving,
                   markers, outcome, budgetVars>>

RequestTerminate ==
    /\ pc = "stop" /\ Owned(comp)
    /\ pc' = "grace" /\ patience' \in 0..StopSlices
    /\ stopError' \in {stopError, TRUE}                 \* TRUE: kill(2) failed
    /\ UNCHANGED <<ctx, comp, queue, goal, signal, child, safeLaunch, launchKnown,
                   channel, serving, markers, outcome, budgetVars>>

(* Mutant: the grace loops wait for the child without a deadline.          *)
StopPollsForever(loop, exhausted) ==
    /\ pc = loop
    /\ \/ PollAlive(comp) /\ UNCHANGED <<pc, patience, launchKnown>>
       \/ PollExit(comp) /\ ForgetLaunch(comp) /\ pc' = "stopped" /\ patience' = 0
    /\ UNCHANGED <<ctx, comp, queue, goal, stopError, signal, safeLaunch,
                   serving, markers, outcome, budgetVars>>

(* The polling loops before and after SIGKILL.                             *)
StopPolls(loop, exhausted) ==
    /\ pc = loop
    /\ IF patience = 0
       THEN /\ pc' = exhausted
            /\ UNCHANGED <<child, channel, patience, stopError>>
       ELSE \/ /\ PollAlive(comp)
               /\ patience' \in 0..(patience - 1)
               /\ UNCHANGED <<pc, stopError>>
            \/ /\ PollExit(comp)
               /\ pc' = "stopped" /\ patience' = 0
               /\ UNCHANGED stopError
            \/ /\ PollError(comp)
               /\ stopError' = TRUE
               /\ pc' = IF child'[comp] = "none" THEN "stopped" ELSE exhausted
               /\ patience' = 0
    /\ launchKnown' = IF pc' = "stopped" THEN [launchKnown EXCEPT ![comp] = FALSE]
                                         ELSE launchKnown
    /\ UNCHANGED <<ctx, comp, queue, goal, signal, safeLaunch, serving,
                   markers, outcome, budgetVars>>

Grace == StopPolls("grace", "kill")
Reap  == StopPolls("reap", "stopped")

ForceKill ==
    /\ pc = "kill"
    /\ pc' = "reap" /\ patience' \in 0..StopSlices
    /\ stopError' \in {stopError, TRUE}
    /\ UNCHANGED <<ctx, comp, queue, goal, signal, children, markers, outcome, budgetVars>>

(* Mutant: errors are not kept.                                            *)
StopSurvivor == Owned(comp)

(* The result of the stop: an error, or a child that outlived SIGKILL.     *)
StopFailed == stopError \/ Owned(comp)

StopNext ==
    /\ pc = "stopped" /\ queue # <<>>
    /\ pc' = "stop" /\ comp' = Head(queue) /\ queue' = Tail(queue)
    /\ stopError' = StopFailed
    /\ UNCHANGED <<ctx, goal, patience, signal, children, markers, outcome, budgetVars>>

(* shutdownAll at the end of run().                                        *)
RunReturns ==
    /\ pc = "stopped" /\ queue = <<>> /\ goal \in Outcome
    /\ outcome' = IF StopFailed THEN "failed" ELSE goal
    /\ Label("cleanup")
    /\ UNCHANGED <<signal, children, markers, budgetVars>>

(* stopComponent inside startUntilStable.                                  *)
StartResumes ==
    /\ pc = "stopped" /\ goal \in StartGoal
    /\ \/ /\ goal \in {"unsupervised", "contract"} \/ StopFailed
          /\ Finish("failed") /\ UNCHANGED budgetVars
       \/ /\ goal = "interrupted" /\ ~StopFailed
          /\ Finish("shutdown_requested") /\ UNCHANGED budgetVars
       \/ goal = "timed_out" /\ ~StopFailed /\ Recover(comp, "readiness_timeout")
       \/ goal = "broken" /\ ~StopFailed /\ Recover(comp, "failure")
    /\ UNCHANGED <<signal, children, markers, outcome>>

(* enterSafeMode: shutdownAll, activateSafeMode, markSafeMode.             *)
SafeModeBegins ==
    /\ pc = "stopped" /\ queue = <<>> /\ goal = "safe_mode"
    /\ IF StopFailed THEN Finish("failed") /\ UNCHANGED budgetVars
       ELSE Activate /\ Label("mark_safe")
    /\ UNCHANGED <<signal, children, markers, outcome>>

MarkSafeMode ==
    /\ pc = "mark_safe"
    /\ \/ safeMarker' = TRUE /\ Start("settingsd", "safe_settings")
       \/ UNCHANGED safeMarker /\ Finish("failed")
    /\ UNCHANGED <<signal, children, ready, outcome, budgetVars>>

-----------------------------------------------------------------------------
(* run: the monitor loop, and the end of the process.                      *)

MarkReady ==
    /\ pc = "mark_ready"
    /\ \/ ready' = TRUE /\ Label("monitor")
       \/ UNCHANGED ready /\ Finish("failed")
    /\ UNCHANGED <<signal, children, safeMarker, outcome, budgetVars>>

Monitor ==
    /\ pc = "monitor"
    /\ IF signal THEN Finish("shutdown_requested")
       ELSE /\ pc' = "watch" /\ comp' = "shell" /\ ctx' = "monitor" /\ patience' = 0
            /\ UNCHANGED stops
    /\ UNCHANGED <<signal, children, markers, outcome, budgetVars>>

WatchNext ==
    /\ pc' = IF comp = "shell" THEN "watch" ELSE "monitor"
    /\ comp' = "settingsd" /\ patience' = 0
    /\ UNCHANGED <<ctx, stops, launchKnown, budgetVars>>

Watch ==
    /\ pc = "watch"
    /\ \/ ~Owned(comp) /\ WatchNext /\ UNCHANGED <<child, channel>>
       \/ PollAlive(comp) /\ WatchNext
       \/ PollError(comp) /\ Finish("failed") /\ UNCHANGED <<launchKnown, budgetVars>>
       \/ /\ PollExit(comp)
          /\ IF launchKnown[comp]
             THEN ForgetLaunch(comp) /\ Recover(comp, child[comp])
             ELSE Finish("failed") /\ UNCHANGED <<launchKnown, budgetVars>>
    /\ UNCHANGED <<signal, safeLaunch, serving, markers, outcome>>

(* main: the runtime directory is cleaned up whatever run() returned, and  *)
(* a failure to do so is what the process reports.                         *)
Cleanup ==
    /\ pc = "cleanup"
    /\ Label("done")
    /\ \/ ready' = FALSE /\ safeMarker' = FALSE /\ UNCHANGED outcome
       \/ ready' \in {ready, FALSE} /\ UNCHANGED safeMarker /\ outcome' = "failed"
    /\ UNCHANGED <<signal, children, budgetVars>>

Supervise ==
    \/ Begin \/ CheckSignal \/ LaunchSucceeds \/ LaunchFails
    \/ AwaitInterrupted \/ AwaitPolls \/ Probe \/ RetryDelay \/ Backoff
    \/ NothingToStop \/ RequestTerminate \/ Grace \/ ForceKill \/ Reap
    \/ StopNext \/ RunReturns \/ StartResumes \/ SafeModeBegins \/ MarkSafeMode
    \/ MarkReady \/ Monitor \/ Watch \/ Cleanup

-----------------------------------------------------------------------------
(* The environment.                                                        *)

(* requestSessionShutdown, the SIGINT and SIGTERM handler.                 *)
ShutdownSignal ==
    /\ ~signal /\ pc # "done"
    /\ signal' = TRUE
    /\ UNCHANGED <<control, stops, children, markers, outcome, budgetVars>>

(* A child exits of its own accord or because it was signalled.            *)
ChildExits(c, how) ==
    /\ child[c] = "running" /\ pc # "done"
    /\ child' = [child EXCEPT ![c] = how]
    /\ serving' = IF c = "settingsd" THEN FALSE ELSE serving
    /\ UNCHANGED <<signal, control, stops, safeLaunch, launchKnown,
                   channel, markers, outcome, budgetVars>>

(* The shell writes to the descriptor of its own launch.                   *)
ShellPublishes(message) ==
    /\ child["shell"] = "running" /\ channel = "silent" /\ pc # "done"
    /\ channel' = message
    /\ UNCHANGED <<signal, control, stops, child, safeLaunch, launchKnown,
                   serving, markers, outcome, budgetVars>>

SettingsServes ==
    /\ child["settingsd"] = "running" /\ ~serving /\ pc # "done"
    /\ serving' = TRUE
    /\ UNCHANGED <<signal, control, stops, child, safeLaunch, launchKnown,
                   channel, markers, outcome, budgetVars>>

Terminated == pc = "done" /\ UNCHANGED vars

Environment ==
    \/ ShutdownSignal
    \/ \E c \in Component, how \in Zombie : ChildExits(c, how)
    \/ \E message \in {"ready", "malformed"} : ShellPublishes(message)
    \/ SettingsServes

Next == Supervise \/ Environment \/ Terminated

Spec == Init /\ [][Next]_vars

(* The supervisor's thread is scheduled; nothing is assumed of the others. *)
FairSpec == Spec /\ WF_vars(Supervise)

-----------------------------------------------------------------------------
(* Properties.                                                             *)

(* No child is ever launched over one that is still owned: the refusal of  *)
(* the platform (SessionSupervisor.cpp:124-129) is never needed, so no     *)
(* budget is spent on it and no process is lost.                           *)
NoLaunchOverChild == pc = "launch" => ~Owned(comp)

(* Whenever the monitor loop looks at an owned child its launch time is    *)
(* known: handleExit never fails a healthy session for want of it, in      *)
(* spite of the many places that forget the time.                          *)
LaunchTimeKnown ==
    pc \in {"monitor", "watch"} =>
        \A c \in Component : Owned(c) => launchKnown[c]

(* Once safe mode is active only safe-mode children exist: the switch      *)
(* leaves no child of the normal session behind.                           *)
SafeModePure ==
    safeActive => \A c \in Component : Owned(c) => safeLaunch[c]

(* A session that reports success or a requested shutdown has collected    *)
(* both children; only a failed one may leave a process behind.            *)
NoOrphanOnSuccess ==
    pc \in {"cleanup", "done"} /\ outcome # "failed" =>
        \A c \in Component : ~Owned(c)

(* The monitor loop never runs without settingsd: whatever restart, safe   *)
(* mode or failed stop came before, the settings service is still owned    *)
(* when the loop resumes.                                                  *)
SettingsSupervised == pc = "monitor" => Owned("settingsd")

(* What launches and the monitor loop rely on, together                    *)
(* (SessionSupervisor.cpp:124, :585).                                      *)
SupervisorInvariant ==
    TypeOK /\ NoLaunchOverChild /\ LaunchTimeKnown /\ SettingsSupervised

(* The exit status tells the truth: a session that reports a requested     *)
(* shutdown was sent a signal, and one whose budget is exhausted reports a *)
(* clean end only if it got as far as safe mode (run, enterSafeMode).      *)
OutcomeIsHonest ==
    /\ outcome = "shutdown_requested" => signal
    /\ outcome = "clean" => ~safeOffered \/ safeActive

(* What a parent may conclude from the exit status.                        *)
HonestEnd == NoOrphanOnSuccess /\ OutcomeIsHonest

(* SIGINT or SIGTERM ends the session, whichever wait, backoff, stop or    *)
(* safe-mode launch it interrupts and however the children and the         *)
(* operating system answer.                                                *)
ShutdownTerminates == signal ~> pc = "done"

(* Logging out of the shell ends the session: a clean exit that the        *)
(* monitor loop finds is neither restarted nor lost.                       *)
LogoutTerminates ==
    (pc = "watch" /\ comp = "shell" /\ child["shell"] = "clean") ~> pc = "done"

(* Both ends of a session.                                                 *)
SessionEnds == ShutdownTerminates /\ LogoutTerminates
=============================================================================
