----------------------- MODULE SessionSupervisorProofs -----------------------
(***************************************************************************)
(* Proofs about SessionSupervisor for every budget and every length of the *)
(* waits: no child is launched over one that is still owned, the monitor   *)
(* loop always has settingsd and the launch times it needs, safe mode is   *)
(* pure, and the exit status tells the truth.                              *)
(***************************************************************************)
EXTENDS SessionSupervisor, TLAPS

-----------------------------------------------------------------------------
(* The inductive invariant.                                                *)

(* What SMT needs of TypeOK, and what Zenon proves of it.                  *)
Flags ==
    /\ signal \in BOOLEAN /\ stopError \in BOOLEAN /\ serving \in BOOLEAN
    /\ ready \in BOOLEAN /\ safeMarker \in BOOLEAN
    /\ safeOffered \in BOOLEAN /\ safeActive \in BOOLEAN

FlagsOf ==
    /\ safeLaunch \in [Component -> BOOLEAN]
    /\ launchKnown \in [Component -> BOOLEAN]

Typed ==
    /\ used \in [Component -> Nat]
    /\ \A c \in Component : used[c] <= MaxRestarts[c]
    /\ pc \in PC /\ ctx \in Context /\ comp \in Component
    /\ patience \in Nat
    /\ goal \in StartGoal \cup Outcome \cup {"none", "safe_mode"}
    /\ child \in [Component -> Zombie \cup {"none", "running"}]
    /\ channel \in {"closed", "silent", "ready", "malformed"}
    /\ outcome \in Outcome \cup {"none"}

(* The stops still to make, of shutdownAll.                                *)
Queue == queue \in {<<>>, <<"settingsd">>}

Stopping == pc \in {"stop", "grace", "kill", "reap", "stopped"}

(* A call of startUntilStable is active, the stops inside it included; and *)
(* shutdownAll, whatever it is called for.                                 *)
InStart ==
    \/ pc \in {"start", "launch", "await", "probe", "retry", "backoff"}
    \/ Stopping /\ goal \in StartGoal
InShutdown == Stopping /\ goal \notin StartGoal

(* Which component a call is about, and in which order shutdownAll goes.   *)
Calls ==
    /\ queue # <<>> => InShutdown /\ comp = "shell"
    /\ InShutdown /\ queue = <<>> => comp = "settingsd"
    /\ Stopping => goal # "none"
    /\ InStart /\ ctx \in {"first_settings", "safe_settings"} => comp = "settingsd"
    /\ InStart /\ ctx \in {"first_shell", "safe_shell"} => comp = "shell"
    /\ pc = "watch" => ctx = "monitor"

(* Which children are owned at which point.  A stop that left the shell    *)
(* behind is remembered as an error.                                       *)
Children ==
    /\ pc \in {"init", "mark_safe"} => ~Owned("shell") /\ ~Owned("settingsd")
    /\ InStart /\ ctx \in {"first_settings", "safe_settings"} => ~Owned("shell")
    /\ pc \in {"start", "launch", "backoff"} => ~Owned(comp)
    /\ pc \in {"await", "probe", "retry"} => Owned(comp)
    /\ InStart /\ comp = "shell" => Owned("settingsd")
    /\ pc \in {"mark_ready", "monitor", "watch"} => Owned("settingsd")
    /\ InShutdown /\ comp = "settingsd" /\ ~stopError => ~Owned("shell")

(* The launch time of an owned child is forgotten only by a stop that      *)
(* failed, and no start and no monitor loop follows that one.              *)
LaunchTimes ==
    \A c \in Component :
        Owned(c) => \/ launchKnown[c]
                    \/ InShutdown
                    \/ Stopping /\ c = comp
                    \/ pc \in {"cleanup", "done"}

(* What the next result of run() rests on.  An offer of safe mode that is  *)
(* not taken ends in a failure.                                            *)
Results ==
    /\ Stopping /\ goal \in {"interrupted", "shutdown_requested"} => signal
    /\ safeOffered /\ ~safeActive =>
           \/ Stopping /\ goal \in {"safe_mode", "failed"}
           \/ pc \in {"cleanup", "done"} /\ outcome = "failed"
    /\ pc \notin {"cleanup", "done"} => outcome = "none"

IInv ==
    /\ Flags /\ FlagsOf /\ Queue /\ Typed
    /\ Calls /\ Children /\ LaunchTimes /\ Results
    /\ SafeModePure /\ HonestEnd

-----------------------------------------------------------------------------
(* Flags stay flags.                                                       *)
LEMMA FlagsKept == Flags /\ [Next]_vars => Flags'
<1> SUFFICES ASSUME Flags, [Next]_vars PROVE Flags'
  OBVIOUS
<1> USE DEF Flags, Next, Supervise, Environment, Terminated, vars, control, stops,
         children, markers, budgetVars, Begin, CheckSignal, LaunchSucceeds, LaunchFails, AwaitInterrupted,
         AwaitPolls, Probe, RetryDelay, Backoff, NothingToStop, RequestTerminate, Grace,
         ForceKill, Reap, StopNext, RunReturns, StartResumes, SafeModeBegins, MarkSafeMode,
         MarkReady, Monitor, Watch, WatchNext, Cleanup, ShutdownSignal, ChildExits,
         ShellPublishes, SettingsServes, Goto, Start, StopThen, Finish, Label, Proceed,
         CleanStop, EnterSafeMode, Recover, Observe, Charge, Activate, ForgetLaunch,
         StopPolls, StopFailed
<1>1. signal' \in BOOLEAN
  BY Zenon
<1>2. stopError' \in BOOLEAN
  BY Zenon
<1>3. serving' \in BOOLEAN
  BY Zenon
<1>4. ready' \in BOOLEAN
  BY Zenon
<1>5. safeMarker' \in BOOLEAN
  BY Zenon
<1>6. safeOffered' \in BOOLEAN
  BY Zenon
<1>7. safeActive' \in BOOLEAN
  BY Zenon
<1> QED
  BY <1>1, <1>2, <1>3, <1>4, <1>5, <1>6, <1>7, Zenon

(* Neither do the flags of a component.                                    *)
LEMMA FlagsOfKept == Flags /\ FlagsOf /\ comp \in Component /\ [Next]_vars => FlagsOf'
  BY Zenon
     DEF Flags, FlagsOf, Next, Supervise, Environment, Terminated, vars, control, stops,
         children, markers, budgetVars, Begin, CheckSignal, LaunchSucceeds, LaunchFails, AwaitInterrupted,
         AwaitPolls, Probe, RetryDelay, Backoff, NothingToStop, RequestTerminate, Grace,
         ForceKill, Reap, StopNext, RunReturns, StartResumes, SafeModeBegins, MarkSafeMode,
         MarkReady, Monitor, Watch, WatchNext, Cleanup, ShutdownSignal, ChildExits,
         ShellPublishes, SettingsServes, Goto, Start, StopThen, Finish, Label, Proceed,
         CleanStop, EnterSafeMode, Recover, Observe, Charge, Activate, ForgetLaunch,
         StopPolls, StopFailed

(* The calls of stopComponent that a transfer of control begins: both      *)
(* components, the shell first, or the one a start is about.               *)
LEMMA StopsBoth ==
    ASSUME NEW o, StopThen(<<"shell", "settingsd">>, o)
    PROVE  /\ pc' = "stop" /\ comp' = "shell" /\ patience' = 0 /\ ctx' = ctx
           /\ queue' # <<>> /\ goal' = o /\ ~stopError' /\ Queue'
  BY DEF StopThen, Queue

(* One component is stopped, and the code goes on where it was to go.      *)
LEMMA StopsOne ==
    ASSUME NEW c, NEW next, StopThen(<<c>>, next)
    PROVE  /\ pc' = "stop" /\ comp' = c /\ patience' = 0 /\ ctx' = ctx
           /\ queue' = <<>> /\ goal' = next /\ ~stopError' /\ Queue'
  BY DEF StopThen, Queue

(* Nothing but settingsd is ever left in the queue.                        *)
LEMMA QueueKept == Queue /\ [Next]_vars => Queue'
<1> SUFFICES ASSUME Queue, [Next]_vars PROVE Queue'
  OBVIOUS
<1>1. queue' = queue => Queue'
  BY DEF Queue
<1>2. StopNext => Queue'
  <2> SUFFICES ASSUME StopNext PROVE queue' = Tail(<<"settingsd">>)
    BY DEF Queue
  <2> QED
    BY DEF StopNext, Queue
<1>3. Begin \/ CheckSignal \/ LaunchSucceeds \/ LaunchFails \/ AwaitInterrupted \/ AwaitPolls
      \/ Probe \/ RetryDelay \/ Backoff => Queue'
  BY <1>1, StopsOne, StopsBoth
     DEF Begin, CheckSignal, LaunchSucceeds, LaunchFails, AwaitInterrupted, AwaitPolls,
         Probe, RetryDelay, Backoff, Goto, Start, Finish, Label, Proceed, CleanStop,
         EnterSafeMode, Recover, stops
<1>4. NothingToStop \/ RequestTerminate \/ Grace \/ ForceKill \/ Reap \/ RunReturns
      \/ StartResumes \/ SafeModeBegins \/ MarkSafeMode => Queue'
  BY <1>1, StopsBoth
     DEF NothingToStop, RequestTerminate, Grace, ForceKill, Reap, StopPolls, RunReturns,
         StartResumes, SafeModeBegins, MarkSafeMode, Goto, Start, Finish, Label, Proceed,
         CleanStop, EnterSafeMode, Recover, stops
<1>5. MarkReady \/ Monitor \/ Watch \/ Cleanup \/ Environment \/ UNCHANGED vars => Queue'
  BY <1>1, StopsBoth
     DEF MarkReady, Monitor, Watch, WatchNext, Cleanup, Environment, ShutdownSignal,
         ChildExits, ShellPublishes, SettingsServes, vars, Goto, Start, Finish, Label,
         Proceed, CleanStop, EnterSafeMode, Recover, stops
<1> QED
  BY <1>2, <1>3, <1>4, <1>5 DEF Next, Supervise, Terminated

(* recover: a clean exit ends the call, a failure ends the session or      *)
(* begins the stops before safe mode, a restart waits for its backoff.     *)
LEMMA RecoveryDecides ==
    ASSUME NEW c \in Component, NEW reason, Recover(c, reason),
           used \in [Component -> Nat], \A d \in Component : used[d] <= MaxRestarts[d]
    PROVE  /\ used' \in [Component -> Nat] /\ \A d \in Component : used'[d] <= MaxRestarts[d]
           /\ UNCHANGED safeActive
           /\ \/ CleanStop /\ UNCHANGED safeOffered
              \/ Finish("failed")
              \/ Finish("safe_mode")
              \/ /\ pc' = "backoff" /\ patience' = BackoffSlices
                 /\ UNCHANGED <<ctx, comp, queue, goal, stopError, safeOffered>>
<1> USE BudgetAssumption
<1>1. CASE Observe(c, reason, "stop_clean") /\ CleanStop
  BY <1>1 DEF Observe, Charge
<1>2. CASE Observe(c, reason, "enter_safe_mode") /\ EnterSafeMode
  <2>1. Finish("failed") \/ Finish("safe_mode")
    BY <1>2, Zenon DEF EnterSafeMode, Finish
  <2> QED
    BY <1>2, <2>1 DEF Observe, Charge
<1>3. CASE Observe(c, reason, "stop_failed") /\ Finish("failed")
  BY <1>3 DEF Observe, Charge
<1>4. CASE Observe(c, reason, "restart_component") /\ Goto("backoff") /\ patience' = BackoffSlices
  BY <1>4 DEF Observe, Charge, Goto, stops
<1> QED
  BY <1>1, <1>2, <1>3, <1>4 DEF Recover

-----------------------------------------------------------------------------
(* startUntilStable.                                                       *)
LEMMA StartKeepsIInv ==
    ASSUME IInv, Flags', FlagsOf', Queue',
           Begin \/ CheckSignal \/ LaunchSucceeds \/ LaunchFails
           \/ AwaitInterrupted \/ AwaitPolls \/ Probe \/ RetryDelay \/ Backoff
    PROVE  IInv'
<1> USE SupervisorAssumption
    DEF IInv, Typed, PC, Context, StartGoal, Outcome, Zombie, Stopping, InStart, InShutdown,
        Calls, Children, LaunchTimes, Results, SafeModePure, HonestEnd, NoOrphanOnSuccess,
        OutcomeIsHonest, Owned, control, stops, children, markers, budgetVars
<1>1. CASE Begin
  BY <1>1 DEF Begin, Start
<1>2. CASE CheckSignal
  BY <1>2, StopsBoth DEF CheckSignal, Finish, Label, Goto
<1>3. CASE LaunchSucceeds
  <2>1. Typed' /\ Calls' /\ Children'
    BY <1>3 DEF LaunchSucceeds, Goto
  <2>2. LaunchTimes' /\ Results'
    BY <1>3 DEF LaunchSucceeds, Goto, FlagsOf
  <2>3. SafeModePure' /\ HonestEnd'
    BY <1>3 DEF LaunchSucceeds, Goto, FlagsOf
  <2> QED
    BY <2>1, <2>2, <2>3
<1>4. CASE LaunchFails
  BY <1>4, RecoveryDecides, StopsBoth
     DEF LaunchFails, ForgetLaunch, CleanStop, Finish, Label, Goto
<1>5. CASE AwaitInterrupted
  BY <1>5, StopsOne DEF AwaitInterrupted
<1>6. CASE AwaitPolls
  <2>1. Typed' /\ Calls' /\ Children'
    BY <1>6, RecoveryDecides, StopsBoth, StopsOne
       DEF AwaitPolls, PollError, PollExit, PollAlive, ForgetLaunch, CleanStop, Finish,
           Label, Goto
  <2>2. LaunchTimes' /\ Results'
    BY <1>6, RecoveryDecides, StopsBoth, StopsOne
       DEF AwaitPolls, PollError, PollExit, PollAlive, ForgetLaunch, CleanStop, Finish,
           Label, Goto, FlagsOf
  <2>3. SafeModePure' /\ HonestEnd'
    BY <1>6, RecoveryDecides, StopsBoth, StopsOne
       DEF AwaitPolls, PollError, PollExit, PollAlive, ForgetLaunch, CleanStop, Finish,
           Label, Goto, FlagsOf
  <2> QED
    BY <2>1, <2>2, <2>3
<1>7. CASE Probe
  BY <1>7, StopsOne DEF Probe, Proceed, Start, Label, Goto
<1>8. CASE RetryDelay
  BY <1>8, StopsOne DEF RetryDelay, Goto
<1>9. CASE Backoff
  BY <1>9, StopsBoth DEF Backoff, Finish, Goto, Start
<1> QED
  BY <1>1, <1>2, <1>3, <1>4, <1>5, <1>6, <1>7, <1>8, <1>9

(* stopComponent and its callers.                                          *)
LEMMA StopKeepsIInv ==
    ASSUME IInv, Flags', FlagsOf', Queue',
           NothingToStop \/ RequestTerminate \/ Grace \/ ForceKill \/ Reap
           \/ StopNext \/ RunReturns \/ StartResumes \/ SafeModeBegins
           \/ MarkSafeMode
    PROVE  IInv'
<1> USE SupervisorAssumption
    DEF IInv, Typed, PC, Context, StartGoal, Outcome, Zombie, Stopping, InStart, InShutdown,
        Calls, Children, LaunchTimes, Results, SafeModePure, HonestEnd, NoOrphanOnSuccess,
        OutcomeIsHonest, Owned, control, stops, children, markers, budgetVars
<1>1. CASE NothingToStop
  BY <1>1 DEF NothingToStop, ForgetLaunch, Label, Goto
<1>2. CASE RequestTerminate
  <2>0. stopError => stopError'
    BY <1>2, Zenon DEF RequestTerminate
  <2>1. Typed' /\ Calls' /\ Children'
    BY <1>2, <2>0 DEF RequestTerminate
  <2>2. LaunchTimes' /\ Results'
    BY <1>2 DEF RequestTerminate
  <2>3. SafeModePure' /\ HonestEnd'
    BY <1>2 DEF RequestTerminate
  <2> QED
    BY <2>1, <2>2, <2>3
<1>3. CASE Grace
  BY <1>3 DEF Grace, StopPolls, PollAlive, PollExit, PollError
<1>4. CASE ForceKill
  <2>0. stopError => stopError'
    BY <1>4, Zenon DEF ForceKill
  <2>1. Typed' /\ Calls' /\ Children'
    BY <1>4, <2>0 DEF ForceKill
  <2>2. LaunchTimes' /\ Results'
    BY <1>4 DEF ForceKill
  <2>3. SafeModePure' /\ HonestEnd'
    BY <1>4 DEF ForceKill
  <2> QED
    BY <2>1, <2>2, <2>3
<1>5. CASE Reap
  BY <1>5 DEF Reap, StopPolls, PollAlive, PollExit, PollError
<1>6. CASE StopNext
  <2>0. comp' = "settingsd" /\ queue' = <<>>
    BY <1>6 DEF StopNext, Queue
  <2>1. Typed' /\ Calls'
    BY <1>6, <2>0 DEF StopNext, StopFailed
  <2>4. Children'
    BY <1>6, <2>0 DEF StopNext, StopFailed
  <2>2. LaunchTimes' /\ Results'
    BY <1>6 DEF StopNext, StopFailed
  <2>3. SafeModePure' /\ HonestEnd'
    BY <1>6 DEF StopNext, StopFailed
  <2> QED
    BY <2>1, <2>2, <2>3, <2>4
<1>7. CASE RunReturns
  BY <1>7 DEF RunReturns, StopFailed, Label, Goto
<1>8. CASE StartResumes
  <2>1. Typed' /\ Calls' /\ Children'
    BY <1>8, RecoveryDecides, StopsBoth
       DEF StartResumes, StopFailed, CleanStop, Finish, Label, Goto
  <2>2. LaunchTimes' /\ Results'
    BY <1>8, RecoveryDecides, StopsBoth
       DEF StartResumes, StopFailed, CleanStop, Finish, Label, Goto
  <2>3. SafeModePure' /\ HonestEnd'
    BY <1>8, RecoveryDecides, StopsBoth
       DEF StartResumes, StopFailed, CleanStop, Finish, Label, Goto
  <2> QED
    BY <2>1, <2>2, <2>3
<1>9. CASE SafeModeBegins
  BY <1>9, StopsBoth, BudgetAssumption
     DEF SafeModeBegins, StopFailed, Finish, Activate, Label, Goto
<1>10. CASE MarkSafeMode
  BY <1>10, StopsBoth DEF MarkSafeMode, Start, Finish
<1> QED
  BY <1>1, <1>2, <1>3, <1>4, <1>5, <1>6, <1>7, <1>8, <1>9, <1>10

(* The end of the process: there is nothing left to call or to stop.       *)
LEMMA CleanupKeepsIInv ==
    ASSUME IInv, Flags', FlagsOf', Queue', Cleanup
    PROVE  IInv'
<1>1. /\ pc = "cleanup" /\ pc' = "done" /\ patience' = 0
      /\ UNCHANGED <<ctx, comp, queue, goal, signal, child, channel, safeLaunch, launchKnown,
                     used, safeOffered, safeActive>>
      /\ outcome' \in {outcome, "failed"}
  BY DEF Cleanup, Label, Goto, stops, children, budgetVars
<1>2. Typed'
  <2>1. Typed
    BY DEF IInv
  <2>2. "failed" \in Outcome
    BY DEF Outcome
  <2> HIDE DEF IInv
  <2> QED
    BY <1>1, <2>1, <2>2 DEF Typed, PC
<1>3. ~Stopping' /\ ~InStart' /\ ~InShutdown'
  BY <1>1 DEF Stopping, InStart, InShutdown
<1>4. Calls' /\ Children'
  <2>1. queue' = <<>>
    BY <1>1 DEF IInv, Queue, Calls, InShutdown, Stopping
  <2> QED
    BY <1>1, <1>3, <2>1 DEF Calls, Children
<1>5. LaunchTimes'
  BY <1>1 DEF LaunchTimes
<1>6. Results'
  BY <1>1, <1>3 DEF IInv, Results, Stopping
<1>7. SafeModePure'
  BY <1>1 DEF IInv, SafeModePure, Owned
<1>8. HonestEnd'
  BY <1>1 DEF IInv, HonestEnd, NoOrphanOnSuccess, OutcomeIsHonest, Owned
<1> QED
  BY <1>2, <1>4, <1>5, <1>6, <1>7, <1>8 DEF IInv

(* The monitor loop and the end of the process.                            *)
LEMMA RunKeepsIInv ==
    ASSUME IInv, Flags', FlagsOf', Queue',
           MarkReady \/ Monitor \/ Watch \/ Cleanup
    PROVE  IInv'
<1> USE SupervisorAssumption
    DEF IInv, Typed, PC, Context, StartGoal, Outcome, Zombie, Stopping, InStart, InShutdown,
        Calls, Children, LaunchTimes, Results, SafeModePure, HonestEnd, NoOrphanOnSuccess,
        OutcomeIsHonest, Owned, control, stops, children, markers, budgetVars
<1>1. CASE MarkReady
  BY <1>1, StopsBoth DEF MarkReady, Label, Goto, Finish
<1>2. CASE Monitor
  BY <1>2, StopsBoth DEF Monitor, Finish
<1>3. CASE Watch
  <2>1. Typed' /\ Calls' /\ Children'
    BY <1>3, RecoveryDecides, StopsBoth
       DEF Watch, WatchNext, PollAlive, PollError, PollExit, ForgetLaunch, CleanStop,
           Finish, Label, Goto
  <2>2. LaunchTimes' /\ Results'
    BY <1>3, RecoveryDecides, StopsBoth
       DEF Watch, WatchNext, PollAlive, PollError, PollExit, ForgetLaunch, CleanStop,
           Finish, Label, Goto, FlagsOf
  <2>3. SafeModePure' /\ HonestEnd'
    BY <1>3, RecoveryDecides, StopsBoth
       DEF Watch, WatchNext, PollAlive, PollError, PollExit, ForgetLaunch, CleanStop,
           Finish, Label, Goto, FlagsOf
  <2> QED
    BY <2>1, <2>2, <2>3
<1>4. CASE Cleanup
  BY <1>4, CleanupKeepsIInv, Zenon
<1> QED
  BY <1>1, <1>2, <1>3, <1>4

(* The signal and the children.                                            *)
LEMMA EnvironmentKeepsIInv ==
    ASSUME IInv, Flags', FlagsOf', Queue',
           Environment
    PROVE  IInv'
<1> USE SupervisorAssumption
    DEF IInv, Typed, PC, Context, StartGoal, Outcome, Zombie, Stopping, InStart, InShutdown,
        Calls, Children, LaunchTimes, Results, SafeModePure, HonestEnd, NoOrphanOnSuccess,
        OutcomeIsHonest, Owned, control, stops, children, markers, budgetVars
<1>1. CASE ShutdownSignal
  BY <1>1 DEF ShutdownSignal
<1>2. CASE \E c \in Component, how \in Zombie : ChildExits(c, how)
  BY <1>2 DEF ChildExits
<1>3. CASE \E message \in {"ready", "malformed"} : ShellPublishes(message)
  BY <1>3 DEF ShellPublishes
<1>4. CASE SettingsServes
  BY <1>4 DEF SettingsServes
<1> QED
  BY <1>1, <1>2, <1>3, <1>4 DEF Environment

(* Every step keeps the invariant.                                         *)
LEMMA StepKeepsIInv == IInv /\ [Next]_vars => IInv'
<1> SUFFICES ASSUME IInv, [Next]_vars PROVE IInv'
  OBVIOUS
<1>1. Flags' /\ FlagsOf' /\ Queue'
  BY FlagsKept, FlagsOfKept, QueueKept DEF IInv, Typed
<1>2. CASE Supervise
  BY <1>1, <1>2, StartKeepsIInv, StopKeepsIInv, RunKeepsIInv DEF Supervise
<1>3. CASE Environment
  BY <1>1, <1>3, EnvironmentKeepsIInv
<1>4. CASE UNCHANGED vars
  BY <1>1, <1>4 DEF vars, control, stops, children, markers, budgetVars, IInv, Typed, Stopping,
                    InStart, InShutdown, Calls, Children, LaunchTimes, Results, SafeModePure,
                    HonestEnd, NoOrphanOnSuccess, OutcomeIsHonest, Owned
<1> QED
  BY <1>2, <1>3, <1>4 DEF Next, Terminated

(* From the start of the process on, whatever the children, the operating  *)
(* system and the signals do.                                              *)
THEOREM InductiveInvariant == Spec => []IInv
<1>1. Init => Flags /\ FlagsOf
  BY Zenon DEF Init, BudgetInit, Flags, FlagsOf
<1>2. Init => Queue
  BY DEF Init, Queue
<1>3. Init => IInv
  BY <1>1, <1>2, SupervisorAssumption, BudgetAssumption
     DEF Init, BudgetInit, IInv, Typed, PC, Context, StartGoal, Outcome, Zombie, Stopping,
         InStart, InShutdown, Calls, Children, LaunchTimes, Results, SafeModePure, HonestEnd,
         NoOrphanOnSuccess, OutcomeIsHonest, Owned
<1> QED
  BY <1>3, StepKeepsIInv, PTL DEF Spec

-----------------------------------------------------------------------------
(* The type invariant, from the parts that the provers want apart.         *)
LEMMA TypesOf == IInv => TypeOK
<1> SUFFICES ASSUME IInv PROVE TypeOK
  OBVIOUS
<1>1. queue \in Seq(Component)
  <2>1. <<>> \in Seq(Component) /\ <<"settingsd">> \in Seq(Component)
    BY SupervisorAssumption
  <2> QED
    BY <2>1, Zenon DEF IInv, Queue
<1>2. BudgetTypeOK
  BY Zenon DEF IInv, Typed, Flags, BudgetTypeOK
<1> QED
  BY <1>1, <1>2, Zenon DEF IInv, Typed, Flags, FlagsOf, TypeOK

(* A child is launched only over nothing, and the monitor loop finds       *)
(* settingsd owned and the launch time of whatever it owns, so handleExit  *)
(* never fails a session for want of one.                                  *)
THEOREM SupervisorIsConsistent == Spec => []SupervisorInvariant
<1>1. IInv => NoLaunchOverChild /\ SettingsSupervised
  BY DEF IInv, Children, NoLaunchOverChild, SettingsSupervised
<1>2. IInv => LaunchTimeKnown
  BY DEF IInv, LaunchTimes, LaunchTimeKnown, Stopping, InShutdown
<1>3. IInv => SupervisorInvariant
  BY <1>1, <1>2, TypesOf DEF SupervisorInvariant
<1> QED
  BY <1>3, InductiveInvariant, PTL

(* No child of the normal session survives the switch to safe mode         *)
(* (enterSafeMode goes on only after a shutdownAll without errors).        *)
THEOREM SafeModeIsPure == Spec => []SafeModePure
<1>1. IInv => SafeModePure
  BY DEF IInv
<1> QED
  BY <1>1, InductiveInvariant, PTL

(* Success and a requested shutdown are reported only with both children   *)
(* collected, a requested shutdown only after a signal, and a clean end    *)
(* never instead of a safe mode that was due.                              *)
THEOREM EndIsHonest == Spec => []HonestEnd
<1>1. IInv => HonestEnd
  BY DEF IInv
<1> QED
  BY <1>1, InductiveInvariant, PTL

-----------------------------------------------------------------------------
(* The budget that RestartPolicy implements is the one the supervisor      *)
(* spends: every step of the session is a step of RecoveryBudget or leaves *)
(* the budget alone.                                                       *)
THEOREM SupervisorKeepsBudget == Spec => BudgetSpec
<1>1. Init => BudgetInit
  BY DEF Init
<1>2. IInv /\ [Next]_vars => [BudgetNext]_budgetVars
  <2> SUFFICES ASSUME IInv, [Next]_vars PROVE BudgetNext \/ UNCHANGED budgetVars
    BY DEF budgetVars
  <2>1. comp \in Component
    BY DEF IInv, Typed
  <2>2. ASSUME NEW reason \in Reason, Recover(comp, reason) PROVE BudgetNext
    BY <2>1, <2>2, Zenon DEF Recover, BudgetNext, Verdict
  <2>3. CASE LaunchFails \/ AwaitPolls \/ StartResumes \/ Watch
    <3>1. PollExit(comp) => child[comp] \in Reason
      BY DEF PollExit, Zombie, Reason
    <3> QED
      BY <2>2, <2>3, <3>1 DEF LaunchFails, AwaitPolls, StartResumes, Watch, WatchNext, Reason
  <2>4. CASE SafeModeBegins
    BY <2>4 DEF SafeModeBegins, BudgetNext
  <2> QED
    BY <2>3, <2>4
       DEF Next, Supervise, Environment, Terminated, vars, Begin, CheckSignal,
           LaunchSucceeds, AwaitInterrupted,
       Probe, RetryDelay, Backoff, NothingToStop, RequestTerminate, Grace, Reap, StopPolls,
       ForceKill, StopNext, RunReturns, MarkSafeMode, MarkReady, Monitor, Cleanup,
       ShutdownSignal,
       ChildExits, ShellPublishes, SettingsServes
<1> QED
  BY <1>1, <1>2, InductiveInvariant, PTL DEF Spec, BudgetSpec
==============================================================================
