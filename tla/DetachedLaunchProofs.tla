------------------------- MODULE DetachedLaunchProofs -------------------------
(***************************************************************************)
(* Proofs about DetachedLaunch for every entry, context and set of         *)
(* programs, and any number of kills by others: how a launch ends, what of *)
(* it is still running then, and that the process boundary accepts every   *)
(* plan that is made.                                                      *)
(***************************************************************************)
EXTENDS DetachedLaunch, SequenceTheorems, WellFoundedInduction, TLAPS

-----------------------------------------------------------------------------
(* The inductive invariant.                                                *)

Preparing == {"plan", "prepare", "fork"}
Killing   == {"killGroup", "killBroker", "waitBroker"}

(* The fields that the two records have.                                   *)
Shape ==
    /\ worker = [at |-> worker.at, result |-> worker.result]
    /\ broker = [at |-> broker.at]

Typed ==
    /\ worker.at \in Preparing \cup {"awaitBroker", "awaitExec", "reap", "done"} \cup Killing
    /\ broker.at \in BrokerStages \cup {"none", "exited", "killed", "reaped"}
    /\ child \in ChildStages \cup {"none", "failed", "ended", "killed", "killedByWorker"}
    /\ resultPipe \in {NoRecord, "brokerReady", "createSession", "secondFork"}

(* Nothing is forked before the worker forks, nor the child before the     *)
(* broker does.                                                            *)
Forks ==
    /\ worker.at \in Preparing =>
           broker.at = "none" /\ child = "none" /\ resultPipe = NoRecord
    /\ broker.at \in {"none", "started", "session"} => child = "none"
    /\ broker.at \in {"forked", "reported"} => child # "none"

(* What a record says of the process that wrote it.                        *)
Records ==
    /\ resultPipe = "brokerReady" \/ worker.at = "awaitExec" => child # "none"
    /\ resultPipe \in {"createSession", "secondFork"} => child = "none" /\ ~BrokerRuns
    /\ errorPipe # NoRecord <=> child = "failed"

(* Why a worker that collects its broker may stop at that.                 *)
Reaps ==
    /\ worker.at = "reap" /\ worker.result # "none" =>
           child = "failed" \/ (child = "none" /\ ~BrokerRuns)
    /\ child = "killedByWorker" =>
           worker.at \in {"killBroker", "waitBroker", "done"} /\ worker.result # "none"

(* No error yet, and nobody is to be killed.                               *)
Succeeds ==
    /\ worker.at \in Preparing \cup {"awaitBroker", "awaitExec"} => worker.result = "none"
    /\ worker.result = "none" =>
           /\ worker.at \notin Killing
           /\ worker.at \in {"reap", "done"} => child \in {"executed", "ended", "killed"}

(* Whom the signal to the session reached is gone for good.                *)
Kills ==
    /\ worker.at \in {"killBroker", "waitBroker"} /\ ~missed => ~BrokerRuns /\ ~ChildRuns
    /\ missed => worker.at \in {"killBroker", "waitBroker", "done"}

IInv ==
    /\ Shape /\ Typed /\ Forks /\ Records /\ Reaps /\ Succeeds /\ Kills
    /\ missed \in BOOLEAN
    /\ SessionIsKilled /\ BrokerIsReaped

-----------------------------------------------------------------------------
(* What a step makes of the worker and of the broker.                      *)
Phase(at)     == worker' = [at |-> at, result |-> worker.result]
FailsAt(at)   == worker'.result # "none" /\ worker' = [at |-> at, result |-> worker'.result]
BrokerIs(at)  == broker' = [at |-> at]
BrokerStays   == broker' = broker
MissedStays   == missed' \in BOOLEAN /\ (missed' <=> missed)

(* A worker that goes on keeps what its result says.                       *)
LEMMA Phases ==
    ASSUME Shape, NEW at, GoTo(at)
    PROVE  Phase(at)
BY DEF Shape, GoTo, Phase

(* A step that sets an error leaves a failed worker.                       *)
LEMMA Failures ==
    ASSUME Shape, NEW error, error # "none", NEW at,
           worker' = [worker EXCEPT !.at = at, !.result = error]
    PROVE  FailsAt(at)
BY DEF Shape, FailsAt

(* The errors of the steps of the worker.                                  *)
LEMMA FailureSteps ==
    ASSUME Shape, NEW error, error # "none"
    PROVE  /\ Fail(error) => FailsAt("done")
           /\ GiveUp(error) => FailsAt("killGroup")
BY Failures, Zenon DEF Fail, GiveUp

(* The broker has nothing but its stage.                                   *)
LEMMA BrokerMoves ==
    ASSUME Shape, NEW at, broker' = [broker EXCEPT !.at = at]
    PROVE  BrokerIs(at)
BY DEF Shape, BrokerIs

(* A broker that ends is collected at once when SIGCHLD is ignored.        *)
LEMMA BrokerEnds ==
    ASSUME Shape, NEW how, broker' = [broker EXCEPT !.at = Ended(how)]
    PROVE  BrokerIs(how) \/ BrokerIs("reaped")
<1>1. BrokerIs(Ended(how))
  BY BrokerMoves, Zenon
<1>2. Ended(how) = how \/ Ended(how) = "reaped"
  BY Zenon DEF Ended
<1> QED
  BY <1>1, <1>2, Zenon

-----------------------------------------------------------------------------
(* Preservation: the steps of the worker.                                  *)

(* launchDetachedApplication, call by call (DetachedApplication.cpp:638).  *)
LEMMA WorkerKeepsIInv ==
    ASSUME IInv, WorkerStep
    PROVE  IInv'
<1>0. Shape /\ (missed \in BOOLEAN)
  BY Zenon DEF IInv
<1>1. CASE PrepareInvocation
  <2>1. worker.at = "plan" /\ UNCHANGED <<broker, child, resultPipe, errorPipe>>
    BY <1>1, Zenon DEF PrepareInvocation, processVars
  <2>2. FailsAt("done") \/ Phase("prepare")
    BY <1>1, <1>0, Phases, FailureSteps, Zenon DEF PrepareInvocation, Ok
  <2>3. MissedStays
    BY <1>1, <1>0, Zenon DEF PrepareInvocation, MissedStays
  <2> QED
    BY <2>1, <2>2, <2>3 DEF Phase, FailsAt, BrokerIs, BrokerStays, MissedStays,
       IInv, Shape, Typed, Forks, Records, Reaps, Succeeds, Kills, SessionIsKilled,
          BrokerIsReaped, Preparing, Killing, BrokerStages, ChildStages, BrokerRuns, ChildRuns,
          GaveUp, Done, NoRecord
<1>2. CASE PrepareLaunch
  <2>1. worker.at = "prepare" /\ UNCHANGED <<broker, child, resultPipe, errorPipe>>
    BY <1>2, Zenon DEF PrepareLaunch, processVars
  <2>2. FailsAt("done") \/ Phase("fork")
    BY <1>2, <1>0, Phases, FailureSteps, Zenon DEF PrepareLaunch
  <2>3. MissedStays
    BY <1>2, <1>0, Zenon DEF PrepareLaunch, MissedStays
  <2> QED
    BY <2>1, <2>2, <2>3 DEF Phase, FailsAt, BrokerIs, BrokerStays, MissedStays,
       IInv, Shape, Typed, Forks, Records, Reaps, Succeeds, Kills, SessionIsKilled,
          BrokerIsReaped, Preparing, Killing, BrokerStages, ChildStages, BrokerRuns, ChildRuns,
          GaveUp, Done, NoRecord
<1>3. CASE ForkBroker
  <2>1. worker.at = "fork" /\ UNCHANGED <<child, resultPipe, errorPipe>>
    BY <1>3, Zenon DEF ForkBroker, processVars
  <2>2. \/ FailsAt("done") /\ BrokerStays
        \/ Phase("awaitBroker") /\ BrokerIs("started")
    BY <1>3, <1>0, Phases, FailureSteps, BrokerMoves, Zenon DEF ForkBroker, BrokerStays
  <2>3. MissedStays
    BY <1>3, <1>0, Zenon DEF ForkBroker, MissedStays
  <2> QED
    BY <2>1, <2>2, <2>3 DEF Phase, FailsAt, BrokerIs, BrokerStays, MissedStays,
       IInv, Shape, Typed, Forks, Records, Reaps, Succeeds, Kills, SessionIsKilled,
          BrokerIsReaped, Preparing, Killing, BrokerStages, ChildStages, BrokerRuns, ChildRuns,
          GaveUp, Done, NoRecord
<1>4. CASE ReadBrokerRecord
  <2>1. worker.at = "awaitBroker" /\ UNCHANGED <<broker, child, resultPipe, errorPipe>>
    BY <1>4, Zenon DEF ReadBrokerRecord, processVars
  <2>2. \/ FailsAt("killGroup")
        \/ resultPipe = "brokerReady" /\ Phase("awaitExec")
        \/ resultPipe \in {"createSession", "secondFork"} /\ FailsAt("reap")
    BY <1>4, <1>0, Phases, FailureSteps, Failures, Zenon DEF ReadBrokerRecord
  <2>3. MissedStays
    BY <1>4, <1>0, Zenon DEF ReadBrokerRecord, MissedStays
  <2> QED
    BY <2>1, <2>2, <2>3 DEF Phase, FailsAt, BrokerIs, BrokerStays, MissedStays,
       IInv, Shape, Typed, Forks, Records, Reaps, Succeeds, Kills, SessionIsKilled,
          BrokerIsReaped, Preparing, Killing, BrokerStages, ChildStages, BrokerRuns, ChildRuns,
          GaveUp, Done, NoRecord
<1>5. CASE ReadExecOutcome
  <2>1. worker.at = "awaitExec" /\ UNCHANGED <<broker, child, resultPipe, errorPipe>>
    BY <1>5, Zenon DEF ReadExecOutcome, processVars
  <2>2. \/ FailsAt("killGroup")
        \/ ErrorPipeEnds /\ Phase("reap")
        \/ errorPipe # NoRecord /\ FailsAt("reap")
    BY <1>5, <1>0, Phases, FailureSteps, Failures, Zenon DEF ReadExecOutcome, NoRecord
  <2>3. MissedStays
    BY <1>5, <1>0, Zenon DEF ReadExecOutcome, MissedStays
  <2> QED
    BY <2>1, <2>2, <2>3 DEF Phase, FailsAt, BrokerIs, BrokerStays, MissedStays, ErrorPipeEnds,
       IInv, Shape, Typed, Forks, Records, Reaps, Succeeds, Kills, SessionIsKilled,
          BrokerIsReaped, Preparing, Killing, BrokerStages, ChildStages, BrokerRuns, ChildRuns,
          GaveUp, Done, NoRecord
<1>6. CASE ReapBroker
  <2>1. worker.at = "reap" /\ UNCHANGED <<child, resultPipe, errorPipe>>
    BY <1>6, Zenon DEF ReapBroker, processVars
  <2>r. broker.at = "reaped" /\ BrokerStays => BrokerIs("reaped")
    BY <1>0 DEF Shape, BrokerIs, BrokerStays
  <2>2. \/ broker.at \in {"exited", "reaped"} /\ Phase("done") /\ BrokerIs("reaped")
        \/ FailsAt("killGroup") /\ (BrokerIs("reaped") \/ BrokerStays)
    BY <1>6, <1>0, Phases, FailureSteps, BrokerMoves, <2>r, Zenon DEF ReapBroker, BrokerStays
  <2>3. MissedStays
    BY <1>6, <1>0, Zenon DEF ReapBroker, MissedStays
  <2> QED
    BY <2>1, <2>2, <2>3 DEF Phase, FailsAt, BrokerIs, BrokerStays, MissedStays,
       IInv, Shape, Typed, Forks, Records, Reaps, Succeeds, Kills, SessionIsKilled,
          BrokerIsReaped, Preparing, Killing, BrokerStages, ChildStages, BrokerRuns, ChildRuns,
          GaveUp, Done, NoRecord
<1>7. CASE KillBroker
  <2>1. worker.at = "killBroker" /\ UNCHANGED <<child, resultPipe, errorPipe>>
    BY <1>7, Zenon DEF KillBroker, processVars
  <2>2. /\ Phase("waitBroker")
        /\ IF BrokerRuns THEN BrokerIs("killed") \/ BrokerIs("reaped") ELSE BrokerStays
    BY <1>7, <1>0, Phases, BrokerEnds, Zenon DEF KillBroker, KilledBroker, BrokerStays
  <2>3. MissedStays
    BY <1>7, <1>0, Zenon DEF KillBroker, MissedStays
  <2> QED
    BY <2>1, <2>2, <2>3 DEF Phase, FailsAt, BrokerIs, BrokerStays, MissedStays,
       IInv, Shape, Typed, Forks, Records, Reaps, Succeeds, Kills, SessionIsKilled,
          BrokerIsReaped, Preparing, Killing, BrokerStages, ChildStages, BrokerRuns, ChildRuns,
          GaveUp, Done, NoRecord
<1>8. CASE WaitBroker
  <2>1. worker.at = "waitBroker" /\ ~BrokerRuns /\ UNCHANGED <<child, resultPipe, errorPipe>>
    BY <1>8, Zenon DEF WaitBroker, processVars
  <2>2. /\ Phase("done")
        /\ IF broker.at \in {"exited", "killed"} THEN BrokerIs("reaped") ELSE BrokerStays
    BY <1>8, <1>0, Phases, BrokerMoves, Zenon DEF WaitBroker, Collected, BrokerStays
  <2>3. MissedStays
    BY <1>8, <1>0, Zenon DEF WaitBroker, MissedStays
  <2> QED
    BY <2>1, <2>2, <2>3 DEF Phase, FailsAt, BrokerIs, BrokerStays, MissedStays,
       IInv, Shape, Typed, Forks, Records, Reaps, Succeeds, Kills, SessionIsKilled,
          BrokerIsReaped, Preparing, Killing, BrokerStages, ChildStages, BrokerRuns, ChildRuns,
          GaveUp, Done, NoRecord
<1>9. CASE KillSession
  <2>1. worker.at = "killGroup" /\ UNCHANGED <<resultPipe, errorPipe>> /\ Phase("killBroker")
    BY <1>9, <1>0, Phases, Zenon DEF KillSession, SignalSession
  <2>2. missed' \in BOOLEAN /\ (missed' <=> broker.at = "started")
    BY <1>9, Zenon DEF KillSession, SignalSession
  <2>3. IF HasGroup THEN /\ IF BrokerRuns THEN BrokerIs("killed") \/ BrokerIs("reaped")
                            ELSE BrokerStays
                         /\ child' = IF ChildRuns THEN "killedByWorker" ELSE child
        ELSE BrokerStays /\ child' = child
    BY <1>9, <1>0, BrokerEnds, Zenon
       DEF KillSession, SignalSession, KilledBroker, KilledChild, BrokerStays
  <2> QED
    BY <2>1, <2>2, <2>3 DEF HasGroup, Phase, BrokerIs, BrokerStays,
       IInv, Shape, Typed, Forks, Records, Reaps, Succeeds, Kills, SessionIsKilled,
          BrokerIsReaped, Preparing, Killing, BrokerStages, ChildStages, BrokerRuns, ChildRuns,
          GaveUp, Done, NoRecord
<1> QED
  BY <1>1, <1>2, <1>3, <1>4, <1>5, <1>6, <1>7, <1>8, <1>9, Zenon DEF WorkerStep

(* The steps of the broker, of the child and of other programs.            *)
LEMMA OthersKeepIInv ==
    ASSUME IInv, BrokerStep \/ ChildStep \/ OthersKill
    PROVE  IInv'
<1>0. Shape /\ (missed \in BOOLEAN)
  BY Zenon DEF IInv
<1>1. MissedStays
  <2>1. missed' = missed
    BY Zenon DEF BrokerStep, ChildStep, OthersKill
  <2> QED
    BY <2>1, <1>0, Zenon DEF MissedStays
<1>2. CASE BrokerStep
  <2>1. UNCHANGED <<worker, errorPipe>>
    BY <1>2, Zenon DEF BrokerStep
  <2>2. \/ BrokerIs("session") /\ broker.at = "started" /\ UNCHANGED <<resultPipe, child>>
        \/ BrokerIs("forked") /\ broker.at = "session" /\ child' = "started" /\ UNCHANGED resultPipe
        \/ BrokerIs("reported") /\ broker.at = "forked" /\ resultPipe' = "brokerReady"
           /\ UNCHANGED child
        \/ /\ broker.at \in {"started", "session"} /\ (BrokerIs("exited") \/ BrokerIs("reaped"))
           /\ resultPipe' \in {"createSession", "secondFork"} /\ UNCHANGED child
        \/ /\ BrokerRuns /\ (BrokerIs("exited") \/ BrokerIs("killed") \/ BrokerIs("reaped"))
           /\ UNCHANGED <<resultPipe, child>>
    BY <1>2, <1>0, BrokerEnds, BrokerMoves, Zenon
    DEF BrokerStep, MakeSession, ForkChild, ReportReady, BrokerExits, BrokerFails, EndOfBroker,
        BrokerRuns, BrokerStages
  <2> QED
    BY <1>1, <2>1, <2>2 DEF BrokerIs, MissedStays,
       IInv, Shape, Typed, Forks, Records, Reaps, Succeeds, Kills, SessionIsKilled,
          BrokerIsReaped, Preparing, Killing, BrokerStages, ChildStages, BrokerRuns, ChildRuns,
          GaveUp, Done, NoRecord
<1>3. CASE ChildStep
  <2>1. UNCHANGED <<worker, broker, resultPipe>>
    BY <1>3, Zenon DEF ChildStep
  <2>2. \/ child = "started" /\ child' = "setup" /\ UNCHANGED errorPipe
        \/ child = "setup" /\ child' = "ready" /\ UNCHANGED errorPipe
        \/ child = "ready" /\ child' = "executed" /\ UNCHANGED errorPipe
        \/ child = "executed" /\ child' = "ended" /\ UNCHANGED errorPipe
        \/ child \in {"setup", "ready"} /\ child' = "failed" /\ errorPipe' # NoRecord
    BY <1>3, Zenon
       DEF ChildStep, CloseResultPipe, SetUp, Execute, ApplicationEnds,
           WriteRecordAndExit, NoRecord
  <2> QED
    BY <1>1, <2>1, <2>2 DEF MissedStays,
       IInv, Shape, Typed, Forks, Records, Reaps, Succeeds, Kills, SessionIsKilled,
          BrokerIsReaped, Preparing, Killing, BrokerStages, ChildStages, BrokerRuns, ChildRuns,
          GaveUp, Done, NoRecord
<1>4. CASE OthersKill
  <2>1. UNCHANGED <<worker, resultPipe, errorPipe>>
    BY <1>4, Zenon DEF OthersKill
  <2>2. \/ BrokerRuns /\ (BrokerIs("killed") \/ BrokerIs("reaped")) /\ UNCHANGED child
        \/ ChildRuns /\ child' = "killed" /\ BrokerStays
    BY <1>4, <1>0, BrokerEnds, Zenon DEF OthersKill, BrokerStays
  <2> QED
    BY <1>1, <2>1, <2>2 DEF MissedStays, BrokerIs, BrokerStays,
       IInv, Shape, Typed, Forks, Records, Reaps, Succeeds, Kills, SessionIsKilled,
          BrokerIsReaped, Preparing, Killing, BrokerStages, ChildStages, BrokerRuns, ChildRuns,
          GaveUp, Done, NoRecord
<1> QED
  BY <1>2, <1>3, <1>4

(* Every step; the deadline and the cancellation change no part of it.     *)
LEMMA StepKeepsIInv ==
    ASSUME IInv, [Next]_vars
    PROVE  IInv'
<1>1. CASE DeadlinePasses \/ RequestCancellation \/ UNCHANGED vars
  <2>1. UNCHANGED <<worker, broker, child, resultPipe, errorPipe>> /\ missed' = missed
    BY <1>1, Zenon DEF DeadlinePasses, RequestCancellation, vars, processVars
  <2>2. MissedStays
    BY <2>1, Zenon DEF IInv, MissedStays
  <2>3. UNCHANGED <<worker, broker, child, resultPipe, errorPipe>>
    BY <2>1, Zenon
  <2> QED
    BY <2>2, <2>3 DEF MissedStays,
       IInv, Shape, Typed, Forks, Records, Reaps, Succeeds, Kills, SessionIsKilled,
          BrokerIsReaped, Preparing, Killing, BrokerStages, ChildStages, BrokerRuns, ChildRuns,
          GaveUp, Done, NoRecord
<1> QED
  BY <1>1, WorkerKeepsIInv, OthersKeepIInv, Zenon DEF Next

(* The inductive invariant holds in every state.                           *)
THEOREM InductiveInvariant == Spec => []IInv
<1>1. Init => IInv
  <2> SUFFICES ASSUME Init PROVE IInv
    OBVIOUS
  <2>1. missed \in BOOLEAN /\ ~missed
    BY Zenon DEF Init
  <2> QED
    BY <2>1
       DEF Init, IInv, Shape, Typed, Forks, Records, Reaps, Succeeds, Kills,
           SessionIsKilled, BrokerIsReaped,
        BrokerRuns, BrokerStages, ChildRuns, ChildStages, GaveUp, Done, Preparing,
        Killing, NoRecord
<1>2. IInv /\ [Next]_vars => IInv'
  BY StepKeepsIInv
<1> QED
  BY <1>1, <1>2, PTL DEF Spec

(* A launch that failed leaves no broker, no child and no application      *)
(* running, unless the signal came before the session was made; and no     *)
(* launch leaves a zombie, whichever system call failed and whoever else   *)
(* killed (DetachedApplication.cpp:448-457).                               *)
THEOREM LaunchLeavesNothingBehind == Spec => []NothingIsLeftBehind
<1>1. IInv => NothingIsLeftBehind
  BY DEF IInv, NothingIsLeftBehind
<1> QED
  BY <1>1, InductiveInvariant, PTL

(* A launch that reports no error executed its application, or others      *)
(* killed it on the way (DetachedApplication.cpp:408).                     *)
THEOREM SuccessIsReal == Spec => []SuccessMeansExecuted
<1>1. IInv => SuccessMeansExecuted
  BY DEF IInv, Succeeds, SuccessMeansExecuted, Succeeded, Done
<1> QED
  BY <1>1, InductiveInvariant, PTL


-----------------------------------------------------------------------------
(* Recursion and induction over numbers, by their least counterexample.    *)

(* What holds of 0, and of every number up to N after one it holds of,     *)
(* holds up to N.                                                          *)
LEMMA UpTo ==
    ASSUME NEW N \in Nat, NEW T, 0 \in T, \A n \in 1..N : n - 1 \in T => n \in T
    PROVE  \A n \in 0..N : n \in T
<1> DEFINE R == OpToRel(<, Nat)
           Missing == {n \in 0..N : n \notin T}
<1>1. SUFFICES ASSUME Missing # {} PROVE FALSE
  OBVIOUS
<1>2. PICK m \in Missing : \A n \in Missing : ~ (<<n, m>> \in R)
  <2>1. IsWellFoundedOn(R, Nat)
    BY NatLessThanWellFounded, Zenon
  <2>2. Missing \subseteq Nat
    OBVIOUS
  <2> HIDE DEF R, Missing
  <2> QED BY <1>1, <2>1, <2>2, WFMin, Zenon
<1>3. m \in 1..N /\ m \notin T /\ m - 1 \in 0..N
  OBVIOUS
<1>4. m - 1 \notin Missing
  <2>1. <<m - 1, m>> \in R
    BY <1>3 DEF OpToRel
  <2> HIDE DEF R, Missing
  <2> QED BY <1>2, <2>1, Zenon
<1> QED BY <1>3, <1>4

(* A function may be defined by its value for 0 and by a step.             *)
Steps(N, V) == [(1..N) \X V -> V]
Obeys(f, N, base, step) == f[0] = base /\ \A i \in 1..N : f[i] = step[<<i, f[i - 1]>>]

(* There is such a function.                                               *)
LEMMA Recursion ==
    ASSUME NEW N \in Nat, NEW V, NEW base \in V, NEW step \in Steps(N, V)
    PROVE  \E f \in [0..N -> V] : Obeys(f, N, base, step)
<1> USE DEF Steps
<1> DEFINE Good(n, f) == /\ f[0] = base
                         /\ \A i \in 1..n : f[i] = step[<<i, f[i - 1]>>]
           T == {n \in 0..N : \E f \in [0..N -> V] : Good(n, f)}
<1>1. 0 \in T
  <2> DEFINE g == [i \in 0..N |-> base]
  <2>1. g \in [0..N -> V] /\ Good(0, g)
    OBVIOUS
  <2>2. 0 \in 0..N
    OBVIOUS
  <2> HIDE DEF g, Good
  <2> QED BY <2>1, <2>2
<1>2. ASSUME NEW n \in 1..N, n - 1 \in T PROVE n \in T
  <2>1. PICK f \in [0..N -> V] : Good(n - 1, f)
    BY <1>2
  <2> DEFINE v == step[<<n, f[n - 1]>>]
             g == [i \in 0..N |-> IF i = n THEN v ELSE f[i]]
  <2>2. v \in V
    OBVIOUS
  <2>3. g \in [0..N -> V] /\ g[0] = base
    BY <2>1, <2>2
  <2>4. ASSUME NEW i \in 1..n PROVE g[i] = step[<<i, g[i - 1]>>]
    <3>1. CASE i = n
      <4>1. g[i] = v /\ g[i - 1] = f[i - 1]
        BY <3>1
      <4> QED BY <3>1, <4>1
    <3>2. CASE i # n
      <4>1. i \in 1..(n - 1) /\ g[i] = f[i] /\ g[i - 1] = f[i - 1]
        BY <3>2
      <4> QED BY <2>1, <4>1
    <3> QED BY <3>1, <3>2
  <2> HIDE DEF g
  <2> QED BY <2>3, <2>4
<1>3. N \in T
  <2> HIDE DEF T
  <2> QED BY <1>1, <1>2, UpTo
<1> QED BY <1>3 DEF Obeys


(* Sequences put one after another are a sequence.                         *)
LEMMA Flattening ==
    ASSUME NEW R, NEW s \in Seq(Seq(R))
    PROVE  FlattenSeq(s) \in Seq(R)
<1> DEFINE N == Len(s)
           Rec(g) == g = [i \in 1..N |-> IF i = 1 THEN s[i] ELSE g[i - 1] \o s[i]]
           step == [x \in (1..N) \X Seq(R) |-> IF x[1] = 1 THEN s[x[1]] ELSE x[2] \o s[x[1]]]
           F == CHOOSE g : Rec(g)
<1>1. N \in Nat /\ (\A i \in 1..N : s[i] \in Seq(R)) /\ <<>> \in Seq(R)
  OBVIOUS
<1>2. CASE N = 0
  <2>1. FlattenSeq(s) = s
    BY <1>2 DEF FlattenSeq
  <2>2. s = <<>>
    BY <1>2
  <2> QED BY <2>1, <2>2
<1>3. CASE N # 0
  <2>1. Rec(F)
    <3>1. step \in Steps(N, Seq(R))
      BY <1>1 DEF Steps
    <3>2. PICK f \in [0..N -> Seq(R)] : Obeys(f, N, <<>>, step)
      <4> HIDE DEF step, N
      <4> QED BY <1>1, <3>1, Recursion, Zenon
    <3> DEFINE g == [i \in 1..N |-> f[i]]
    <3>3. ASSUME NEW i \in 1..N PROVE g[i] = IF i = 1 THEN s[i] ELSE g[i - 1] \o s[i]
      <4>1. f[i - 1] \in Seq(R)
        <5> HIDE DEF step, N
        <5> QED BY <1>1, <3>2
      <4>2. <<i, f[i - 1]>> \in (1..N) \X Seq(R)
        BY <4>1
      <4>3. f[i] = IF i = 1 THEN s[i] ELSE f[i - 1] \o s[i]
        BY <3>2, <4>2 DEF Obeys
      <4>4. i # 1 => i - 1 \in 1..N
        BY <1>1
      <4> HIDE DEF step, N
      <4> QED BY <4>3, <4>4
    <3>4. Rec(g)
      <4> HIDE DEF step, N
      <4> QED BY <3>3
    <3> HIDE DEF step, g
    <3> QED BY <3>4, Zenon
  <2>2. FlattenSeq(s) = F[N]
    <3> HIDE DEF Rec
    <3> QED BY <1>3 DEF FlattenSeq, Rec
  <2> DEFINE T == {n \in 0..N : n = 0 \/ F[n] \in Seq(R)}
  <2>3. ASSUME NEW n \in 1..N, n - 1 \in T PROVE n \in T
    <3>1. F[n] = IF n = 1 THEN s[n] ELSE F[n - 1] \o s[n]
      <4> HIDE DEF F, N, step
      <4> QED BY <2>1
    <3>2. n # 1 => F[n - 1] \in Seq(R)
      <4> HIDE DEF F, step
      <4> QED BY <2>3
    <3>3. F[n] \in Seq(R)
      <4>1. s[n] \in Seq(R)
        BY <1>1
      <4> HIDE DEF F, step, N
      <4> QED BY <3>1, <3>2, <4>1
    <3> HIDE DEF F
    <3> QED BY <3>3
  <2>4. N \in T
    <3>1. 0 \in T
      BY <1>1
    <3>2. \A n \in 0..N : n \in T
      <4> HIDE DEF T, F, N
      <4> QED BY <1>1, <2>3, <3>1, UpTo, Zenon
    <3>3. N \in 0..N
      BY <1>1
    <3> HIDE DEF T, F, N
    <3> QED BY <3>2, <3>3
  <2> HIDE DEF F
  <2> QED BY <1>3, <2>2, <2>4
<1> QED BY <1>2, <1>3

-----------------------------------------------------------------------------
(* The environment of a plan: one entry per name.                          *)

Named(entries) ==
    /\ \A k \in 1..Len(entries) : entries[k].name # ""
    /\ \A j, k \in 1..Len(entries) : entries[j].name = entries[k].name => j = k

(* The last place of a sequence that grew by one.                          *)
LEMMA OneMore ==
    ASSUME NEW m \in Nat
    PROVE  \A k \in 1..(m + 1) : k \in 1..m \/ k = m + 1
OBVIOUS

(* t is s and one more entry, and its names are apart.                     *)
Extended(s, e, t) ==
    /\ Len(t) = Len(s) + 1
    /\ \A k \in 1..Len(s) : t[k] = s[k]
    /\ t[Len(s) + 1] = e
    /\ Named(t)

(* An entry with a new name keeps the names apart.                         *)
LEMMA Adding ==
    ASSUME NEW E, NEW entries \in Seq(E), Named(entries), NEW entry \in E, entry.name # "",
           \A k \in 1..Len(entries) : entries[k].name # entry.name
    PROVE  Append(entries, entry) \in Seq(E) /\ Extended(entries, entry, Append(entries, entry))
<1> DEFINE s == Append(entries, entry)
<1>1. /\ s \in Seq(E) /\ Len(entries) \in Nat /\ Len(s) = Len(entries) + 1
      /\ \A k \in 1..Len(entries) : s[k] = entries[k]
      /\ s[Len(entries) + 1] = entry
  <2> HIDE DEF Named
  <2>1. Len(entries) \in Nat
    BY LenProperties, Zenon
  <2>2. /\ s \in Seq(E) /\ Len(s) = Len(entries) + 1
        /\ \A k \in 1..Len(entries) : s[k] = entries[k]
    BY AppendProperties, ZenonT(60)
  <2>3. s[Len(entries) + 1] = entry
    BY AppendProperties, ZenonT(60)
  <2> QED BY <2>1, <2>2, <2>3, Zenon
<1> HIDE DEF s
<1>2. \A k \in 1..Len(s) : k \in 1..Len(entries) \/ k = Len(entries) + 1
  BY <1>1, OneMore, Zenon
<1>3. \A k \in 1..Len(s) : s[k].name # ""
  BY <1>1, <1>2, Zenon DEF Named
<1>4. ASSUME NEW j \in 1..Len(s), NEW k \in 1..Len(s), s[j].name = s[k].name PROVE j = k
  BY <1>1, <1>2, <1>4, Zenon DEF Named
<1>5. Named(s)
  BY <1>3, <1>4, Zenon DEF Named
<1>6. Extended(entries, entry, s)
  BY <1>1, <1>5, Zenon DEF Extended
<1> QED BY <1>1, <1>6 DEF s

(* One turn of the loop that copies the environment.                       *)
Turn(c, entry, directory) ==
    IF entry.name # "PWD" THEN [c EXCEPT !.entries = Append(@, entry)]
    ELSE IF c.wrotePwd THEN c
    ELSE [entries |-> Append(c.entries, PwdEntry(directory)), wrotePwd |-> TRUE]
Copies(E) == [entries : Seq(E), wrotePwd : BOOLEAN]

(* It keeps the types ...                                                  *)
LEMMA TurnIsTyped ==
    ASSUME NEW E, NEW directory, PwdEntry(directory) \in E, NEW c \in Copies(E), NEW entry \in E
    PROVE  Turn(c, entry, directory) \in Copies(E)
BY DEF Turn, Copies

(* ... and the recursive Copied takes one turn per entry.                  *)
LEMMA CopiedTurnByTurn ==
    ASSUME NEW E, NEW environment \in Seq(E), NEW directory, PwdEntry(directory) \in E
    PROVE  LET C == Copied(environment, directory)
           IN  /\ C[0] = [entries |-> <<>>, wrotePwd |-> FALSE]
               /\ \A i \in 1..Len(environment) : C[i] = Turn(C[i - 1], environment[i], directory)
<1> DEFINE N == Len(environment)
           V == Copies(E)
           none == [entries |-> <<>>, wrotePwd |-> FALSE]
           Rec(g) == g = [n \in 0..Len(environment) |->
                            IF n = 0 THEN [entries |-> <<>>, wrotePwd |-> FALSE]
                            ELSE IF environment[n].name # "PWD"
                            THEN [g[n - 1] EXCEPT !.entries = Append(@, environment[n])]
                            ELSE IF g[n - 1].wrotePwd THEN g[n - 1]
                            ELSE [entries |-> Append(g[n - 1].entries, PwdEntry(directory)),
                                  wrotePwd |-> TRUE]]
           step == [x \in (1..N) \X V |-> Turn(x[2], environment[x[1]], directory)]
           C == Copied(environment, directory)
<1>1. N \in Nat /\ \A i \in 1..N : environment[i] \in E
  OBVIOUS
<1>2. none \in V
  BY DEF Copies
<1>3. ASSUME NEW g PROVE Rec(g) <=> g = [n \in 0..N |-> IF n = 0 THEN none
                                       ELSE Turn(g[n - 1], environment[n], directory)]
  BY Zenon DEF Turn
<1>4. Rec(C)
  <2>1. step \in Steps(N, V)
    <3>1. ASSUME NEW x \in (1..N) \X V PROVE Turn(x[2], environment[x[1]], directory) \in V
      <4>1. x[2] \in V /\ environment[x[1]] \in E
        <5> HIDE DEF V
        <5> QED BY <1>1
      <4> QED BY <4>1, TurnIsTyped, Zenon
    <3> HIDE DEF V, N
    <3> QED BY <3>1 DEF Steps
  <2>2. PICK f \in [0..N -> V] : Obeys(f, N, none, step)
    <3> HIDE DEF step, N, V, none
    <3> QED BY <1>1, <1>2, <2>1, Recursion, Zenon
  <2>3. ASSUME NEW n \in 0..N
        PROVE  f[n] = IF n = 0 THEN none ELSE Turn(f[n - 1], environment[n], directory)
    <3>1. CASE n = 0
      <4> HIDE DEF step, N, V, none
      <4> QED BY <2>2, <3>1 DEF Obeys
    <3>2. CASE n # 0
      <4>1. n \in 1..N /\ f[n - 1] \in V
        <5> HIDE DEF step, N, V
        <5> QED BY <1>1, <2>2, <3>2
      <4>2. <<n, f[n - 1]>> \in (1..N) \X V
        <5> HIDE DEF step, N, V
        <5> QED BY <4>1
      <4>3. step[<<n, f[n - 1]>>] = Turn(f[n - 1], environment[n], directory)
        <5> HIDE DEF N, V
        <5> QED BY <4>2
      <4>4. f[n] = step[<<n, f[n - 1]>>]
        <5> HIDE DEF N, V, step
        <5> QED BY <2>2, <4>1, Zenon DEF Obeys
      <4> HIDE DEF N, V, step, none
      <4> QED BY <3>2, <4>3, <4>4
    <3> QED BY <3>1, <3>2
  <2>4. Rec(f)
    <3>1. f = [n \in 0..N |-> IF n = 0 THEN none ELSE Turn(f[n - 1], environment[n], directory)]
      <4> HIDE DEF N, V, step, none
      <4> QED BY <2>2, <2>3
    <3> HIDE DEF Rec, N, V, step, none
    <3> QED BY <1>3, <3>1, Zenon
  <2> HIDE DEF step
  <2> QED BY <2>4, Zenon DEF Copied
<1>5. C = [n \in 0..N |-> IF n = 0 THEN none ELSE Turn(C[n - 1], environment[n], directory)]
  <2> HIDE DEF Rec, N, V, step, none
  <2> QED BY <1>3, <1>4, Zenon
<1>6. C[0] = none
  <2>1. 0 \in 0..N
    BY <1>1
  <2> HIDE DEF C, N, V, step, none
  <2> QED BY <1>5, <2>1
<1>7. ASSUME NEW i \in 1..N PROVE C[i] = Turn(C[i - 1], environment[i], directory)
  <2>1. i \in 0..N /\ i # 0
    BY <1>1
  <2> HIDE DEF C, N, V, step, none
  <2> QED BY <1>5, <2>1
<1> HIDE DEF C
<1> QED BY <1>6, <1>7 DEF C

(* What has been copied after n entries: the PWD, at most once, and other  *)
(* entries that were read.                                                 *)
Copy(E, environment, directory, c, n) ==
    /\ c \in Copies(E) /\ Named(c.entries)
    /\ \A k \in 1..Len(c.entries) :
           \/ c.wrotePwd /\ c.entries[k] = PwdEntry(directory)
           \/ c.entries[k].name # "PWD" /\ \E i \in 1..n : c.entries[k] = environment[i]
    /\ c.wrotePwd => \E k \in 1..Len(c.entries) : c.entries[k] = PwdEntry(directory)

(* The entry that is written is a PWD.                                     *)
LEMMA PwdIsNamed == ASSUME NEW directory PROVE PwdEntry(directory).name = "PWD"
BY DEF PwdEntry

(* No entry read later has a name that was copied.                         *)
LEMMA TurnKeepsCopy ==
    ASSUME NEW E, NEW environment \in Seq(E), ValidEnvironment(environment),
           NEW directory, PwdEntry(directory) \in E, NEW c, NEW n \in 1..Len(environment),
           Copy(E, environment, directory, c, n - 1)
    PROVE  Copy(E, environment, directory, Turn(c, environment[n], directory), n)
<1> DEFINE entry == environment[n]
           d == Turn(c, entry, directory)
           s == c.entries
<1>1. /\ entry \in E /\ entry.name # ""
      /\ \A i \in 1..(n - 1) : i \in 1..n /\ (environment[i].name = entry.name => entry.name = "PWD")
      /\ n \in 1..n
  <2>1. DOMAIN environment = 1..Len(environment) /\ Len(environment) \in Nat
    OBVIOUS
  <2>2. ASSUME NEW i \in 1..(n - 1) PROVE i \in 1..n /\ i \in 1..Len(environment) /\ i # n
    BY <2>1
  <2>3. entry \in E /\ n \in 1..n
    BY <2>1
  <2>4. /\ \A i \in 1..Len(environment) : environment[i].name # ""
        /\ \A i, j \in 1..Len(environment) :
              environment[i].name = environment[j].name /\ environment[i].name # "PWD" => i = j
    BY <2>1, Zenon DEF ValidEnvironment
  <2> QED BY <2>2, <2>3, <2>4, Zenon
<1>2. /\ c \in Copies(E) /\ s \in Seq(E) /\ c.wrotePwd \in BOOLEAN /\ Named(s)
      /\ \A k \in 1..Len(s) :
             \/ c.wrotePwd /\ s[k] = PwdEntry(directory)
             \/ s[k].name # "PWD" /\ \E i \in 1..(n - 1) : s[k] = environment[i]
      /\ c.wrotePwd => \E k \in 1..Len(s) : s[k] = PwdEntry(directory)
  <2>1. c \in Copies(E)
    BY Zenon DEF Copy
  <2>2. s \in Seq(E) /\ c.wrotePwd \in BOOLEAN
    BY <2>1 DEF Copies
  <2> QED BY <2>1, <2>2, Zenon DEF Copy
<1>3. d \in Copies(E)
  BY <1>1, <1>2, TurnIsTyped, Zenon
<1>4. \A k \in 1..Len(s) :
         \/ c.wrotePwd /\ s[k] = PwdEntry(directory)
         \/ s[k].name # "PWD" /\ \E i \in 1..n : s[k] = environment[i]
  BY <1>1, <1>2, Zenon
<1>5. CASE entry.name # "PWD"
  <2>1. d.entries = Append(s, entry) /\ (d.wrotePwd <=> c.wrotePwd)
    <3>1. d = [c EXCEPT !.entries = Append(@, entry)]
      BY <1>5, Zenon DEF Turn
    <3> HIDE DEF d
    <3> QED BY <1>2, <3>1 DEF Copies
  <2>2. \A k \in 1..Len(s) : s[k].name # entry.name
    BY <1>1, <1>2, <1>5, PwdIsNamed, Zenon
  <2> HIDE DEF d, s, entry
  <2>3. /\ Len(Append(s, entry)) = Len(s) + 1
        /\ \A k \in 1..Len(s) : Append(s, entry)[k] = s[k]
        /\ Append(s, entry)[Len(s) + 1] = entry
        /\ Named(Append(s, entry))
    <3>1. s \in Seq(E) /\ Named(s) /\ entry \in E /\ entry.name # ""
      BY <1>1, <1>2, Zenon
    <3>2. Extended(s, entry, Append(s, entry))
      BY <2>2, <3>1, Adding, Zenon
    <3> QED BY <3>2, Zenon DEF Extended
  <2>4. Len(s) \in Nat /\ (\A k \in 1..Len(s) : k \in 1..(Len(s) + 1))
    <3>1. Len(s) \in Nat
      BY <1>2, LenProperties, Zenon
    <3> QED BY <3>1, OneMore
  <2>5. \A k \in 1..Len(d.entries) :
           \/ d.wrotePwd /\ d.entries[k] = PwdEntry(directory)
           \/ d.entries[k].name # "PWD" /\ \E i \in 1..n : d.entries[k] = environment[i]
    <3>1. \A k \in 1..(Len(s) + 1) : k \in 1..Len(s) \/ k = Len(s) + 1
      BY <2>4, OneMore, Zenon
    <3>2. entry.name # "PWD" /\ \E i \in 1..n : entry = environment[i]
      BY <1>1, <1>5, Zenon DEF entry
    <3>3. ASSUME NEW k \in 1..Len(d.entries)
          PROVE  \/ d.entries[k] = s[k] /\ k \in 1..Len(s)
                 \/ d.entries[k] = entry
      BY <2>1, <2>3, <3>1, <3>3, Zenon
    <3> QED BY <1>4, <2>1, <3>2, <3>3, Zenon
  <2>6. d.wrotePwd => \E k \in 1..Len(d.entries) : d.entries[k] = PwdEntry(directory)
    BY <1>2, <2>1, <2>3, <2>4, Zenon
  <2> QED BY <1>3, <2>1, <2>3, <2>5, <2>6, Zenon DEF Copy, d, entry
<1>6. CASE entry.name = "PWD" /\ c.wrotePwd
  <2>1. d = c
    BY <1>6, Zenon DEF Turn
  <2> HIDE DEF d
  <2> QED BY <1>2, <1>4, <2>1, Zenon DEF Copy, d
<1>7. CASE entry.name = "PWD" /\ ~c.wrotePwd
  <2> DEFINE pwd == PwdEntry(directory)
  <2>1. d = [entries |-> Append(s, pwd), wrotePwd |-> TRUE]
    BY <1>7, Zenon DEF Turn
  <2>2. d.entries = Append(s, pwd) /\ d.wrotePwd
    <3> HIDE DEF d, pwd
    <3> QED BY <2>1
  <2>3. pwd.name = "PWD" /\ pwd.name # "" /\ \A k \in 1..Len(s) : s[k].name # pwd.name
    <3>1. "PWD" # ""
      OBVIOUS
    <3> QED BY <1>2, <1>7, <3>1, PwdIsNamed, Zenon
  <2> HIDE DEF d, s, entry, pwd
  <2>4. /\ Len(Append(s, pwd)) = Len(s) + 1
        /\ \A k \in 1..Len(s) : Append(s, pwd)[k] = s[k]
        /\ Append(s, pwd)[Len(s) + 1] = pwd
        /\ Named(Append(s, pwd))
    <3>1. pwd \in E
      BY DEF pwd
    <3>2. s \in Seq(E) /\ Named(s)
      BY <1>2, Zenon
    <3>3. pwd.name # "" /\ \A k \in 1..Len(s) : s[k].name # pwd.name
      BY <2>3, Zenon
    <3>4. Extended(s, pwd, Append(s, pwd))
      BY <3>1, <3>2, <3>3, Adding, Zenon
    <3> QED BY <3>4, Zenon DEF Extended
  <2>5. Len(s) + 1 \in 1..(Len(s) + 1)
    <3>1. Len(s) \in Nat
      BY <1>2, LenProperties, Zenon
    <3> QED BY <3>1
  <2>6. \A k \in 1..Len(d.entries) :
           \/ d.wrotePwd /\ d.entries[k] = pwd
           \/ d.entries[k].name # "PWD" /\ \E i \in 1..n : d.entries[k] = environment[i]
    <3>1. \A k \in 1..(Len(s) + 1) : k \in 1..Len(s) \/ k = Len(s) + 1
      <4>1. Len(s) \in Nat
        BY <1>2, LenProperties, Zenon
      <4> QED BY <4>1, OneMore, Zenon
    <3>2. ASSUME NEW k \in 1..Len(d.entries)
          PROVE  (d.entries[k] = s[k] /\ k \in 1..Len(s)) \/ d.entries[k] = pwd
      BY <2>2, <2>4, <3>1, <3>2, Zenon
    <3> QED BY <1>4, <1>7, <2>2, <3>2, Zenon
  <2>7. \E k \in 1..Len(d.entries) : d.entries[k] = pwd
    BY <2>2, <2>4, <2>5, Zenon
  <2> QED BY <1>3, <2>2, <2>4, <2>6, <2>7, Zenon DEF Copy, d, entry, pwd
<1> QED BY <1>2, <1>5, <1>6, <1>7, Zenon

(* The loop, and the entry added after it, write PWD exactly once.         *)
LEMMA PwdIsWritten ==
    ASSUME NEW R, NEW environment \in Seq(R), ValidEnvironment(environment), NEW directory
    PROVE  LET W == WithPwd(environment, directory)
           IN  /\ W \in Seq(R \cup {PwdEntry(directory)}) /\ Named(W)
               /\ \E k \in 1..Len(W) : W[k] = PwdEntry(directory)
<1> DEFINE E == R \cup {PwdEntry(directory)}
           N == Len(environment)
           C == Copied(environment, directory)
           T == {n \in 0..N : Copy(E, environment, directory, C[n], n)}
           W == WithPwd(environment, directory)
<1>1. environment \in Seq(E) /\ PwdEntry(directory) \in E /\ N \in Nat
  OBVIOUS
<1>2. /\ C[0] = [entries |-> <<>>, wrotePwd |-> FALSE]
      /\ \A i \in 1..N : C[i] = Turn(C[i - 1], environment[i], directory)
  <2> HIDE DEF E
  <2> QED BY <1>1, CopiedTurnByTurn
<1>3. Copy(E, environment, directory, C[N], N)
  <2>1. 0 \in T
    <3>1. Copy(E, environment, directory, [entries |-> <<>>, wrotePwd |-> FALSE], 0)
      BY DEF Copy, Copies, Named
    <3> HIDE DEF C, E, N
    <3> QED BY <1>1, <1>2, <3>1
  <2>2. ASSUME NEW n \in 1..N, n - 1 \in T PROVE n \in T
    <3>1. Copy(E, environment, directory, C[n - 1], n - 1)
      BY <2>2
    <3> HIDE DEF C, E
    <3>2. Copy(E, environment, directory, C[n], n)
      BY <1>1, <1>2, <3>1, TurnKeepsCopy, Zenon
    <3>3. n \in 0..N
      BY <1>1
    <3> QED BY <3>2, <3>3
  <2>3. \A n \in 0..N : n \in T
    <3> HIDE DEF T, N
    <3> QED BY <1>1, <2>1, <2>2, UpTo, Zenon
  <2>4. N \in 0..N
    BY <1>1
  <2> HIDE DEF C, E, N
  <2> QED BY <2>3, <2>4
<1> DEFINE c == C[N]
           s == c.entries
           pwd == PwdEntry(directory)
<1>4. s \in Seq(E) /\ Named(s) /\ c.wrotePwd \in BOOLEAN
  <2>1. c \in Copies(E)
    BY <1>3, Zenon DEF Copy
  <2> HIDE DEF c, E
  <2>2. s \in Seq(E) /\ c.wrotePwd \in BOOLEAN
    BY <2>1 DEF Copies
  <2> QED BY <1>3, <2>2, Zenon DEF Copy, c
<1>5. CASE c.wrotePwd
  <2>1. W = s
    BY <1>5, Zenon DEF WithPwd
  <2>2. \E k \in 1..Len(s) : s[k] = pwd
    BY <1>3, <1>5, Zenon DEF Copy
  <2> HIDE DEF W, s
  <2> QED BY <1>4, <2>1, <2>2, Zenon DEF W
<1>6. CASE ~c.wrotePwd
  <2>1. W = Append(s, pwd)
    BY <1>6, Zenon DEF WithPwd
  <2>2. \A k \in 1..Len(s) : s[k].name # pwd.name
    BY <1>3, <1>6, PwdIsNamed, Zenon DEF Copy
  <2>3. pwd.name # "" /\ pwd \in E
    BY PwdIsNamed
  <2> HIDE DEF W, s, pwd, E
  <2>4. s \in Seq(E) /\ Named(s)
    BY <1>4, Zenon
  <2>5. /\ Append(s, pwd) \in Seq(E) /\ Len(Append(s, pwd)) = Len(s) + 1
        /\ Append(s, pwd)[Len(s) + 1] = pwd /\ Named(Append(s, pwd))
    BY <2>2, <2>3, <2>4, Adding DEF Extended
  <2>6. Len(s) + 1 \in 1..(Len(s) + 1)
    <3>1. Len(s) \in Nat
      BY <1>4, LenProperties, Zenon
    <3> QED BY <3>1
  <2> QED BY <2>1, <2>5, <2>6, Zenon DEF W, E, pwd
<1> QED BY <1>4, <1>5, <1>6, Zenon

(* A normalized environment is what the process boundary asks for: named   *)
(* entries, each name once, and the working directory as PWD.              *)
ForTheBoundary(environment, directory) ==
    LET names == [n \in DOMAIN environment |-> environment[n].name]
    IN  /\ Len(environment) \in 1..MaxEnvironment
        /\ IsInjective(names) /\ "" \notin ToSet(names)
        /\ \E n \in DOMAIN names : environment[n] = PwdEntry(directory)

(* Whatever environment the shell inherited.                               *)
LEMMA EnvironmentIsAccepted ==
    ASSUME NEW R, NEW environment \in Seq(R), NEW directory,
           Ok(NormalizedEnvironment(environment, directory))
    PROVE  ForTheBoundary(NormalizedEnvironment(environment, directory).value, directory)
<1> DEFINE W == WithPwd(environment, directory)
           E == R \cup {PwdEntry(directory)}
           names == [n \in DOMAIN W |-> W[n].name]
<1>1. /\ ValidEnvironment(environment) /\ ~(Len(W) > MaxEnvironment)
      /\ NormalizedEnvironment(environment, directory) = Success(W)
  <2>1. Failure("too_large").error # "none" /\ Failure("invalid_environment").error # "none"
    BY DEF Failure
  <2> QED BY <2>1, Zenon DEF NormalizedEnvironment, Ok
<1>2. NormalizedEnvironment(environment, directory).value = W
  <2>1. Success(W).value = W
    BY DEF Success
  <2> QED BY <1>1, <2>1, Zenon
<1>3. W \in Seq(E) /\ Named(W) /\ \E k \in 1..Len(W) : W[k] = PwdEntry(directory)
  BY <1>1, PwdIsWritten, Zenon
<1> HIDE DEF W
<1>4. Len(W) \in Nat /\ DOMAIN W = 1..Len(W)
  BY <1>3, LenProperties, Zenon
<1>5. Len(W) \in 1..MaxEnvironment
  <2>1. PICK k \in 1..Len(W) : W[k] = PwdEntry(directory)
    BY <1>3, Zenon
  <2>2. k \in 1..Len(W) /\ MaxEnvironment \in Nat
    BY <2>1, LaunchAssumption
  <2> QED BY <1>1, <1>4, <2>2
<1>6. DOMAIN names = 1..Len(W) /\ \A k \in 1..Len(W) : names[k] = W[k].name
  BY <1>4, Zenon
<1> HIDE DEF names
<1>7. IsInjective(names)
  BY <1>3, <1>6, Zenon DEF IsInjective, Named
<1>8. "" \notin ToSet(names)
  BY <1>3, <1>6, ZenonT(60) DEF ToSet, Named
<1>9. \E n \in DOMAIN names : W[n] = PwdEntry(directory)
  BY <1>3, <1>6, Zenon
<1> QED BY <1>2, <1>5, <1>7, <1>8, <1>9, Zenon DEF ForTheBoundary, names

-----------------------------------------------------------------------------
(* The plan.                                                               *)

Arguments == [quoted : BOOLEAN, parts : Seq(STRING)]

(* What one argument expands to: nothing, one text, or --icon and a name.  *)
LEMMA AtMostTwo ==
    ASSUME NEW R, NEW y, y[1] \in R, y[2] \in R,
           y = <<>> \/ (\E a, b : y = <<a, b>>) \/ \E a : y = <<a>>
    PROVE  y \in Seq(R)
<1>1. CASE y = <<>>
  BY <1>1
<1>2. ASSUME NEW a, NEW b, y = <<a, b>> PROVE y \in Seq(R)
  <2>1. a \in R /\ b \in R
    BY <1>2
  <2> QED BY <1>2, <2>1
<1>3. ASSUME NEW a, y = <<a>> PROVE y \in Seq(R)
  <2>1. a \in R
    BY <1>3
  <2> QED BY <1>3, <2>1
<1> QED BY <1>1, <1>2, <1>3, Zenon

(* An Exec value that is parsed is expanded to a sequence of arguments.    *)
LEMMA ExpansionIsASequence ==
    ASSUME NEW e \in Entries, NEW location, Ok(ExpandDesktopExec(e, location))
    PROVE  \E R : ExpandDesktopExec(e, location).value \in Seq(R)
<1> DEFINE command == e.exec[1]
           parsed == ParseExec(command)
           x(n) == ExpandArgument(e, location, command[n])
           s == [n \in DOMAIN command |-> x(n)]
           R == {ExpandArgument(e, location, command[n])[k] : n \in DOMAIN command, k \in {1, 2}}
<1>1. \A error : Failure(error).error = error
  BY DEF Failure
<1>2. \A value : Success(value).value = value
  BY DEF Success
<1>3. /\ e.exec # Absent /\ Ok(parsed)
      /\ ExpandDesktopExec(e, location).value =
           FlattenSeq([n \in DOMAIN parsed.value |-> ExpandArgument(e, location, parsed.value[n])])
  <2>1. "unsupported" # "none" /\ "validation_error" # "none" /\ "too_large" # "none"
    OBVIOUS
  <2> HIDE DEF parsed
  <2> QED BY <1>1, <1>2, <2>1, Zenon DEF ExpandDesktopExec, Ok, parsed, command
<1>4. parsed.value = command
  <2>1. "validation_error" # "none" /\ "too_large" # "none"
    OBVIOUS
  <2> HIDE DEF command
  <2> QED BY <1>1, <1>2, <1>3, <2>1, Zenon DEF ParseExec, Ok
<1>5. command \in Seq(Arguments)
  BY <1>3, LaunchAssumption, Zenon DEF Arguments
<1>6. s \in Seq(Seq(R))
  <2>1. ASSUME NEW n \in DOMAIN command PROVE x(n) \in Seq(R)
    <3>1. \/ x(n) = <<>> \/ (\E a, b : x(n) = <<a, b>>) \/ \E a : x(n) = <<a>>
      BY Zenon DEF ExpandArgument
    <3>2. x(n)[1] \in R /\ x(n)[2] \in R
      OBVIOUS
    <3> HIDE DEF R, x
    <3> QED BY <3>1, <3>2, AtMostTwo, Zenon
  <2>2. DOMAIN command = 1..Len(command) /\ Len(command) \in Nat
    BY <1>5, LenProperties, Zenon
  <2> HIDE DEF x, R, command
  <2> QED BY <2>1, <2>2
<1>7. FlattenSeq(s) \in Seq(R)
  <2> HIDE DEF s, R
  <2> QED BY <1>6, Flattening
<1>8. ExpandDesktopExec(e, location).value = FlattenSeq(s)
  <2> HIDE DEF parsed, command
  <2> QED BY <1>3, <1>4, Zenon DEF s, x
<1> HIDE DEF s, R
<1> QED BY <1>7, <1>8, Zenon

(* What comes first stays first.                                           *)
LEMMA FirstStaysFirst ==
    ASSUME NEW Z, NEW a \in Z, NEW s \in Seq(Z), NEW t \in Seq(Z)
    PROVE  (<<a>> \o s \o t)[1] = a
<1> DEFINE u == <<a>>
           v == u \o s
<1>1. u \in Seq(Z) /\ Len(u) = 1 /\ u[1] = a
  OBVIOUS
<1> HIDE DEF u
<1>2. /\ v \in Seq(Z) /\ Len(v) = 1 + Len(s) /\ Len(s) \in Nat
      /\ \A i \in 1..(Len(u) + Len(s)) : v[i] = IF i <= Len(u) THEN u[i] ELSE s[i - Len(u)]
  <2>1. Len(s) \in Nat
    BY LenProperties, Zenon
  <2>2. /\ v \in Seq(Z) /\ Len(v) = Len(u) + Len(s)
        /\ \A i \in 1..(Len(u) + Len(s)) :
              v[i] = IF i <= Len(u) THEN u[i] ELSE s[i - Len(u)]
    BY <1>1, ConcatProperties, Zenon
  <2> QED BY <1>1, <2>1, <2>2, Zenon
<1>3. v[1] = a
  <2> HIDE DEF v
  <2> QED BY <1>1, <1>2
<1>4. /\ Len(t) \in Nat
      /\ \A i \in 1..(Len(v) + Len(t)) : (v \o t)[i] = IF i <= Len(v) THEN v[i] ELSE t[i - Len(v)]
  <2>1. v \in Seq(Z)
    BY <1>2, Zenon
  <2> HIDE DEF v
  <2> QED BY <2>1, ConcatProperties, LenProperties
<1>5. (v \o t)[1] = v[1]
  <2> HIDE DEF v
  <2>1. 1 \in 1..(Len(v) + Len(t)) /\ 1 <= Len(v)
    BY <1>2, <1>4
  <2> QED BY <1>4, <2>1
<1> QED BY <1>3, <1>5, Zenon DEF u, v

(* A plan that is made passes the checks of the process boundary.          *)
LEMMA PlanIsValid ==
    ASSUME NEW e \in Entries, NEW R, NEW argv \in Seq(R), NEW c \in Contexts,
           Ok(MakeProcessLaunchPlan(e, argv, c, Programs))
    PROVE  ValidPlan(MakeProcessLaunchPlan(e, argv, c, Programs).value)
<1> DEFINE directory   == WorkingDirectory(e, c)
           environment == NormalizedEnvironment(c.environment, directory)
           program     == LookupDesktopExecutable(Programs, argv[1][1])
           terminal    == LookupDesktopExecutable(Programs, c.terminal[1].executable)
           application == [argv EXCEPT ![1] = program.value]
           executable  == IF e.terminal THEN terminal.value ELSE program.value
           arguments   == IF e.terminal
                          THEN <<terminal.value>> \o c.terminal[1].arguments \o application
                          ELSE application
           planned     == [executable |-> executable, argv |-> arguments,
                           environment |-> environment.value, workingDirectory |-> directory]
           plan        == MakeProcessLaunchPlan(e, argv, c, Programs)
<1>1. /\ ~(e.terminal /\ c.terminal = Absent) /\ argv # <<>> /\ Ok(environment)
      /\ FitsEnvelope(planned) /\ plan = Success(planned)
  <2>1. /\ Failure("unsupported").error # "none" /\ Failure("too_large").error # "none"
        /\ Failure("invalid_argument").error # "none"
    BY DEF Failure
  <2> QED BY <2>1, Zenon DEF MakeProcessLaunchPlan, Ok
<1>2. ForTheBoundary(environment.value, directory)
  <2>1. c.environment \in Seq([name : STRING, value : Seq(STRING)])
    BY LaunchAssumption, Zenon
  <2> HIDE DEF directory
  <2> QED BY <1>1, <2>1, EnvironmentIsAccepted, Zenon
<1>3. arguments[1] = executable
  <2> DEFINE a == program.value
             Z == R \cup {a, terminal.value} \cup Seq(STRING)
  <2>1. application \in Seq(R \cup {a}) /\ application[1] = a
    <3>1. argv # <<>> /\ application = [argv EXCEPT ![1] = a]
      BY <1>1, Zenon
    <3> HIDE DEF a, application
    <3> QED BY <3>1
  <2>2. CASE ~e.terminal
    BY <2>1, <2>2, Zenon
  <2>3. CASE e.terminal
    <3>1. c.terminal[1].arguments \in Seq(Seq(STRING))
      BY <1>1, <2>3, LaunchAssumption, Zenon
    <3>2. /\ terminal.value \in Z /\ R \cup {a} \subseteq Z /\ Seq(STRING) \subseteq Z
      OBVIOUS
    <3> HIDE DEF Z, a, application, terminal
    <3>3. application \in Seq(Z) /\ c.terminal[1].arguments \in Seq(Z)
      BY <2>1, <3>1, <3>2
    <3>4. (<<terminal.value>> \o c.terminal[1].arguments \o application)[1] = terminal.value
      BY <3>2, <3>3, FirstStaysFirst
    <3> QED BY <2>3, <3>4, Zenon
  <2> QED BY <2>2, <2>3
<1>4. plan.value = planned
  <2>1. Success(planned).value = planned
    BY Zenon DEF Success
  <2> QED BY <1>1, <2>1, Zenon
<1> HIDE DEF executable, arguments, environment, directory
<1>5. /\ planned.executable = executable /\ planned.argv = arguments
      /\ planned.environment = environment.value /\ planned.workingDirectory = directory
  OBVIOUS
<1> HIDE DEF planned
<1> QED BY <1>1, <1>2, <1>3, <1>4, <1>5, Zenon DEF ValidPlan, ForTheBoundary

(* The process boundary refuses no plan that was made, with rules of its   *)
(* own for the arguments, the environment and PWD, whatever the entry, the *)
(* inherited environment, the terminal and the programs are                *)
(* (ProcessLaunch.cpp:248, DetachedApplication.cpp:93).                    *)
THEOREM BoundaryAcceptsPlans == Spec => []PlansAreAccepted
<1> DEFINE Chosen == \E e \in Entries : \E c \in Contexts : launch = LaunchOf(e, c)
<1>1. Init => Chosen
  BY DEF Init
<1>2. Chosen /\ [Next]_vars => Chosen'
  <2>1. [Next]_vars => launch' = launch
    BY Zenon DEF Next, vars, outsideVars, WorkerStep, BrokerStep, ChildStep, DeadlinePasses,
       RequestCancellation, OthersKill, PrepareInvocation, PrepareLaunch, ForkBroker,
       ReadBrokerRecord, ReadExecOutcome, ReapBroker, KillSession, KillBroker, WaitBroker
  <2> QED BY <2>1, Zenon
<1>3. Chosen => PlansAreAccepted
  <2> SUFFICES ASSUME NEW e \in Entries, NEW c \in Contexts, launch = LaunchOf(e, c),
                      Ok(launch.plan)
               PROVE  launch.accepted
    BY Zenon DEF PlansAreAccepted
  <2> DEFINE argv == ExpandDesktopExec(e, FileLocation)
             plan == IF Ok(argv) THEN MakeProcessLaunchPlan(e, argv.value, c, Programs) ELSE argv
  <2>3. launch.plan = plan /\ launch.accepted = (Ok(plan) /\ ValidPlan(plan.value))
    <3>1. launch = [entry |-> e, context |-> c, argv |-> argv, plan |-> plan,
                    accepted |-> Ok(plan) /\ ValidPlan(plan.value)]
      BY Zenon DEF LaunchOf
    <3> DEFINE accepted == Ok(plan) /\ ValidPlan(plan.value)
    <3> HIDE DEF plan, argv, accepted
    <3> QED BY <3>1 DEF accepted
  <2>4. Ok(plan)
    <3> HIDE DEF plan
    <3> QED BY <2>3, Zenon
  <2>5. Ok(argv) /\ plan = MakeProcessLaunchPlan(e, argv.value, c, Programs)
    BY <2>4, Zenon
  <2>6. PICK R : argv.value \in Seq(R)
    BY <2>5, ExpansionIsASequence, Zenon
  <2> HIDE DEF argv, plan
  <2>7. ValidPlan(plan.value)
    BY <2>4, <2>5, <2>6, PlanIsValid, Zenon
  <2> QED BY <2>3, <2>4, <2>7, Zenon
<1> QED BY <1>1, <1>2, <1>3, PTL DEF Spec

==============================================================================
