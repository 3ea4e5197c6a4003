------------------------ MODULE SettingsDaemonProofs ------------------------
(***************************************************************************)
(* Proofs about the two parts of the settings daemon.                      *)
(*                                                                         *)
(* SettingsService, for every set of clients and every number of           *)
(* generations, epochs and calls: the two threads agree about the slot, no *)
(* notification or wakeup is lost, every call is answered at most once,    *)
(* and the service implements SettingsAuthority.                           *)
(*                                                                         *)
(* SettingsEngine, for every user file, theme and packaged default: what   *)
(* the last known valid file holds, which themes go with the snapshot, and *)
(* that the shell can read it, however often files change, calls fail and  *)
(* power goes.                                                             *)
(***************************************************************************)
EXTENDS SettingsService, SettingsEngine, SequenceTheorems, TLAPS


-----------------------------------------------------------------------------
(* The inductive invariant of the service.                                 *)

(* There is a worker object, from the engine's start to the join.          *)
Exists == dispatch \notin {"starting", "exited"}

(* The phases of an epoch: who runs, who is named, who may hold a call.    *)
Phases ==
    /\ ~Exists => worker = "exited" /\ ~named
    /\ dispatch = "naming" =>
           /\ ~named /\ ~stopping /\ current = 1
           /\ job = None /\ hand = None /\ completion = None /\ taken = None
    /\ Serving => ~stopping
    /\ dispatch \in {"wake", "join"} => stopping /\ job = None
    /\ pendingCall # NoCall => Serving \/ dispatch = "reject"

(* The places a job may be in exclude each other, and the program counters *)
(* say which of them are taken.                                            *)
OnePlace ==
    Exists =>
        /\ hand # None <=> Processing
        /\ taken # None => dispatch \in {"match", "emit", "answer", "reject"}
        /\ dispatch \in {"match", "emit", "answer"} => taken # None
        /\ job # None => hand = None /\ completion = None /\ taken = None
        /\ hand # None => completion = None /\ taken = None
        /\ completion # None => taken = None

(* SlotIsPendingCall, place by place.                                      *)
PlaceOfCall ==
    Serving =>
        /\ \A w \in {job, hand, completion, taken} :
               w # None => pendingCall # NoCall /\ w.id = pendingId
        /\ pendingCall # NoCall => \E w \in {job, hand, completion, taken} : w # None

(* The snapshot in use is the engine's, but for a publication on its way.  *)
Installed ==
    Exists =>
        /\ worker = "commit" => hand.gen = engineGen
        /\ engineGen = IF worker = "commit" /\ hand.result = "published"
                       THEN current + 1 ELSE current

(* A result that the clients have not been told of.                        *)
Unannounced(w) ==
    IF w.result = "published" THEN w.gen = current /\ announced + 1 = current
                              ELSE announced = current

(* A generation is announced before the next job is accepted.              *)
AnnouncedFirst ==
    Exists =>
        /\ job # None \/ hand # None => announced = current
        /\ Serving /\ pendingCall = NoCall => announced = current
        /\ completion # None => Unannounced(completion)
        /\ dispatch = "match" => Unannounced(taken)
        /\ dispatch = "emit" => Unannounced(taken) /\ taken.result = "published"
        /\ dispatch = "answer" => announced = current

(* Calls and replies: a call that is open has no reply, a service without  *)
(* a name has no open calls, and the call it still owes a reply is held.   *)
OpenCalls ==
    /\ named => busUp
    /\ \A c \in Client :
        /\ call[c] \in {"sent", "held"} => named /\ replies[c] = 0
        /\ replies[c] <= 1
        /\ Serving /\ busUp => (call[c] = "held" <=> pendingCall = c)
        /\ dispatch = "reject" /\ busUp /\ pendingCall = c => call[c] = "held"

IInv ==
    /\ TypeOK /\ NoLostCompletion /\ NoLostWakeup
    /\ Phases /\ OnePlace /\ PlaceOfCall /\ Installed /\ AnnouncedFirst /\ OpenCalls

-----------------------------------------------------------------------------
(* The flags stay flags.                                                   *)
LEMMA FlagsKept == Flags /\ [ServiceNext]_serviceVars => Flags'
  BY Zenon DEF Flags, ServiceNext, Dispatch, Worker, Environment, Stopped, serviceVars, dispatchVars,
               lockedVars, workerVars, busVars, clientVars, StartEngine, SkipEpoch, RequestName,
               CheckStop, Process, Poll, DrainNotification, TakeCompletion, MatchCompletion,
               Emit, AnswerCompletion, RejectPending, StopWorker, WakeWorker, JoinWorker,
               CheckWork, Execute, Commit, NotifyCompletion, Calls, RequestStop, BusDrops,
               SpuriousWakeup, Crash, Relaunch

(* The dispatch thread at the two ends of an epoch.                        *)
LEMMA EpochKeepsIInv ==
    ASSUME IInv, Flags', StartEngine \/ SkipEpoch \/ RequestName \/ RejectPending
                         \/ StopWorker \/ WakeWorker \/ JoinWorker
    PROVE  IInv'
<1> USE ServiceAssumption
    DEF IInv, TypeOK, NoLostCompletion, NoLostWakeup, Phases, OnePlace, PlaceOfCall, Installed,
        AnnouncedFirst, Unannounced, OpenCalls, Serving, Exists, Processing, None, Work, Method,
        Result, Leave, lockedVars, workerVars, busVars, clientVars
<1>1. CASE StartEngine
  BY <1>1 DEF StartEngine
<1>2. CASE SkipEpoch
  BY <1>2 DEF SkipEpoch
<1>3. CASE RequestName
  BY <1>3 DEF RequestName
<1>4. CASE RejectPending
  BY <1>4 DEF RejectPending, Reply
<1>5. CASE StopWorker
  BY <1>5 DEF StopWorker
<1>6. CASE WakeWorker
  BY <1>6 DEF WakeWorker
<1>7. CASE JoinWorker
  BY <1>7 DEF JoinWorker, Abandoned
<1> QED
  BY <1>1, <1>2, <1>3, <1>4, <1>5, <1>6, <1>7

(* The dispatch thread in its loop.  A call enters the slot only when all  *)
(* four places are free, and leaves it with the completion.                *)
LEMMA LoopKeepsIInv ==
    ASSUME IInv, Flags', CheckStop \/ Process \/ Poll \/ DrainNotification \/ TakeCompletion
                         \/ MatchCompletion \/ Emit \/ AnswerCompletion
    PROVE  IInv'
<1> USE ServiceAssumption
    DEF IInv, TypeOK, NoLostCompletion, NoLostWakeup, Phases, OnePlace, PlaceOfCall, Installed,
        AnnouncedFirst, Unannounced, OpenCalls, Serving, Exists, Processing, None, Work, Method,
        Result, Leave, dispatchVars, lockedVars, workerVars, busVars, clientVars
<1>1. CASE CheckStop
  BY <1>1 DEF CheckStop
<1>2. CASE Process
  BY <1>2 DEF Process, AnswerAtOnce, Submit, SlotFree, TrySubmit, Reply
<1>3. CASE Poll
  BY <1>3 DEF Poll
<1>4. CASE DrainNotification
  BY <1>4 DEF DrainNotification
<1>5. CASE TakeCompletion
  BY <1>5 DEF TakeCompletion
<1>6. CASE MatchCompletion
  BY <1>6 DEF MatchCompletion, Matches
<1>7. CASE Emit
  BY <1>7 DEF Emit
<1>8. CASE AnswerCompletion
  BY <1>8 DEF AnswerCompletion, Reply
<1> QED
  BY <1>1, <1>2, <1>3, <1>4, <1>5, <1>6, <1>7, <1>8

(* The worker.  Its job moves from one place to the next.                  *)
LEMMA WorkerKeepsIInv ==
    ASSUME IInv, Flags', Worker
    PROVE  IInv'
<1> USE ServiceAssumption
    DEF IInv, TypeOK, NoLostCompletion, NoLostWakeup, Phases, OnePlace, PlaceOfCall, Installed,
        AnnouncedFirst, Unannounced, OpenCalls, Serving, Exists, Processing, None, Work, Method,
        Result, Leave, dispatchVars, lockedVars, workerVars, busVars, clientVars
<1>1. CASE CheckWork
  BY <1>1 DEF CheckWork
<1>2. CASE Execute
  BY <1>2 DEF Execute, Computes
<1>3. CASE Commit
  BY <1>3 DEF Commit
<1>4. CASE NotifyCompletion
  BY <1>4 DEF NotifyCompletion
<1> QED
  BY <1>1, <1>2, <1>3, <1>4 DEF Worker

(* Clients, signals, the bus, and the supervisor that launches the daemon  *)
(* again.                                                                  *)
LEMMA EnvironmentKeepsIInv ==
    ASSUME IInv, Flags', Environment
    PROVE  IInv'
<1> USE ServiceAssumption
    DEF IInv, TypeOK, NoLostCompletion, NoLostWakeup, Phases, OnePlace, PlaceOfCall, Installed,
        AnnouncedFirst, Unannounced, OpenCalls, Serving, Exists, Processing, None, Work, Method,
        Result, Leave, dispatchVars, lockedVars, workerVars, busVars, clientVars
<1>1. CASE \E c \in Client, method \in Method : Calls(c, method)
  BY <1>1 DEF Calls
<1>2. CASE RequestStop
  BY <1>2 DEF RequestStop
<1>3. CASE BusDrops
  BY <1>3 DEF BusDrops, Abandoned
<1>4. CASE SpuriousWakeup
  BY <1>4 DEF SpuriousWakeup
<1>5. CASE Crash
  BY <1>5 DEF Crash, Abandoned
<1>6. CASE Relaunch
  BY <1>6 DEF Relaunch
<1> QED
  BY <1>1, <1>2, <1>3, <1>4, <1>5, <1>6 DEF Environment

(* Every step keeps the invariant.                                         *)
LEMMA StepKeepsIInv == IInv /\ [ServiceNext]_serviceVars => IInv'
<1> SUFFICES ASSUME IInv, [ServiceNext]_serviceVars PROVE IInv'
  OBVIOUS
<1>1. Flags'
  BY FlagsKept DEF IInv, TypeOK
<1>2. CASE Dispatch
  BY <1>1, <1>2, EpochKeepsIInv, LoopKeepsIInv DEF Dispatch
<1>3. CASE Worker
  BY <1>1, <1>3, WorkerKeepsIInv
<1>4. CASE Environment
  BY <1>1, <1>4, EnvironmentKeepsIInv
<1>5. CASE UNCHANGED serviceVars
  BY <1>5 DEF serviceVars, dispatchVars, lockedVars, workerVars, busVars, clientVars, IInv, TypeOK, Flags,
              NoLostCompletion, NoLostWakeup, Phases, OnePlace, PlaceOfCall, Installed, AnnouncedFirst,
              Unannounced, OpenCalls, Serving, Exists, Processing
<1> QED
  BY <1>2, <1>3, <1>4, <1>5 DEF ServiceNext, Stopped

(* From the construction of the daemon on, whatever the threads, the       *)
(* clients, the bus and the signals do.                                    *)
THEOREM InductiveInvariant == ServiceSpec => []IInv
<1>1. ServiceInit => Flags
  BY Zenon DEF ServiceInit, Flags
<1>2. ServiceInit => IInv
  BY <1>1, ServiceAssumption
     DEF ServiceInit, IInv, TypeOK, NoLostCompletion, NoLostWakeup, Phases, OnePlace, PlaceOfCall,
         Installed, AnnouncedFirst, OpenCalls, Serving, Exists, None, Work, Method, Result
<1> QED
  BY <1>2, StepKeepsIInv, PTL DEF ServiceSpec

-----------------------------------------------------------------------------
(* What the invariant says about the slot as a set.                        *)
LEMMA OneJobInTheSlot == IInv => SlotIsPendingCall
<1> SUFFICES ASSUME IInv, Serving
             PROVE  IF pendingCall = NoCall THEN Slot = {}
                    ELSE \E w \in Slot : Slot = {w} /\ w.id = pendingId
  BY DEF SlotIsPendingCall
<1>1. Exists /\ OnePlace /\ PlaceOfCall
  BY DEF IInv, Exists, Serving
<1>2. \A v, w \in Slot : v = w
  BY <1>1 DEF Slot, OnePlace
<1>3. \A w \in Slot : pendingCall # NoCall /\ w.id = pendingId
  BY <1>1 DEF Slot, PlaceOfCall
<1>4. pendingCall # NoCall => \E w \in Slot : TRUE
  BY <1>1 DEF Slot, PlaceOfCall
<1> QED
  BY <1>2, <1>3, <1>4

(* Neither a completion nor a wakeup is lost, and the slot holds the job   *)
(* of the retained call and no other, however the two threads interleave.  *)
THEOREM ThreadsAgree == ServiceSpec => []ServiceInvariant
<1>1. IInv => ServiceInvariant
  BY OneJobInTheSlot DEF IInv, ServiceInvariant
<1> QED
  BY <1>1, InductiveInvariant, PTL

(* No call is answered twice, and the one that is retained is owed its     *)
(* reply.                                                                  *)
THEOREM CallsAnsweredOnce == ServiceSpec => []AnsweredOnce
<1>1. IInv => AnsweredOnce
  BY DEF IInv, OpenCalls, AnsweredOnce
<1> QED
  BY <1>1, InductiveInvariant, PTL

-----------------------------------------------------------------------------
(* The refinement.  Four steps are seen by clients: the name is acquired,  *)
(* a generation is installed, it is announced, the name is lost.           *)
LEMMA NameIsAcquired == ASSUME IInv, RequestName
                        PROVE  Authority!Acquire \/ UNCHANGED Authority!authorityVars
  BY DEF IInv, Phases, RequestName, lockedVars, Authority!Acquire, Authority!authorityVars

(* The snapshot is installed only when its predecessor was announced.      *)
LEMMA GenerationIsPublished == ASSUME IInv, Commit
                               PROVE  Authority!Publish \/ UNCHANGED Authority!authorityVars
<1>1. Processing /\ hand # None /\ Exists /\ current \in Nat /\ engineGen \in 0..MaxGeneration
      /\ MaxGeneration \in Nat
  BY ServiceAssumption DEF IInv, TypeOK, Phases, OnePlace, Commit, Processing
<1>2. announced = current /\ hand.gen = engineGen
      /\ engineGen = IF hand.result = "published" THEN current + 1 ELSE current
  BY <1>1 DEF IInv, Installed, AnnouncedFirst, Commit
<1>3. /\ current' = IF hand.result \in {"published", "unchanged"} THEN hand.gen ELSE current
      /\ UNCHANGED <<named, epoch, announced>>
  BY DEF Commit, busVars
<1> QED
  BY <1>1, <1>2, <1>3 DEF Authority!Publish, Authority!authorityVars

(* What is announced is the snapshot in use, and was not announced before. *)
LEMMA GenerationIsAnnounced == ASSUME IInv, Emit
                               PROVE  Authority!Announce \/ UNCHANGED Authority!authorityVars
<1>1. taken.gen = current /\ announced + 1 = current /\ announced \in Nat
  BY ServiceAssumption DEF IInv, TypeOK, AnnouncedFirst, Unannounced, Exists, Emit
<1>2. announced' \in {taken.gen, announced} /\ UNCHANGED <<named, epoch, current>>
  BY DEF Emit, lockedVars
<1> QED
  BY <1>1, <1>2 DEF Authority!Announce, Authority!authorityVars

(* The name goes with the worker, the bus or the process.                  *)
LEMMA NameIsLost == ASSUME IInv, JoinWorker \/ BusDrops \/ Crash
                    PROVE  Authority!Lose \/ UNCHANGED Authority!authorityVars
<1>1. named' = FALSE
  BY Zenon DEF JoinWorker, BusDrops, Crash
<1>2. UNCHANGED epoch
  BY Zenon DEF JoinWorker, BusDrops, Crash
<1>3. CASE named
  <2>1. (IF named THEN current ELSE 0)' = 0 /\ (IF named THEN announced ELSE 0)' = 0
    BY <1>1
  <2> QED
    BY <1>1, <1>2, <1>3, <2>1 DEF Authority!Lose
<1>4. CASE ~named
  <2>1. named' = named
    BY <1>1, <1>4, Zenon DEF IInv, TypeOK, Flags
  <2> QED
    BY <1>1, <1>2, <1>4, <2>1 DEF Authority!authorityVars
<1> QED
  BY <1>3, <1>4

(* Nobody sees the other steps: without a name the snapshot may change.    *)
LEMMA OthersAreSilent ==
    ASSUME IInv, [ServiceNext]_serviceVars, ~RequestName, ~Commit, ~Emit, ~(JoinWorker \/ BusDrops \/ Crash)
    PROVE  UNCHANGED Authority!authorityVars
<1>1. CASE Dispatch
  BY <1>1 DEF Dispatch, StartEngine, SkipEpoch, CheckStop, Process, Poll, DrainNotification,
              TakeCompletion, MatchCompletion, AnswerCompletion, RejectPending, StopWorker,
              WakeWorker, lockedVars, busVars, IInv, Phases, Exists, Authority!authorityVars
<1>2. CASE Worker \/ Environment
  BY <1>2 DEF Worker, CheckWork, Execute, NotifyCompletion, Environment, Calls, RequestStop,
              SpuriousWakeup, Relaunch, lockedVars, busVars, Authority!authorityVars
<1>3. CASE UNCHANGED serviceVars
  BY <1>3 DEF serviceVars, lockedVars, busVars, Authority!authorityVars
<1> QED
  BY <1>1, <1>2, <1>3 DEF ServiceNext, Stopped

(* The threads, stopped, dropped or crashed anywhere, are an owner of the  *)
(* settings as the clients know it (SettingsService.cpp                    *)
(* emitGenerationChanged before the reply, ServiceWorker.cpp run).         *)
THEOREM ServiceImplementsAuthority == ServiceSpec => ImplementsAuthority
<1>1. ServiceInit => Authority!AuthorityInit
  BY DEF ServiceInit, Authority!AuthorityInit
<1>2. IInv /\ [ServiceNext]_serviceVars => [Authority!AuthorityNext]_(Authority!authorityVars)
  <2> SUFFICES ASSUME IInv, [ServiceNext]_serviceVars
               PROVE  Authority!AuthorityNext \/ UNCHANGED Authority!authorityVars
    OBVIOUS
  <2> QED
    BY NameIsAcquired, GenerationIsPublished, GenerationIsAnnounced, NameIsLost, OthersAreSilent
       DEF Authority!AuthorityNext
<1> QED
  BY <1>1, <1>2, InductiveInvariant, PTL DEF ServiceSpec, ImplementsAuthority, Authority!AuthoritySpec


-----------------------------------------------------------------------------
(* The last known valid file.                                              *)

Promoting == {"create", "synchronize", "rename"}
Resting   == {"idle", "start", "reload"}

(* What the directory shows, and may show after a power failure, was       *)
(* published, or is nothing.                                               *)
KeepsPublished ==
    /\ lkv = [shown |-> lkv.shown, durable |-> lkv.durable]
    /\ lkv.shown # Missing => lkv.shown \in published
    /\ \A file \in lkv.durable : file # Missing => file \in published

(* A promotion carries a published document, and gives it its name only    *)
(* when the temporary file survives the power.                             *)
PromotesPublished ==
    /\ step.at \in Promoting => step.file \in published /\ latest \in {Unkept, step.file}
    /\ step.at = "rename" => step.durable = step.file
    /\ step.at = "directory" =>
           /\ step.durable \in published /\ latest \in {Unkept, step.durable}
           /\ lkv.shown \in {Missing, step.durable}
           /\ latest # Unkept => lkv.shown = latest

(* Between promotions the file is the latest document, synchronized.       *)
RestsOnLatest ==
    step.at \in Resting /\ latest # Unkept => lkv.shown = latest /\ lkv.durable = {latest}

RecoveryInvariant ==
    /\ step.at \in Promoting \cup Resting \cup {"directory"}
    /\ KeepsPublished /\ PromotesPublished /\ RestsOnLatest

(* How the end of a start or of a reload leaves the engine's step: a       *)
(* promotion of the file it published, or nothing more to do.              *)
PromotesOrRests ==
    /\ UNCHANGED lkv
    /\ \/ \E file : /\ step' = Promotion(file)
                    /\ published' = published \cup {file} /\ latest' = file
       \/ step' = Idle /\ UNCHANGED <<published, latest>>

(* The end of SettingsEngine::start.                                       *)
LEMMA StartPromotesOrRests ==
    ASSUME FinishStart PROVE PromotesOrRests
BY Zenon DEF FinishStart, PromotesOrRests, Record

(* The end of SettingsEngine::reload.                                      *)
LEMMA ReloadPromotesOrRests ==
    ASSUME FinishReload PROVE PromotesOrRests
BY Zenon DEF FinishReload, ReloadRefused, PromotesOrRests, Record

(* Either way the file stays one that was published.                       *)
LEMMA EndKeepsRecovery ==
    ASSUME RecoveryInvariant, step.at \in {"start", "reload"}, PromotesOrRests
    PROVE  RecoveryInvariant'
<1> USE DEF RecoveryInvariant, KeepsPublished, PromotesPublished, RestsOnLatest, Promoting, Resting
<1>1. ASSUME NEW file, step' = Promotion(file), published' = published \cup {file}, latest' = file,
             UNCHANGED lkv
      PROVE  RecoveryInvariant'
  BY <1>1 DEF Promotion
<1>2. ASSUME step' = Idle, UNCHANGED <<lkv, published, latest>>
      PROVE  RecoveryInvariant'
  BY <1>2 DEF Idle
<1> QED
  BY <1>1, <1>2, Zenon DEF PromotesOrRests

(* Files, failures, kills and power cuts.                                  *)
LEMMA StepKeepsRecovery ==
    ASSUME RecoveryInvariant, [Next]_vars
    PROVE  RecoveryInvariant'
<1> USE DEF RecoveryInvariant, KeepsPublished, PromotesPublished, RestsOnLatest, Promoting, Resting
<1>1. CASE \E safeMode \in BOOLEAN : Start(safeMode)
  <2>1. /\ step = Idle /\ UNCHANGED <<lkv, published, latest>>
        /\ \E b, m : step' = [at |-> "start", bundle |-> b, safeMode |-> m]
    BY <1>1, Zenon DEF Start
  <2> QED
    BY <2>1 DEF Idle
<1>2. CASE FinishStart
  BY <1>2, StartPromotesOrRests, EndKeepsRecovery DEF FinishStart
<1>3. CASE \E profile \in Profiles : RequestProfileChange(profile)
  <2>1. UNCHANGED <<lkv, step, published, latest>>
    BY <1>3, Zenon DEF RequestProfileChange
  <2> QED
    BY <2>1
<1>4. CASE Reload
  <2>1. /\ step = Idle /\ UNCHANGED <<lkv, published, latest>>
        /\ \E r : step' = [at |-> "reload", reloaded |-> r]
    BY <1>4, Zenon DEF Reload
  <2> QED
    BY <2>1 DEF Idle
<1>5. CASE FinishReload
  BY <1>5, ReloadPromotesOrRests, EndKeepsRecovery DEF FinishReload
<1>6. CASE CreateTemporaryFile
  BY <1>6 DEF CreateTemporaryFile, At
<1>7. CASE Synchronize
  BY <1>7 DEF Synchronize, At
<1>8. CASE Rename
  <2>1. step.at = "rename" /\ UNCHANGED <<published, latest>>
    BY <1>8 DEF Rename, At
  <2>2. /\ lkv'.shown = step.file /\ lkv'.durable = {lkv.shown, step.durable}
        /\ lkv' = [shown |-> lkv'.shown, durable |-> lkv'.durable]
    BY <1>8 DEF Rename
  <2>3. step'.at = "directory" /\ step'.durable = step.durable
    BY <1>8 DEF Rename
  <2> QED
    BY <2>1, <2>2, <2>3
<1>9. CASE SynchronizeDirectory
  BY <1>9 DEF SynchronizeDirectory, At, Idle
<1>10. CASE PromotionFails
  BY <1>10 DEF PromotionFails, Idle
<1>11. CASE EditUser \/ InstallTheme
  BY <1>11 DEF EditUser, InstallTheme
<1>12. CASE RemoveState
  BY <1>12 DEF RemoveState
<1>13. CASE Die
  BY <1>13 DEF Die, InterruptedPromotion, Idle
<1>14. CASE PowerFails
  BY <1>14 DEF PowerFails, InterruptedPromotion, Idle
<1>15. CASE UNCHANGED vars
  BY <1>15 DEF vars
<1> QED
  BY <1>1, <1>2, <1>3, <1>4, <1>5, <1>6, <1>7, <1>8, <1>9, <1>10, <1>11, <1>12, <1>13, <1>14,
     <1>15, Zenon DEF Next

(* The last known valid file is never half a document nor one that was     *)
(* only loaded, and it is the one published last unless keeping that one   *)
(* failed: after every failure, kill and loss of power (AtomicFile.cpp:335,*)
(* SettingsEngine.cpp:172).                                                *)
THEOREM RecoveryFileIsPublished == Spec => []LastKnownValidWasPublished
<1>1. Init => RecoveryInvariant
  BY DEF Init, RecoveryInvariant, KeepsPublished, PromotesPublished, RestsOnLatest, Promoting,
         Resting, Idle
<1>2. RecoveryInvariant /\ [Next]_vars => RecoveryInvariant'
  BY StepKeepsRecovery
<1>3. RecoveryInvariant => LastKnownValidWasPublished
  BY DEF RecoveryInvariant, KeepsPublished, RestsOnLatest, Resting, Idle,
         LastKnownValidWasPublished
<1> QED
  BY <1>1, <1>2, <1>3, PTL DEF Spec

-----------------------------------------------------------------------------
(* The themes in memory.                                                   *)

(* A daemon that runs has the themes that its snapshot was resolved with.  *)
ThemeInvariant ==
    engine = Down \/
        /\ engine = [running |-> TRUE, safeMode |-> engine.safeMode, bundle |-> engine.bundle,
                     current |-> engine.current]
        /\ LET now == engine.current.candidate
           IN  ResolveTheme(engine.bundle, now.configuration, engine.safeMode) = Success(now.theme)

(* A reload is of a daemon that runs.                                      *)
ReloadOfRunning == step.at = "reload" => engine # Down

(* A resolution that succeeds is told by its theme.                        *)
LEMMA Resolutions ==
    ASSUME NEW bundle, NEW c, NEW safeMode, Ok(ResolveTheme(bundle, c, safeMode))
    PROVE  ResolveTheme(bundle, c, safeMode) = Success(ResolveTheme(bundle, c, safeMode).value)
<1>1. CASE ~ValidateBundle(bundle)
  BY <1>1 DEF ResolveTheme, Failure, Ok
<1>2. CASE ValidateBundle(bundle) /\ ~Ok(ResolveSemantic(bundle, c, safeMode))
  BY <1>2 DEF ResolveTheme, AndThen, Failure, Ok
<1>3. CASE ValidateBundle(bundle) /\ Ok(ResolveSemantic(bundle, c, safeMode))
  <2>1. \E theme : ResolveTheme(bundle, c, safeMode) = Success(theme)
    BY <1>3, Zenon DEF ResolveTheme, AndThen
  <2> QED
    BY <2>1 DEF Success
<1> QED
  BY <1>1, <1>2, <1>3

(* A candidate carries the theme of its own configuration.                 *)
LEMMA Candidates ==
    ASSUME NEW bundle, NEW safeMode, NEW c, NEW source, NEW override, NEW warnings,
           Ok(BuildCandidate(bundle, safeMode, c, source, override, warnings))
    PROVE  LET made == BuildCandidate(bundle, safeMode, c, source, override, warnings).value
           IN  ResolveTheme(bundle, made.configuration, safeMode) = Success(made.theme)
<1> DEFINE effective == IF safeMode THEN WithOptionalIntegrationsDisabled(c) ELSE c
           theme     == ResolveTheme(bundle, effective, safeMode)
<1>1. BuildCandidate(bundle, safeMode, c, source, override, warnings) =
          IF Ok(theme) THEN Success([configuration |-> effective, source |-> source,
                                     override |-> override, theme |-> theme.value,
                                     warnings |-> warnings])
          ELSE Failure(theme.error)
  BY Zenon DEF BuildCandidate, AndThen
<1>2. theme = Success(theme.value) \/ ~Ok(theme)
  BY Resolutions, Zenon
<1> HIDE DEF effective
<1>3. Ok(theme)
  <2> HIDE DEF theme
  <2> QED
    BY <1>1 DEF Failure, Ok
<1>4. BuildCandidate(bundle, safeMode, c, source, override, warnings).value.configuration = effective
  <2> HIDE DEF theme
  <2> QED
    BY <1>1, <1>3 DEF Success
<1>5. BuildCandidate(bundle, safeMode, c, source, override, warnings).value.theme = theme.value
  <2> HIDE DEF theme
  <2> QED
    BY <1>1, <1>3 DEF Success
<1> QED
  BY <1>2, <1>3, <1>4, <1>5, Zenon

(* What is published is the candidate, new or the same.                    *)
LEMMA Publications ==
    ASSUME NEW prior, NEW candidate, NEW serialized,
           Ok(PublishedAfter(prior, candidate, serialized))
    PROVE  PublishedAfter(prior, candidate, serialized).value.candidate = candidate
BY DEF PublishedAfter, Success, Failure, Ok

(* After a candidate is published, the snapshot has the candidate's theme. *)
LEMMA PublishedThemes ==
    ASSUME NEW bundle, NEW safeMode, NEW c, NEW source, NEW override, NEW warnings,
           NEW prior, NEW serialized,
           Ok(BuildCandidate(bundle, safeMode, c, source, override, warnings)),
           Ok(PublishedAfter(prior,
                  BuildCandidate(bundle, safeMode, c, source, override, warnings).value, serialized))
    PROVE  LET now == PublishedAfter(prior,
                  BuildCandidate(bundle, safeMode, c, source, override,
                  warnings).value, serialized).value.candidate
           IN  ResolveTheme(bundle, now.configuration, safeMode) = Success(now.theme)
<1> DEFINE made == BuildCandidate(bundle, safeMode, c, source, override, warnings).value
           now  == PublishedAfter(prior, made, serialized).value.candidate
<1>1. now = made
  BY Publications, Zenon
<1>2. ResolveTheme(bundle, made.configuration, safeMode) = Success(made.theme)
  BY Candidates, Zenon
<1>3. ResolveTheme(bundle, now.configuration, safeMode) = Success(now.theme)
  <2> HIDE DEF now, made
  <2> QED
    BY <1>1, <1>2
<1> QED
  BY <1>3, Zenon

(* Published is the end of a chain of calls: a candidate                   *)
(* that was made is published.  Chain has a call before, such as the       *)
(* loading of what the candidate is made of.                               *)
Published(made, prior, serialized) ==
    IF Ok(made) THEN PublishedAfter(prior, made.value, serialized) ELSE Failure(made.error)
Chain(first, made, prior, serialized) ==
    Published(IF Ok(first) THEN made ELSE Failure(first.error), prior, serialized)

(* The failure of one call is the failure of the next.                     *)
LEMMA FailuresAreNotOk ==
    ASSUME NEW result
    PROVE  ~Ok(result) => ~Ok(Failure(result.error)) /\ ~Ok(Failure(Failure(result.error).error))
BY DEF Ok, Failure

(* A chain succeeds only if each of its calls does.                        *)
LEMMA Chains ==
    ASSUME NEW first, NEW made, NEW prior, NEW serialized,
           Ok(Chain(first, made, prior, serialized))
    PROVE  /\ Ok(first) /\ Ok(made) /\ Ok(PublishedAfter(prior, made.value, serialized))
           /\ Chain(first, made, prior, serialized) = PublishedAfter(prior, made.value, serialized)
<1>1. CASE ~Ok(first)
  BY <1>1, FailuresAreNotOk, Zenon DEF Chain, Published
<1>2. CASE Ok(first) /\ ~Ok(made)
  BY <1>2, FailuresAreNotOk, Zenon DEF Chain, Published
<1>3. CASE Ok(first) /\ Ok(made)
  BY <1>3, Zenon DEF Chain, Published
<1> QED
  BY <1>1, <1>2, <1>3, Zenon

(* What an engine needs after a publication.                               *)
LEMMA RunsWithItsThemes ==
    ASSUME NEW bundle, NEW safeMode, NEW c, NEW source, NEW override, NEW warnings,
           NEW prior, NEW serialized,
           Ok(BuildCandidate(bundle, safeMode, c, source, override, warnings)),
           Ok(PublishedAfter(prior,
                  BuildCandidate(bundle, safeMode, c, source, override, warnings).value, serialized)),
           NEW snapshot,
           snapshot = PublishedAfter(prior,
                  BuildCandidate(bundle, safeMode, c, source, override, warnings).value, serialized),
           engine' = [running |-> TRUE, safeMode |-> safeMode, bundle |-> bundle,
                      current |-> snapshot.value]
    PROVE  ThemeInvariant'
<1>1. LET now == snapshot.value.candidate
      IN  ResolveTheme(bundle, now.configuration, safeMode) = Success(now.theme)
  BY PublishedThemes, SMT
<1>2. /\ engine'.safeMode = safeMode /\ engine'.bundle = bundle /\ engine'.current = snapshot.value
      /\ engine' = [running |-> TRUE, safeMode |-> engine'.safeMode, bundle |-> engine'.bundle,
                    current |-> engine'.current]
  OBVIOUS
<1> QED
  BY <1>1, <1>2, Zenon DEF ThemeInvariant

(* SettingsEngine::start.                                                  *)
LEMMA StartHasItsThemes ==
    ASSUME FinishStart, ThemeInvariant
    PROVE  ThemeInvariant'
<1> DEFINE startup == IF step.safeMode THEN LoadPackagedConfiguration ELSE LoadStartupConfiguration
           made    == BuildCandidate(step.bundle, step.safeMode, startup.value.configuration,
                                     startup.value.source, FALSE, startup.value.warnings)
           after(serialized) == Chain(startup, made, NoSnapshot, serialized)
<1>1. PICK serialized \in BOOLEAN :
      \/ UNCHANGED engine
      \/ /\ Ok(after(serialized))
         /\ engine' = [running |-> TRUE, safeMode |-> step.safeMode, bundle |-> step.bundle,
                       current |-> after(serialized).value]
  BY Zenon DEF FinishStart, AndThen, Chain, Published
<1> DEFINE chain == after(serialized)
<1>2. CASE UNCHANGED engine
  BY <1>2, Zenon DEF ThemeInvariant
<1>3. CASE Ok(chain) /\ engine' = [running |-> TRUE, safeMode |-> step.safeMode,
                                   bundle |-> step.bundle, current |-> chain.value]
  <2>1. /\ Ok(made) /\ Ok(PublishedAfter(NoSnapshot, made.value, serialized))
        /\ chain = PublishedAfter(NoSnapshot, made.value, serialized)
    <3> HIDE DEF startup, made
    <3> QED
      BY <1>3, Chains, Zenon
  <2> HIDE DEF startup, chain
  <2> QED
    BY <1>3, <2>1, RunsWithItsThemes, Zenon
<1> QED
  BY <1>1, <1>2, <1>3, Zenon

(* SettingsEngine::requestProfileChange.                                   *)
LEMMA ProfileChangeHasItsThemes ==
    ASSUME NEW profile, RequestProfileChange(profile), ThemeInvariant
    PROVE  ThemeInvariant'
<1> DEFINE now   == engine.current.candidate
           changed == WithProfile(now.configuration, profile)
           overridden == TRUE
           made  == BuildCandidate(engine.bundle, engine.safeMode, changed,
                                   now.source, overridden, now.warnings)
           after(serialized) == Published(made, engine.current, serialized)
<1>0. PICK serialized \in BOOLEAN :
      /\ engine.running /\ Ok(after(serialized))
      /\ engine' = [engine EXCEPT !.current = after(serialized).value]
  BY Zenon DEF RequestProfileChange, AndThen, Published
<1> DEFINE chain == after(serialized)
<1>1. engine.running /\ Ok(chain) /\ engine' = [engine EXCEPT !.current = chain.value]
  BY <1>0, Zenon
<1>2. engine = [running |-> TRUE, safeMode |-> engine.safeMode, bundle |-> engine.bundle,
                current |-> engine.current]
  BY <1>1 DEF ThemeInvariant, Down
<1>3. engine' = [running |-> TRUE, safeMode |-> engine.safeMode, bundle |-> engine.bundle,
                 current |-> chain.value]
  <2> HIDE DEF chain
  <2> QED
    BY <1>1, <1>2
<1>4. /\ Ok(made) /\ Ok(PublishedAfter(engine.current, made.value, serialized))
      /\ chain = PublishedAfter(engine.current, made.value, serialized)
  <2> HIDE DEF made
  <2> QED
    BY <1>1, FailuresAreNotOk, Zenon DEF Published
<1> HIDE DEF now, changed, overridden, chain
<1> QED
  BY <1>3, <1>4, RunsWithItsThemes, Zenon

(* A reload changes two fields of an engine.                               *)
LEMMA TwoFields ==
    ASSUME NEW s, NEW b, NEW c,
           engine = [running |-> TRUE, safeMode |-> s, bundle |-> b, current |-> c],
           NEW x, NEW y, engine' = [engine EXCEPT !.bundle = x, !.current = y]
    PROVE  engine' = [running |-> TRUE, safeMode |-> s, bundle |-> x, current |-> y]
OBVIOUS

(* SettingsEngine::reload: a reload that is refused leaves the themes too. *)
LEMMA ReloadHasItsThemes ==
    ASSUME FinishReload, ThemeInvariant, ReloadOfRunning
    PROVE  ThemeInvariant'
<1> DEFINE bundle == LoadThemeBundle(themes)
           made   == BuildCandidate(bundle.value, engine.safeMode, step.reloaded.configuration,
                                    step.reloaded.source, FALSE, <<>>)
           after(serialized) == Chain(bundle, made, engine.current, serialized)
<1>1. PICK serialized \in BOOLEAN :
      \/ UNCHANGED engine
      \/ /\ Ok(after(serialized))
         /\ engine' = [engine EXCEPT !.bundle = bundle.value, !.current = after(serialized).value]
  BY Zenon DEF FinishReload, ReloadRefused, AndThen, Chain, Published
<1> DEFINE chain == after(serialized)
<1>2. CASE UNCHANGED engine
  BY <1>2, Zenon DEF ThemeInvariant
<1>3. engine # Down
  BY DEF FinishReload, ReloadOfRunning
<1>4. CASE /\ Ok(chain)
           /\ engine' = [engine EXCEPT !.bundle = bundle.value, !.current = chain.value]
  <2>1. engine' = [running |-> TRUE, safeMode |-> engine.safeMode, bundle |-> bundle.value,
                   current |-> chain.value]
    <3>1. engine = [running |-> TRUE, safeMode |-> engine.safeMode, bundle |-> engine.bundle,
                    current |-> engine.current]
      BY <1>3, Zenon DEF ThemeInvariant
    <3> HIDE DEF bundle, chain
    <3> QED
      BY <1>4, <3>1, TwoFields, Zenon
  <2>2. /\ Ok(made) /\ Ok(PublishedAfter(engine.current, made.value, serialized))
        /\ chain = PublishedAfter(engine.current, made.value, serialized)
    <3> HIDE DEF bundle, made
    <3> QED
      BY <1>4, Chains, Zenon
  <2> HIDE DEF bundle, chain
  <2> QED
    BY <2>1, <2>2, RunsWithItsThemes, Zenon
<1> QED
  BY <1>1, <1>2, <1>3, <1>4, Zenon

(* Only these three steps and the end of the daemon change the engine.     *)
LEMMA StepKeepsThemes ==
    ASSUME ThemeInvariant, ReloadOfRunning, [Next]_vars
    PROVE  ThemeInvariant'
<1>1. CASE UNCHANGED engine
  BY <1>1, Zenon DEF ThemeInvariant
<1>2. CASE engine' = Down
  BY <1>2, Zenon DEF ThemeInvariant
<1>3. \/ UNCHANGED engine \/ engine' = Down \/ FinishStart \/ FinishReload
      \/ \E profile \in Profiles : RequestProfileChange(profile)
  BY Zenon DEF Next, vars, Start, Reload, CreateTemporaryFile, Synchronize, Rename,
     SynchronizeDirectory, PromotionFails, EditUser, InstallTheme, RemoveState, Die, PowerFails
<1> QED
  BY <1>1, <1>2, <1>3, StartHasItsThemes, ReloadHasItsThemes, ProfileChangeHasItsThemes, Zenon

(* A daemon that dies forgets its reload.                                  *)
LEMMA StepKeepsReload ==
    ASSUME ReloadOfRunning, [Next]_vars
    PROVE  ReloadOfRunning'
<1>1. CASE \E safeMode \in BOOLEAN : Start(safeMode)
  <2>1. \E b, m : step' = [at |-> "start", bundle |-> b, safeMode |-> m]
    BY <1>1, Zenon DEF Start
  <2> QED
    BY <2>1 DEF ReloadOfRunning
<1>2. CASE FinishStart
  BY <1>2, StartPromotesOrRests DEF PromotesOrRests, Promotion, Idle, ReloadOfRunning
<1>3. CASE FinishReload
  BY <1>3, ReloadPromotesOrRests DEF PromotesOrRests, Promotion, Idle, ReloadOfRunning
<1>4. CASE Reload
  <2>1. engine.running /\ UNCHANGED engine
    BY <1>4, Zenon DEF Reload
  <2>2. ~Down.running
    BY DEF Down
  <2> QED
    BY <2>1, <2>2, Zenon DEF ReloadOfRunning
<1>5. CASE CreateTemporaryFile \/ Synchronize \/ Rename
  <2>1. CASE CreateTemporaryFile
    BY <2>1 DEF CreateTemporaryFile, ReloadOfRunning
  <2>2. CASE Synchronize
    BY <2>2 DEF Synchronize, At, ReloadOfRunning
  <2>3. CASE Rename
    BY <2>3 DEF Rename, ReloadOfRunning
  <2> QED
    BY <1>5, <2>1, <2>2, <2>3
<1>6. CASE PromotionFails \/ SynchronizeDirectory \/ Die \/ PowerFails
  BY <1>6 DEF PromotionFails, SynchronizeDirectory, Die, PowerFails, Idle, ReloadOfRunning
<1>7. CASE \E profile \in Profiles : RequestProfileChange(profile)
  <2>1. step = Idle /\ UNCHANGED step
    BY <1>7, Zenon DEF RequestProfileChange
  <2> QED
    BY <2>1 DEF Idle, ReloadOfRunning
<1>8. CASE UNCHANGED <<step, engine>>
  BY <1>8, Zenon DEF ReloadOfRunning
<1> QED
  BY <1>1, <1>2, <1>3, <1>4, <1>5, <1>6, <1>7, <1>8, Zenon
  DEF Next, vars, EditUser, InstallTheme, RemoveState

(* A profile switch finds the themes that the snapshot was resolved with,  *)
(* whichever reload was refused before (SettingsEngine.cpp:160).           *)
THEOREM ThemesStayWithSnapshot == Spec => []SnapshotHasItsThemes
<1>1. Init => ThemeInvariant /\ ReloadOfRunning
  <2>1. Init => engine = Down /\ step = Idle
    BY Zenon DEF Init
  <2> QED
    BY <2>1 DEF Idle, ThemeInvariant, ReloadOfRunning
<1>2. ThemeInvariant /\ ReloadOfRunning /\ [Next]_vars => (ThemeInvariant /\ ReloadOfRunning)'
  BY StepKeepsThemes, StepKeepsReload
<1>3. ThemeInvariant => SnapshotHasItsThemes
  BY DEF ThemeInvariant, SnapshotHasItsThemes, Down
<1> QED
  BY <1>1, <1>2, <1>3, PTL DEF Spec

-----------------------------------------------------------------------------
(* What the shell reads.                                                   *)

(* A configuration that was parsed, and themes that were.                  *)
Parsed(c) == IsConfiguration(c) /\ SettingsAccepted(c)
ParsedTheme(values) ==
    /\ ParseSemantic(values) /\ ParseAccessibility(values)
    /\ values.focusWidth \in Int /\ values.target \in Int
ParsedThemes(bundle) ==
    \A layer \in Profiles \cup {"accessibility"} : ParsedTheme(bundle[layer])

(* A file that holds a configuration, or nothing that can be parsed.       *)
Readable(file) == Holds(file, IsConfigurationDocument)

(* A file that is not regular is not read.                                 *)
LEMMA ReadsWhatIsHeld ==
    ASSUME NEW file, file.kind \in DOMAIN ReadErrors \cup {"regular"}, Ok(ReadBoundedFile(file))
    PROVE  /\ file.kind = "regular" /\ file.kind \notin DOMAIN ReadErrors
           /\ ReadBoundedFile(file).value = file.document
<1>1. "regular" \notin DOMAIN ReadErrors
  BY DEF ReadErrors
<1>2. \A kind \in DOMAIN ReadErrors : ReadErrors[kind] # "none"
  BY DEF ReadErrors
<1>3. \A error : error # "none" => ~Ok(Failure(error))
  BY DEF Failure, Ok
<1>4. file.kind = "regular"
  BY <1>2, <1>3, Zenon DEF ReadBoundedFile
<1> QED BY <1>1, <1>4 DEF ReadBoundedFile, Success

(* validateConfiguration refuses all that a configuration may not be.      *)
LEMMA ParsedConfigurations ==
    ASSUME NEW document, IsConfigurationDocument(document), Ok(ParseConfiguration(document))
    PROVE  Parsed(ParseConfiguration(document).value)
<1> DEFINE values == document.values
<1>1. /\ ParseConfiguration(document) = Success(ReadDeveloper(values))
      /\ document.defect = "none" /\ ReadAppearance(values) /\ ReadAccessibility(values)
  <2>1. /\ document.defect \notin {"empty", "toml", "version"}
        /\ ValidateNodeBounds(document) /\ ValidateTableShape(document) /\ ReadOtherDomains(document)
        /\ ReadAppearance(values) /\ ReadAccessibility(values)
        /\ ParseConfiguration(document) = Success(ReadDeveloper(values))
    <3>1. CASE document.defect \in {"empty", "toml"}
      BY <3>1 DEF ParseConfiguration, AndThen, ParseConfigurationSyntax, Failure, Ok
    <3>2. CASE document.defect \notin {"empty", "toml"}
      <4>1. ParseConfiguration(document) = ValidateConfiguration(document)
        BY <3>2 DEF ParseConfiguration, AndThen, ParseConfigurationSyntax, Success, Ok
      <4> HIDE DEF values
      <4>2. \A error : error \in {"validation_error", "unsupported"} => ~Ok(Failure(error))
        BY DEF Failure, Ok
      <4> QED BY <3>2, <4>1, <4>2 DEF ValidateConfiguration, values
    <3> QED BY <3>1, <3>2
  <2> QED BY <2>1 DEF IsConfigurationDocument, ValidateNodeBounds, ValidateTableShape,
                      ReadOtherDomains
<1>2. IsConfiguration(values)
  BY <1>1 DEF IsConfigurationDocument
<1>3. IsConfiguration(ReadDeveloper(values)) /\ SettingsAccepted(ReadDeveloper(values))
  <2> DEFINE read == ReadDeveloper(values)
  <2>1. /\ \A field \in Fields \ {"developer"} : read[field] = values[field]
        /\ read = [field \in Fields |-> read[field]]
    BY <1>2 DEF ReadDeveloper, IsConfiguration, Fields
  <2> HIDE DEF read
  <2>2. /\ read.profile = values.profile /\ read.textScale = values.textScale
        /\ read.animationScale = values.animationScale /\ read.target = values.target
    BY <2>1 DEF Fields
  <2> QED BY <1>1, <1>2, <2>1, <2>2
          DEF IsConfiguration, SettingsAccepted, ReadAppearance, ReadAccessibility, read
<1> QED BY <1>1, <1>3 DEF Parsed, Success

(* ConfigurationLoader: what is loaded was parsed from a file.             *)
Loaded(loaded) == Parsed(loaded.configuration) /\ Readable(loaded.file)

(* A file that is loaded was read and parsed.                              *)
LEMMA LoadedRecord ==
    ASSUME NEW file, NEW source, Ok(LoadSource(file, source))
    PROVE  LET read == ReadBoundedFile(file) IN
           /\ Ok(read) /\ Ok(ParseConfiguration(read.value))
           /\ LoadSource(file, source).value =
                 [configuration |-> ParseConfiguration(read.value).value, source |-> source,
                  warnings |-> <<>>, file |-> file]
<1> DEFINE read == ReadBoundedFile(file)
           parsed == IF Ok(read) THEN ParseConfiguration(read.value) ELSE Failure(read.error)
           loaded == [configuration |-> parsed.value, source |-> source, warnings |-> <<>>,
                      file |-> file]
<1>1. LoadSource(file, source) = IF Ok(parsed) THEN Success(loaded) ELSE Failure(parsed.error)
  BY Zenon DEF LoadSource, AndThen
<1>2. Ok(parsed) /\ Ok(read) /\ parsed = ParseConfiguration(read.value)
  <2> HIDE DEF read
  <2> QED BY <1>1, FailuresAreNotOk, Zenon
<1>3. LoadSource(file, source).value = loaded
  <2> HIDE DEF parsed
  <2> QED BY <1>1, <1>2 DEF Success
<1> QED BY <1>2, <1>3, Zenon

(* So what is loaded is a configuration.                                   *)
LEMMA Loading ==
    ASSUME NEW file, Readable(file), NEW source, Ok(LoadSource(file, source))
    PROVE  Loaded(LoadSource(file, source).value)
<1>1. /\ Ok(ReadBoundedFile(file)) /\ Ok(ParseConfiguration(ReadBoundedFile(file).value))
      /\ LoadSource(file, source).value =
            [configuration |-> ParseConfiguration(ReadBoundedFile(file).value).value,
             source |-> source, warnings |-> <<>>, file |-> file]
  BY LoadedRecord, Zenon
<1>2. IsConfigurationDocument(file.document) /\ ReadBoundedFile(file).value = file.document
  BY <1>1, ReadsWhatIsHeld, Zenon DEF Readable, Holds
<1>3. Parsed(ParseConfiguration(ReadBoundedFile(file).value).value)
  BY <1>1, <1>2, ParsedConfigurations
<1> QED BY <1>1, <1>3 DEF Loaded

(* Whichever file a start or a reload ends up with, it was parsed.         *)
LEMMA StartupLoads ==
    ASSUME Readable(user), Readable(lkv.shown), Ok(LoadStartupConfiguration)
    PROVE  Loaded(LoadStartupConfiguration.value)
<1> DEFINE own == LoadSource(user, "user")
           last == LoadSource(lkv.shown, "last_known_valid")
           packaged == LoadPackagedConfiguration
           Marked(result, warnings) ==
               IF Ok(result) THEN Success([result.value EXCEPT !.warnings = warnings])
               ELSE Failure(result.error)
<1>1. \/ LoadStartupConfiguration = own
      \/ LoadStartupConfiguration = packaged
      \/ \E result \in {last, packaged} : \E warnings :
             LoadStartupConfiguration = Marked(result, warnings)
  BY Zenon DEF LoadStartupConfiguration, AndThen
<1>2. /\ Ok(own) => Loaded(own.value)
      /\ Ok(last) => Loaded(last.value)
      /\ Ok(packaged) => Loaded(packaged.value)
  <2>1. Readable(Packaged)
    BY DocumentsAssumption DEF Readable
  <2> QED BY <2>1, Loading DEF LoadPackagedConfiguration
<1>3. ASSUME NEW result \in {last, packaged}, NEW warnings, Ok(Marked(result, warnings))
      PROVE  Loaded(Marked(result, warnings).value)
  <2>1. Ok(result)
    <3> HIDE DEF own, last, packaged
    <3> QED BY <1>3, FailuresAreNotOk, Zenon
  <2>2. PICK file, source : result = LoadSource(file, source)
    BY Zenon DEF LoadPackagedConfiguration
  <2>3. \E c : result.value = [configuration |-> c, source |-> source,
                               warnings |-> <<>>, file |-> file]
    <3> HIDE DEF last, packaged
    <3> QED BY <2>1, <2>2, LoadedRecord, Zenon
  <2>4. Loaded(result.value)
    <3> HIDE DEF last, packaged
    <3> QED BY <1>2, <2>1
  <2> HIDE DEF last, packaged
  <2> QED BY <2>1, <2>3, <2>4 DEF Loaded, Success
<1> HIDE DEF own, last, packaged, Marked
<1> QED BY <1>1, <1>2, <1>3

(* A reload loads the user's file or the packaged default.                 *)
LEMMA ReloadLoads ==
    ASSUME Readable(user), Ok(LoadReloadConfiguration)
    PROVE  Loaded(LoadReloadConfiguration.value)
<1>1. Readable(Packaged)
  BY DocumentsAssumption DEF Readable
<1>2. LoadReloadConfiguration \in {LoadSource(user, "user"), LoadSource(Packaged, "packaged_default")}
  BY Zenon DEF LoadReloadConfiguration, LoadPackagedConfiguration
<1> QED BY <1>1, <1>2, Loading

(* A theme directory whose four documents parse.                           *)
ThemeFiles ==
    /\ themes = [layer \in DOMAIN Themes |-> themes[layer]]
    /\ \A layer \in DOMAIN Themes : themes[layer] \in Themes[layer]

(* parseThemeDocumentJson refuses all that a theme may not be.             *)
LEMMA ParsedThemeDocuments ==
    ASSUME NEW document, IsThemeDocument(document), Ok(ParseTheme(document))
    PROVE  ParsedTheme(ParseTheme(document).value)
<1> DEFINE values == document.values
<1>1. /\ document.defect \notin {"empty", "json", "version"}
      /\ ThemeBounds(document) /\ ValidateTreeBounds(document)
      /\ ValidateObjectShape(document) /\ ReadIdentity(document)
      /\ ParsePrimitive(document) /\ ParseMaterials(document)
      /\ ParseSemantic(values) /\ ParseAccessibility(values)
      /\ ParseTheme(document) = Success(values)
  <2>1. \A error : error \in {"syntax_error", "validation_error", "unsupported"} =>
                      ~Ok(Failure(error))
    BY DEF Failure, Ok
  <2> QED BY <2>1, Zenon DEF ParseTheme, ValidateDocument
<1>2. document.defect = "none"
  BY <1>1 DEF IsThemeDocument, ThemeBounds, ValidateTreeBounds, ValidateObjectShape, ReadIdentity,
              ParsePrimitive, ParseMaterials
<1>3. values.focusWidth \in Int /\ values.target \in Int
  BY <1>2 DEF IsThemeDocument
<1> QED BY <1>1, <1>3 DEF ParsedTheme, Success

(* A bundle is loaded only if each of its documents parses.                *)
LEMMA BundlesAreParsed ==
    ASSUME ThemeFiles, Ok(LoadThemeBundle(themes))
    PROVE  ParsedThemes(LoadThemeBundle(themes).value)
<1> DEFINE names == {Layers[i] : i \in 1..4}
           Document(layer) ==
               LET read == ReadBoundedFile(themes[layer])
               IN  IF Ok(read) THEN ParseTheme(read.value) ELSE Failure(read.error)
           parsed == [layer \in names |-> Document(layer)]
           bad == {i \in 1..4 : ~Ok(parsed[Layers[i]])}
           bundle == [layer \in DOMAIN parsed |-> parsed[layer].value]
<1>1. LoadThemeBundle(themes) =
         IF bad = {} THEN Success(bundle)
         ELSE Failure(parsed[Layers[CHOOSE i \in bad : \A j \in bad : i <= j]].error)
  BY Zenon DEF LoadThemeBundle, AndThen
<1>2. bad = {}
  <2>1. \A i \in bad : ~Ok(Failure(parsed[Layers[i]].error))
    <3> HIDE DEF parsed
    <3> QED BY FailuresAreNotOk
  <2>2. bad # {} => (CHOOSE i \in bad : \A j \in bad : i <= j) \in bad
    <3>1. \A T \in SUBSET (1..4) : T # {} => \E i \in T : \A j \in T : i <= j
      <4> SUFFICES ASSUME NEW T \in SUBSET (1..4), T # {} PROVE \E i \in T : \A j \in T : i <= j
        OBVIOUS
      <4>1. \A j \in T : j = 1 \/ j = 2 \/ j = 3 \/ j = 4
        OBVIOUS
      <4>2. CASE 1 \in T
        BY <4>1, <4>2
      <4>3. CASE 1 \notin T /\ 2 \in T
        BY <4>1, <4>3
      <4>4. CASE 1 \notin T /\ 2 \notin T /\ 3 \in T
        BY <4>1, <4>4
      <4>5. CASE 1 \notin T /\ 2 \notin T /\ 3 \notin T
        <5>1. PICK t \in T : TRUE
          OBVIOUS
        <5> QED BY <4>1, <4>5, <5>1
      <4> QED BY <4>2, <4>3, <4>4, <4>5
    <3>2. bad \in SUBSET (1..4)
      OBVIOUS
    <3> HIDE DEF bad
    <3> QED BY <3>1, <3>2
  <2> HIDE DEF bad, parsed
  <2> QED BY <1>1, <2>1, <2>2, Zenon
<1>3. names = {"base", "lustre", "forge", "accessibility"} /\ names = DOMAIN Themes
  BY SettingsEngineAssumption DEF Layers
<1>4. ASSUME NEW layer \in names PROVE ParsedTheme(bundle[layer])
  <2>1. PICK i \in 1..4 : layer = Layers[i]
    OBVIOUS
  <2>2. Ok(parsed[layer])
    <3> HIDE DEF parsed, names
    <3> QED BY <1>2, <2>1
  <2>3. Holds(themes[layer], IsThemeDocument)
    <3> HIDE DEF names
    <3> QED BY <1>3, DocumentsAssumption DEF ThemeFiles
  <2>4. Ok(Document(layer)) /\ bundle[layer] = Document(layer).value
    <3> HIDE DEF Document, names
    <3> QED BY <2>2
  <2>5. Ok(ReadBoundedFile(themes[layer]))
    BY <2>4, FailuresAreNotOk, Zenon
  <2>6. Document(layer) = ParseTheme(themes[layer].document) /\ IsThemeDocument(themes[layer].document)
    BY <2>3, <2>5, ReadsWhatIsHeld, Zenon DEF Holds
  <2> HIDE DEF Document, bundle
  <2> QED BY <2>4, <2>6, ParsedThemeDocuments
<1>5. LoadThemeBundle(themes).value = bundle
  <2> HIDE DEF bundle, bad
  <2> QED BY <1>1, <1>2 DEF Success
<1> HIDE DEF bundle, names
<1> QED BY <1>3, <1>4, <1>5 DEF ParsedThemes, Profiles

(* Two elements and a third, as in the sources of a theme.                 *)
LEMMA PairWithThird == ASSUME NEW a, NEW p, NEW b PROVE  <<a, p>> \o <<b>> = <<a, p, b>>
<1> DEFINE S == {a, p, b}
           u == <<a, p>>
           v == <<b>>
           w == <<a, p, b>>
<1>1. u \in Seq(S) /\ v \in Seq(S) /\ Len(u) = 2 /\ Len(v) = 1 /\ u[1] = a /\ u[2] = p /\ v[1] = b
  OBVIOUS
<1>2. w \in Seq(S) /\ Len(w) = 3 /\ w[1] = a /\ w[2] = p /\ w[3] = b
  OBVIOUS
<1> HIDE DEF S, u, v, w
<1>3. /\ u \o v \in Seq(S) /\ Len(u \o v) = Len(u) + Len(v)
      /\ \A i \in 1 .. Len(u) + Len(v) : (u \o v)[i] = IF i <= Len(u) THEN u[i] ELSE v[i - Len(u)]
  BY <1>1, ConcatProperties, Zenon
<1>4. /\ u \o v \in Seq(S) /\ Len(u \o v) = 3
      /\ \A i \in 1 .. 3 : (u \o v)[i] = IF i <= 2 THEN u[i] ELSE v[i - 2]
  <2>1. Len(u) + Len(v) = 3
    BY <1>1
  <2> QED BY <1>1, <1>3, <2>1, Zenon
<1> DEFINE x == u \o v
<1> HIDE DEF x
<1>5. x[1] = a /\ x[2] = p /\ x[3] = b
  BY <1>1, <1>4 DEF x
<1>6. \A i \in 1..3 : x[i] = w[i]
  BY <1>1, <1>2, <1>5
<1>7. x = w
  BY <1>2, <1>4, <1>6, SMTT(30) DEF x
<1> QED BY <1>7 DEF u, v, w, x

(* The scales keep a size that was accepted within the shell's bounds.     *)
LEMMA ScaledSizes ==
    ASSUME NEW size \in Nat, NEW scale \in Nat, NEW S \in Nat, NEW T \in Nat,
           size <= S, scale <= T
    PROVE  size * scale \in Nat /\ size * scale <= S * T
<1>1. size * scale \in Nat /\ size * scale <= S * scale
  OBVIOUS
<1>2. S * scale <= S * T
  OBVIOUS
<1> QED BY <1>1, <1>2

(* What is parsed, and what may be resolved from it, by kind of size.      *)
ParsedBody(n) == n \in Nat /\ n <= 48
ParsedTitle(n) == n \in Nat /\ n <= 64
ParsedMotion(n) == n \in Nat /\ n <= 2000
TextScale(n) == n \in Nat /\ n <= 12
MotionScale(n) == n \in Nat /\ n <= 8
ResolvedBody(n) == n \in Nat /\ n <= 4 * 144
ResolvedTitle(n) == n \in Nat /\ n <= 4 * 192

(* So the sizes of text stay below the greatest that the shell accepts.    *)
LEMMA ScaledBody ==
    ASSUME NEW size, ParsedBody(size), NEW scale, TextScale(scale)
    PROVE  ResolvedBody(size * scale)
<1>1. size * scale \in Nat /\ size * scale <= 48 * 12
  BY ScaledSizes DEF ParsedBody, TextScale
<1> QED BY <1>1 DEF ResolvedBody

LEMMA ScaledTitle ==
    ASSUME NEW size, ParsedTitle(size), NEW scale, TextScale(scale)
    PROVE  ResolvedTitle(size * scale)
<1>1. size * scale \in Nat /\ size * scale <= 64 * 12
  BY ScaledSizes DEF ParsedTitle, TextScale
<1> QED BY <1>1 DEF ResolvedTitle

(* The duration of motion does too.                                        *)
LEMMA ScaledMotion ==
    ASSUME NEW motion, ParsedMotion(motion), NEW scale, MotionScale(scale)
    PROVE  motion * scale \in Motions
<1> DEFINE duration == motion * scale
           greatest == 4 * 4000
<1>1. duration \in Nat /\ duration <= 2000 * 8
  BY ScaledSizes DEF ParsedMotion, MotionScale
<1> HIDE DEF duration
<1>2. greatest \in Nat /\ duration <= greatest
  BY <1>1
<1>3. Motions = 0..greatest
  BY DEF Motions
<1> HIDE DEF greatest
<1>4. duration \in Motions
  BY <1>1, <1>2, <1>3
<1> QED BY <1>4 DEF duration

(* The bounds that the parsers set.                                        *)
LEMMA RangesAreBounds ==
    ASSUME NEW n
    PROVE  /\ n \in 8..48 => ParsedBody(n)
           /\ n \in 8..64 => ParsedTitle(n)
           /\ n \in 0..2000 => ParsedMotion(n)
<1>1. n \in 8..48 => ParsedBody(n)
  BY DEF ParsedBody
<1>2. n \in 8..64 => ParsedTitle(n)
  BY DEF ParsedTitle
<1>3. n \in 0..2000 => ParsedMotion(n)
  BY DEF ParsedMotion
<1> QED BY <1>1, <1>2, <1>3

LEMMA ParsedSizes ==
    ASSUME NEW values, ParsedTheme(values)
    PROVE  /\ ParsedBody(values.bodySize) /\ ParsedTitle(values.titleSize)
           /\ ParsedMotion(values.motion)
BY RangesAreBounds DEF ParsedTheme, ParseSemantic

(* The scales too.                                                         *)
LEMMA ParsedScales ==
    ASSUME NEW c, Parsed(c), NEW safeMode
    PROVE  TextScale(c.textScale) /\ MotionScale(DurationScale(c, safeMode))
BY DEF Parsed, SettingsAccepted, DurationScale, TextScale, MotionScale

(* And what is resolved from them: the contrast, the width of the focus    *)
(* and the size of a target.                                               *)
LEMMA ResolvedContrast ==
    ASSUME NEW values, ParsedTheme(values)
    PROVE  /\ values.contrast \in 1..21
           /\ Max2(values.contrast, values.highContrast.ratio) \in 1..21
BY DEF ParsedTheme, ParseSemantic, ParseAccessibility, Max2

LEMMA ResolvedFocus ==
    ASSUME NEW a, ParsedTheme(a), NEW b, ParsedTheme(b), NEW c
    PROVE  ResolveFocus(a, b, c) >= 1
<1>1. /\ a.focusWidth \in Int /\ a.focusWidth >= 1 /\ b.focusWidth \in Int /\ b.focusWidth >= 1
      /\ b.highContrast.focusWidth \in Int /\ b.highContrast.focusWidth >= 1
  BY DEF ParsedTheme, ParseSemantic, ParseAccessibility
<1> QED BY <1>1 DEF ResolveFocus, Max2

LEMMA ResolvedTarget ==
    ASSUME NEW a, ParsedTheme(a), NEW b, ParsedTheme(b), NEW c, Parsed(c)
    PROVE  ResolveTarget(a, b, c) >= 24
<1>1. /\ \A n \in {a.target, a.minimumTarget, b.target, b.minimumTarget} : n \in Int /\ n >= 24
      /\ c.target \in Int /\ c.target >= 24
  BY DEF ParsedTheme, ParseSemantic, ParseAccessibility, Parsed, SettingsAccepted
<1> QED BY <1>1 DEF ResolveTarget, Max2

(* Below the greatest size, a size is accepted if it is not below the least. *)
LEMMA LegibleSizes ==
    ASSUME NEW n
    PROVE  /\ ResolvedBody(n) => (n \in BodySizes <=> n >= LeastTextSize)
           /\ ResolvedTitle(n) => (n \in TitleSizes <=> n >= LeastTextSize)
BY DEF BodySizes, TitleSizes, LeastTextSize, ResolvedBody, ResolvedTitle

(* What is left to accept of a theme that is right in everything else.     *)
LEMMA AcceptedIfLegible ==
    ASSUME NEW theme, NEW profile, theme.profile = profile,
           CoherentSources(theme.sources, profile),
           theme.semantic.bodySize \in BodySizes <=> theme.semantic.bodySize >= LeastTextSize,
           theme.semantic.titleSize \in TitleSizes <=> theme.semantic.titleSize >= LeastTextSize,
           theme.semantic.motion \in Motions, theme.semantic.contrast \in 1..21,
           theme.semantic.focusWidth >= 1, theme.semantic.target >= 24
    PROVE  ThemeAccepted(theme, profile) <=> Legible(theme.semantic)
BY Zenon DEF ThemeAccepted, Legible

(* What the resolver makes of a configuration and themes that were parsed: *)
(* all that the shell asks of a theme, but for the least size of its text. *)
LEMMA ResolvedThemes ==
    ASSUME NEW bundle, ParsedThemes(bundle), NEW c, Parsed(c), NEW safeMode, NEW theme,
           ResolveTheme(bundle, c, safeMode) = Success(theme)
    PROVE  ThemeAccepted(theme, c.profile) <=> Legible(theme.semantic)
<1> DEFINE authored == bundle[c.profile]
           accessibility == bundle["accessibility"]
           semantic == ResolveSemantic(bundle, c, safeMode)
           s == theme.semantic
<1>1. ParsedTheme(authored) /\ ParsedTheme(accessibility) /\ c.profile \in Profiles
  BY DEF ParsedThemes, Parsed, IsConfiguration
<1>2. ValidateBundle(bundle) /\ Ok(semantic)
  <2> HIDE DEF semantic
  <2>1. Ok(ResolveTheme(bundle, c, safeMode)) /\ \A error : error # "none" => ~Ok(Failure(error))
    BY DEF Ok, Success, Failure
  <2>2. \A x : ~Ok(x) => ~Ok(Failure(x.error))
    BY FailuresAreNotOk
  <2> QED BY <2>1, <2>2, Zenon DEF ResolveTheme, AndThen, semantic
<1>3. /\ theme.profile = c.profile /\ theme.sources = ThemeSources(c) /\ s = semantic.value
  <2> DEFINE made == [profile |-> c.profile, sources |-> ThemeSources(c),
                      primitive |-> ResolvePrimitive(bundle, c), semantic |-> semantic.value,
                      component |-> <<authored.rest,
                                      IF c.highContrast THEN accessibility.rest ELSE "own">>,
                      reducedMotion |-> c.reducedMotion \/ safeMode,
                      materials |-> ResolveMaterials(semantic.value, c, safeMode),
                      warnings |-> ThemeWarnings(semantic.value, c, safeMode)]
  <2>1. ResolveTheme(bundle, c, safeMode) = Success(made)
    BY <1>2, Zenon DEF ResolveTheme, AndThen
  <2>2. made = theme
    <3> HIDE DEF made
    <3> QED BY <2>1 DEF Success
  <2>3. made.profile = c.profile /\ made.sources = ThemeSources(c) /\ made.semantic = semantic.value
    <3> HIDE DEF semantic
    <3> QED OBVIOUS
  <2> HIDE DEF made, semantic
  <2> QED BY <2>2, <2>3
<1>4. /\ s.bodySize = authored.bodySize * c.textScale
      /\ s.titleSize = authored.titleSize * c.textScale
      /\ s.motion = authored.motion * DurationScale(c, safeMode)
      /\ s.focusWidth = ResolveFocus(authored, accessibility, c)
      /\ s.target = ResolveTarget(authored, accessibility, c)
      /\ s.contrast \in {authored.contrast,
                         Max2(accessibility.contrast, accessibility.highContrast.ratio)}
  <2>1. ~(c.highContrast /\ ~HighContrastHolds(accessibility))
    BY <1>2 DEF ResolveSemantic, Failure, Ok
  <2> QED BY <1>3, <2>1 DEF ResolveSemantic, Success
<1> HIDE DEF s, semantic
<1>5. /\ ParsedBody(authored.bodySize) /\ ParsedTitle(authored.titleSize)
      /\ ParsedMotion(authored.motion)
  BY <1>1, ParsedSizes, Zenon
<1>6. TextScale(c.textScale) /\ MotionScale(DurationScale(c, safeMode))
  BY ParsedScales, Zenon
<1>7. ResolvedBody(s.bodySize) /\ ResolvedTitle(s.titleSize)
  BY <1>4, <1>5, <1>6, ScaledBody, ScaledTitle, Zenon
<1>8. s.motion \in Motions
  BY <1>4, <1>5, <1>6, ScaledMotion, Zenon
<1>9. s.contrast \in 1..21
  BY <1>1, <1>4, ResolvedContrast, Zenon
<1>10. s.focusWidth >= 1
  BY <1>1, <1>4, ResolvedFocus, Zenon
<1>11. s.target >= 24
  BY <1>1, <1>4, ResolvedTarget, Zenon
<1>12. CoherentSources(theme.sources, c.profile)
  <2>1. <<"base", c.profile>> \o <<"accessibility">> = <<"base", c.profile, "accessibility">>
    BY PairWithThird, Zenon
  <2>2. <<"base", c.profile>> \o <<>> = <<"base", c.profile>>
    OBVIOUS
  <2>3. theme.sources \in {<<"base", c.profile>>, <<"base", c.profile, "accessibility">>}
    BY <1>3, <2>1, <2>2, Zenon DEF ThemeSources
  <2> QED BY <2>3, Zenon DEF CoherentSources
<1> HIDE DEF authored, accessibility
<1>13. s.bodySize \in BodySizes <=> s.bodySize >= LeastTextSize
  BY <1>7, LegibleSizes, Zenon
<1>14. s.titleSize \in TitleSizes <=> s.titleSize >= LeastTextSize
  BY <1>7, LegibleSizes, Zenon
<1> QED
  BY <1>3, <1>8, <1>9, <1>10, <1>11, <1>12, <1>13, <1>14, AcceptedIfLegible, Zenon DEF s

-----------------------------------------------------------------------------
(* Everything that the daemon holds was parsed.                            *)

Candidate(x) ==
    /\ x = [configuration |-> x.configuration, source |-> x.source, override |-> x.override,
            theme |-> x.theme, warnings |-> x.warnings]
    /\ Parsed(x.configuration)
Snapshot(snapshot) == snapshot.generation \in Nat \ {0} /\ Candidate(snapshot.candidate)

(* Its themes and its snapshot, what a start or a reload has in hand, and  *)
(* the files that may be read.                                             *)
ParsedInv ==
    /\ engine # Down => ParsedThemes(engine.bundle) /\ Snapshot(engine.current)
    /\ step.at = "start" => ParsedThemes(step.bundle)
    /\ step.at = "reload" => Loaded(step.reloaded)
    /\ user \in UserFiles /\ ThemeFiles
    /\ \A file \in published : Readable(file)

(* Another profile, or no optional integrations, is as good.               *)
LEMMA ChangedConfigurations ==
    ASSUME NEW c, Parsed(c)
    PROVE  /\ Parsed(WithOptionalIntegrationsDisabled(c))
           /\ \A profile \in Profiles : Parsed(WithProfile(c, profile))
<1>1. /\ c = [field \in Fields |-> c[field]] /\ SettingsAccepted(c)
  BY DEF Parsed, IsConfiguration
<1>2. ASSUME NEW d, d = [field \in Fields |-> d[field]], d.profile \in Profiles,
             d.textScale = c.textScale, d.animationScale = c.animationScale, d.target = c.target
      PROVE  Parsed(d)
  BY <1>1, <1>2 DEF Parsed, IsConfiguration, SettingsAccepted
<1>3. Parsed(WithOptionalIntegrationsDisabled(c))
  <2> DEFINE d == WithOptionalIntegrationsDisabled(c)
  <2>1. /\ d = [field \in Fields |-> d[field]] /\ d.profile = c.profile
        /\ d.textScale = c.textScale /\ d.animationScale = c.animationScale /\ d.target = c.target
    BY <1>1 DEF WithOptionalIntegrationsDisabled, Fields
  <2>2. d.profile \in Profiles
    BY <2>1 DEF Parsed, IsConfiguration
  <2> HIDE DEF d
  <2>3. Parsed(d)
    BY <1>2, <2>1, <2>2
  <2> QED BY <2>3 DEF d
<1>4. ASSUME NEW profile \in Profiles PROVE Parsed(WithProfile(c, profile))
  <2> DEFINE d == WithProfile(c, profile)
  <2>1. /\ d = [field \in Fields |-> d[field]] /\ d.profile = profile
        /\ d.textScale = c.textScale /\ d.animationScale = c.animationScale /\ d.target = c.target
    BY <1>1 DEF WithProfile, Fields
  <2> HIDE DEF d
  <2>3. Parsed(d)
    BY <1>2, <2>1
  <2> QED BY <2>3 DEF d
<1> QED BY <1>3, <1>4

(* A candidate that is made of a configuration and published.              *)
LEMMA CandidatesAreParsed ==
    ASSUME NEW bundle, NEW safeMode, NEW c, Parsed(c), NEW source, NEW override, NEW warnings,
           NEW candidate, candidate = BuildCandidate(bundle, safeMode, c, source, override, warnings),
           Ok(candidate)
    PROVE  Candidate(candidate.value)
<1> DEFINE effective == IF safeMode THEN WithOptionalIntegrationsDisabled(c) ELSE c
           theme == ResolveTheme(bundle, effective, safeMode)
           made == [configuration |-> effective, source |-> source, override |-> override,
                    theme |-> theme.value, warnings |-> warnings]
<1>1. candidate = IF Ok(theme) THEN Success(made) ELSE Failure(theme.error)
  BY Zenon DEF BuildCandidate, AndThen
<1>2. candidate = Success(made)
  <2> HIDE DEF theme, made
  <2> QED BY <1>1, FailuresAreNotOk, Zenon
<1>3. Parsed(effective)
  BY ChangedConfigurations, Zenon
<1> HIDE DEF effective, theme
<1>4. Candidate(made)
  BY <1>3 DEF Candidate
<1> HIDE DEF made
<1> QED BY <1>2, <1>4 DEF Success

(* The next snapshot, or the same one, has a generation other than 0.      *)
LEMMA SnapshotsAreParsed ==
    ASSUME NEW prior, prior = NoSnapshot \/ Snapshot(prior), NEW x, Candidate(x),
           NEW serialized, NEW snapshot, snapshot = PublishedAfter(prior, x, serialized),
           Ok(snapshot)
    PROVE  Snapshot(snapshot.value)
<1>1. CASE prior.generation # 0 /\ prior.candidate = x
  <2>1. snapshot = Success(prior) /\ prior # NoSnapshot
    BY <1>1 DEF PublishedAfter, NoSnapshot
  <2> QED BY <2>1 DEF Success
<1>2. CASE ~(prior.generation # 0 /\ prior.candidate = x)
  <2>1. snapshot = Success([generation |-> prior.generation + 1, candidate |-> x])
    BY <1>2 DEF PublishedAfter, Failure, Ok
  <2>2. prior.generation \in Nat
    BY DEF NoSnapshot, Snapshot
  <2> QED BY <2>1, <2>2 DEF Success, Snapshot
<1> QED BY <1>1, <1>2

(* The file that a start falls back to was published, or is none.          *)
LEMMA KnownFilesAreReadable ==
    ASSUME RecoveryInvariant, ParsedInv
    PROVE  Readable(user) /\ Readable(Packaged) /\ Readable(lkv.shown)
<1>1. Readable(user) /\ Readable(Packaged)
  BY DocumentsAssumption DEF ParsedInv, Readable
<1>2. Readable(Missing)
  BY DEF Readable, Holds, Missing, ReadErrors
<1>3. lkv.shown = Missing \/ lkv.shown \in published
  BY DEF RecoveryInvariant, KeepsPublished
<1> QED BY <1>1, <1>2, <1>3 DEF ParsedInv

(* What the end of a start or of a reload leaves behind.                   *)
LEMMA EndKeepsParsed ==
    ASSUME ParsedInv, PromotesOrRests, UNCHANGED <<user, themes>>,
           engine' # Down => ParsedThemes(engine.bundle)' /\ Snapshot(engine.current)',
           NEW file, Readable(file), published' = published \/ published' = published \cup {file}
    PROVE  ParsedInv'
<1>1. step'.at \notin {"start", "reload"}
  BY DEF PromotesOrRests, Promotion, Idle
<1> QED BY <1>1 DEF ParsedInv, ThemeFiles

(* SettingsEngine::start publishes what it parsed.                         *)
LEMMA StartKeepsParsed ==
    ASSUME FinishStart, RecoveryInvariant, ParsedInv
    PROVE  ParsedInv'
<1> DEFINE startup == IF step.safeMode THEN LoadPackagedConfiguration ELSE LoadStartupConfiguration
           made    == BuildCandidate(step.bundle, step.safeMode, startup.value.configuration,
                                     startup.value.source, FALSE, startup.value.warnings)
           after(serialized) == Chain(startup, made, NoSnapshot, serialized)
<1>1. PICK serialized \in BOOLEAN :
      \/ UNCHANGED <<engine, published>>
      \/ /\ Ok(after(serialized))
         /\ engine' = [running |-> TRUE, safeMode |-> step.safeMode, bundle |-> step.bundle,
                       current |-> after(serialized).value]
         /\ published' = published \/ published' = published \cup {startup.value.file}
  BY Zenon DEF FinishStart, AndThen, Chain, Published, Record
<1> DEFINE chain == after(serialized)
<1>2. PromotesOrRests /\ UNCHANGED <<user, themes>> /\ step.at = "start"
  BY StartPromotesOrRests, Zenon DEF FinishStart
<1>3. CASE UNCHANGED <<engine, published>>
  BY <1>2, <1>3, KnownFilesAreReadable, EndKeepsParsed DEF ParsedInv
<1>4. CASE /\ Ok(chain)
           /\ engine' = [running |-> TRUE, safeMode |-> step.safeMode, bundle |-> step.bundle,
                         current |-> chain.value]
           /\ published' = published \/ published' = published \cup {startup.value.file}
  <2>1. /\ Ok(startup) /\ Ok(made) /\ Ok(PublishedAfter(NoSnapshot, made.value, serialized))
        /\ chain = PublishedAfter(NoSnapshot, made.value, serialized)
    <3> HIDE DEF startup, made
    <3> QED BY <1>4, Chains, Zenon
  <2>2. Loaded(startup.value)
    <3>1. Ok(LoadPackagedConfiguration) => Loaded(LoadPackagedConfiguration.value)
      BY KnownFilesAreReadable, Loading, Zenon DEF LoadPackagedConfiguration
    <3>2. Ok(LoadStartupConfiguration) => Loaded(LoadStartupConfiguration.value)
      BY KnownFilesAreReadable, StartupLoads, Zenon
    <3> QED BY <2>1, <3>1, <3>2, Zenon
  <2> HIDE DEF startup
  <2>3. Candidate(made.value)
    BY <2>1, <2>2, CandidatesAreParsed, Zenon DEF Loaded
  <2> HIDE DEF made, chain
  <2>4. Snapshot(chain.value)
    BY <2>1, <2>3, SnapshotsAreParsed, Zenon
  <2>5. engine'.bundle = step.bundle /\ engine'.current = chain.value
    BY <1>4
  <2>6. Readable(startup.value.file)
    BY <2>2 DEF Loaded
  <2>7. ParsedThemes(engine.bundle)' /\ Snapshot(engine.current)'
    BY <1>2, <2>4, <2>5 DEF ParsedInv
  <2> QED BY <1>2, <1>4, <2>6, <2>7, EndKeepsParsed
<1> QED BY <1>1, <1>3, <1>4, Zenon

(* SettingsEngine::requestProfileChange changes the profile alone.         *)
LEMMA ProfileChangeKeepsParsed ==
    ASSUME NEW profile \in Profiles, RequestProfileChange(profile), ThemeInvariant, ParsedInv
    PROVE  ParsedInv'
<1> DEFINE now   == engine.current.candidate
           made  == BuildCandidate(engine.bundle, engine.safeMode,
                        WithProfile(now.configuration, profile), now.source, TRUE, now.warnings)
           after(serialized) == Published(made, engine.current, serialized)
<1>0. PICK serialized \in BOOLEAN :
      /\ engine.running /\ Ok(after(serialized))
      /\ engine' = [engine EXCEPT !.current = after(serialized).value]
      /\ step = Idle /\ UNCHANGED <<user, themes, step, published>>
  BY Zenon DEF RequestProfileChange, AndThen, Published
<1> DEFINE chain == after(serialized)
<1>1. /\ engine.running /\ Ok(chain) /\ engine' = [engine EXCEPT !.current = chain.value]
      /\ step = Idle /\ UNCHANGED <<user, themes, step, published>>
  BY <1>0, Zenon
<1>2. /\ engine # Down
      /\ engine = [running |-> TRUE, safeMode |-> engine.safeMode, bundle |-> engine.bundle,
                   current |-> engine.current]
  BY <1>1 DEF ThemeInvariant, Down
<1>3. Ok(made) /\ chain = PublishedAfter(engine.current, made.value, serialized)
  <2> HIDE DEF made
  <2> QED BY <1>1, FailuresAreNotOk, Zenon DEF Published
<1>4. Candidate(made.value)
  <2>1. Parsed(now.configuration)
    BY <1>2 DEF ParsedInv, Snapshot, Candidate
  <2>2. Parsed(WithProfile(now.configuration, profile))
    BY <2>1, ChangedConfigurations, Zenon
  <2> HIDE DEF now
  <2> QED BY <1>3, <2>2, CandidatesAreParsed, Zenon
<1> HIDE DEF made
<1>5. Snapshot(chain.value)
  <2>1. Snapshot(engine.current) /\ Ok(chain)
    BY <1>1, <1>2 DEF ParsedInv
  <2> HIDE DEF chain
  <2> QED BY <1>3, <1>4, <2>1, SnapshotsAreParsed, Zenon
<1> HIDE DEF chain
<1>6. engine'.bundle = engine.bundle /\ engine'.current = chain.value
  BY <1>1, <1>2
<1> QED BY <1>1, <1>2, <1>5, <1>6 DEF ParsedInv, ThemeFiles, Idle

(* SettingsEngine::reload publishes what it parsed.                        *)
LEMMA ReloadKeepsParsed ==
    ASSUME FinishReload, ThemeInvariant, ReloadOfRunning, ParsedInv
    PROVE  ParsedInv'
<1> DEFINE bundle == LoadThemeBundle(themes)
           made   == BuildCandidate(bundle.value, engine.safeMode, step.reloaded.configuration,
                                    step.reloaded.source, FALSE, <<>>)
           after(serialized) == Chain(bundle, made, engine.current, serialized)
<1>1. PICK serialized \in BOOLEAN :
      \/ UNCHANGED <<engine, published>>
      \/ /\ Ok(after(serialized))
         /\ engine' = [engine EXCEPT !.bundle = bundle.value, !.current = after(serialized).value]
         /\ published' = published \/ published' = published \cup {step.reloaded.file}
  BY Zenon DEF FinishReload, ReloadRefused, AndThen, Chain, Published, Record
<1> DEFINE chain == after(serialized)
<1>2. PromotesOrRests /\ UNCHANGED <<user, themes>> /\ step.at = "reload"
  BY ReloadPromotesOrRests, Zenon DEF FinishReload
<1>3. engine # Down /\ Loaded(step.reloaded)
  BY <1>2, Zenon DEF ReloadOfRunning, ParsedInv
<1>4. Readable(step.reloaded.file)
  BY <1>3 DEF Loaded
<1>5. CASE UNCHANGED <<engine, published>>
  BY <1>2, <1>4, <1>5, EndKeepsParsed DEF ParsedInv
<1>6. CASE /\ Ok(chain)
           /\ engine' = [engine EXCEPT !.bundle = bundle.value, !.current = chain.value]
           /\ published' = published \/ published' = published \cup {step.reloaded.file}
  <2>1. /\ Ok(bundle) /\ Ok(made) /\ Ok(PublishedAfter(engine.current, made.value, serialized))
        /\ chain = PublishedAfter(engine.current, made.value, serialized)
    <3> HIDE DEF bundle, made
    <3> QED BY <1>6, Chains, Zenon
  <2>2. ParsedThemes(bundle.value)
    BY <2>1, BundlesAreParsed, Zenon DEF ParsedInv
  <2> HIDE DEF bundle
  <2>3. Candidate(made.value)
    BY <1>3, <2>1, CandidatesAreParsed, Zenon DEF Loaded
  <2> HIDE DEF made
  <2>4. Snapshot(chain.value)
    <3>1. Snapshot(engine.current) /\ Ok(chain)
      BY <1>3, <1>6 DEF ParsedInv
    <3> HIDE DEF chain
    <3> QED BY <2>1, <2>3, <3>1, SnapshotsAreParsed, Zenon
  <2> HIDE DEF chain
  <2>5. engine'.bundle = bundle.value /\ engine'.current = chain.value
    <3>1. engine = [running |-> TRUE, safeMode |-> engine.safeMode, bundle |-> engine.bundle,
                    current |-> engine.current]
      BY <1>3, Zenon DEF ThemeInvariant
    <3> QED BY <1>6, <3>1
  <2>6. ParsedThemes(engine.bundle)' /\ Snapshot(engine.current)'
    BY <2>2, <2>4, <2>5
  <2> QED BY <1>2, <1>4, <1>6, <2>6, EndKeepsParsed
<1> QED BY <1>1, <1>5, <1>6, Zenon

(* The steps of every other operation.                                     *)
LEMMA StepKeepsParsed ==
    ASSUME RecoveryInvariant, ThemeInvariant, ReloadOfRunning, ParsedInv, [Next]_vars
    PROVE  ParsedInv'
<1>1. CASE \E safeMode \in BOOLEAN : Start(safeMode)
  <2>1. PICK safeMode : Start(safeMode)
    BY <1>1
  <2>2. /\ UNCHANGED <<user, themes, engine, published>> /\ Ok(LoadThemeBundle(themes))
        /\ step' = [at |-> "start", bundle |-> LoadThemeBundle(themes).value, safeMode |-> safeMode]
    BY <2>1, Zenon DEF Start
  <2>3. ParsedThemes(LoadThemeBundle(themes).value)
    BY <2>2, BundlesAreParsed, Zenon DEF ParsedInv
  <2> QED BY <2>2, <2>3 DEF ParsedInv, ThemeFiles
<1>2. CASE Reload
  <2> DEFINE reloaded == IF engine.safeMode THEN LoadPackagedConfiguration
                         ELSE LoadReloadConfiguration
  <2>1. /\ UNCHANGED <<user, themes, engine, published>> /\ Ok(reloaded)
        /\ step' = [at |-> "reload", reloaded |-> reloaded.value]
    BY <1>2, Zenon DEF Reload
  <2>2. Loaded(reloaded.value)
    <3>1. Ok(LoadPackagedConfiguration) => Loaded(LoadPackagedConfiguration.value)
      BY KnownFilesAreReadable, Loading, Zenon DEF LoadPackagedConfiguration
    <3>2. Ok(LoadReloadConfiguration) => Loaded(LoadReloadConfiguration.value)
      BY KnownFilesAreReadable, ReloadLoads, Zenon
    <3> QED BY <2>1, <3>1, <3>2, Zenon
  <2> HIDE DEF reloaded
  <2> QED BY <2>1, <2>2 DEF ParsedInv, ThemeFiles
<1>3. CASE \/ CreateTemporaryFile \/ Synchronize \/ Rename \/ SynchronizeDirectory
           \/ PromotionFails \/ Die \/ PowerFails
  <2>1. /\ UNCHANGED <<user, themes, published>> /\ (UNCHANGED engine \/ engine' = Down)
        /\ step'.at \notin {"start", "reload"}
    <3>1. CASE CreateTemporaryFile
      BY <3>1 DEF CreateTemporaryFile
    <3>2. CASE Synchronize
      BY <3>2 DEF Synchronize, At
    <3>3. CASE Rename
      BY <3>3 DEF Rename
    <3>4. CASE SynchronizeDirectory \/ PromotionFails \/ Die \/ PowerFails
      BY <3>4 DEF SynchronizeDirectory, PromotionFails, Die, PowerFails, Idle
    <3> QED BY <1>3, <3>1, <3>2, <3>3, <3>4
  <2> QED BY <2>1 DEF ParsedInv, ThemeFiles
<1>4. CASE EditUser \/ RemoveState \/ UNCHANGED vars
  BY <1>4 DEF EditUser, RemoveState, vars, ParsedInv, ThemeFiles
<1>5. CASE InstallTheme
  <2>1. ThemeFiles'
    <3>1. PICK layer \in DOMAIN Themes :
             \E file \in Themes[layer] : themes' = [themes EXCEPT ![layer] = file]
      BY <1>5 DEF InstallTheme
    <3>2. PICK file \in Themes[layer] : themes' = [themes EXCEPT ![layer] = file]
      BY <3>1
    <3> QED BY <3>2 DEF ParsedInv, ThemeFiles
  <2> QED BY <1>5, <2>1 DEF InstallTheme, ParsedInv
<1>6. CASE FinishStart \/ FinishReload \/ \E profile \in Profiles : RequestProfileChange(profile)
  BY <1>6, StartKeepsParsed, ReloadKeepsParsed, ProfileChangeKeepsParsed
<1> QED BY <1>1, <1>2, <1>3, <1>4, <1>5, <1>6, Zenon DEF Next

(* The shell's reading of what the daemon writes.                          *)
LEMMA ReadsBack ==
    ASSUME NEW snapshot, Snapshot(snapshot),
           ThemeAccepted(snapshot.candidate.theme, snapshot.candidate.configuration.profile)
               <=> Legible(snapshot.candidate.theme.semantic)
    PROVE  LET parsed == ParseRuntimeSnapshot(snapshot.generation,
                             SerializeRuntimeSnapshot(snapshot.generation, snapshot.candidate))
           IN  IF Legible(snapshot.candidate.theme.semantic) THEN parsed = Success(snapshot.candidate)
               ELSE ~Ok(parsed)
<1> DEFINE x == snapshot.candidate
           c == x.configuration
           json == SerializeRuntimeSnapshot(snapshot.generation, x)
           settings == ConfigurationJson(c)
           made == [configuration |-> SettingsFrom(settings, c.profile),
                    source |-> x.source, override |-> x.override,
                    theme |-> x.theme, warnings |-> x.warnings]
<1>1. /\ json.generation = snapshot.generation /\ json.profile = c.profile
      /\ json.source = x.source /\ json.override = x.override /\ json.settings = settings
      /\ json.theme = x.theme /\ json.warnings = x.warnings
  <2> HIDE DEF settings, c
  <2> QED BY DEF SerializeRuntimeSnapshot, c, settings
<1>2. /\ c = [field \in Fields |-> c[field]] /\ c.profile \in Profiles /\ SettingsAccepted(c)
      /\ snapshot.generation # 0
      /\ x = [configuration |-> x.configuration, source |-> x.source, override |-> x.override,
              theme |-> x.theme, warnings |-> x.warnings]
  BY Zenon DEF Snapshot, Candidate, Parsed, IsConfiguration
<1>3. /\ settings = [field \in Fields \ {"profile"} |-> c[field]]
  BY <1>2 DEF ConfigurationJson
<1>4. settings.textScale = c.textScale /\ settings.animationScale = c.animationScale
      /\ settings.target = c.target
  <2> HIDE DEF settings, c
  <2> QED BY <1>3 DEF Fields
<1>5. SettingsAccepted(settings)
  <2> HIDE DEF settings, c
  <2> QED BY <1>2, <1>4 DEF SettingsAccepted
<1>6. SettingsFrom(settings, c.profile) = c
  <2>1. DOMAIN settings \cup {"profile"} = Fields
    <3> HIDE DEF settings, c
    <3> QED BY <1>3 DEF Fields
  <2>2. \A field \in Fields :
           (IF field = "profile" THEN c.profile ELSE settings[field]) = c[field]
    <3> HIDE DEF settings, c
    <3> QED BY <1>3
  <2> HIDE DEF settings, c
  <2> QED BY <1>2, <2>1, <2>2 DEF SettingsFrom
<1>7. made = x
  <2> HIDE DEF settings, c
  <2> QED BY <1>2, <1>6 DEF c
<1>8. ParseRuntimeSnapshot(snapshot.generation, json) =
         IF ThemeAccepted(x.theme, c.profile) THEN Success(made) ELSE Failure("validation_error")
  <2> HIDE DEF json, settings, c, x
  <2> QED BY <1>1, <1>2, <1>5, Zenon DEF ParseRuntimeSnapshot
<1>9. ~Ok(Failure("validation_error"))
  BY DEF Failure, Ok
<1> HIDE DEF made
<1> QED BY <1>7, <1>8, <1>9, Zenon

(* The shell takes every snapshot that the daemon publishes and reads back *)
(* what it was made of, unless its text is too small, whatever files were  *)
(* edited, installed or recovered meanwhile: the bounds of the two parsers *)
(* and of the resolver are within the shell's (RuntimeSnapshotParser.cpp,  *)
(* ThemeParser.cpp:751).                                                   *)
THEOREM SnapshotsAreRead == Spec => []ShellReadsEverySnapshot
<1> DEFINE Inv == RecoveryInvariant /\ ThemeInvariant /\ ReloadOfRunning /\ ParsedInv
<1>1. Init => Inv
  <2> SUFFICES ASSUME Init PROVE Inv
    OBVIOUS
  <2>1. engine = Down /\ step = Idle /\ published = {} /\ latest = Unkept /\ user \in UserFiles
        /\ lkv = [shown |-> Missing, durable |-> {Missing}]
    BY Zenon DEF Init
  <2>2. ThemeFiles
    BY DEF Init, ThemeFiles
  <2> QED BY <2>1, <2>2 DEF RecoveryInvariant, KeepsPublished, PromotesPublished, RestsOnLatest,
          Promoting, Resting, Idle, ThemeInvariant, ReloadOfRunning, ParsedInv
<1>2. Inv /\ [Next]_vars => Inv'
  BY StepKeepsRecovery, StepKeepsThemes, StepKeepsReload, StepKeepsParsed
<1>3. Inv => ShellReadsEverySnapshot
  <2> SUFFICES ASSUME Inv, engine.running
               PROVE  LET snapshot == engine.current
                          parsed   == ParseRuntimeSnapshot(snapshot.generation,
                              SerializeRuntimeSnapshot(snapshot.generation, snapshot.candidate))
                      IN  IF Legible(snapshot.candidate.theme.semantic)
                          THEN parsed = Success(snapshot.candidate) ELSE ~Ok(parsed)
    BY Zenon DEF ShellReadsEverySnapshot
  <2> DEFINE x == engine.current.candidate
  <2>1. engine # Down
    BY DEF Down
  <2>2. ParsedThemes(engine.bundle) /\ Snapshot(engine.current)
    BY <2>1 DEF ParsedInv
  <2>3. Parsed(x.configuration)
    BY <2>2 DEF Snapshot, Candidate
  <2>4. ResolveTheme(engine.bundle, x.configuration, engine.safeMode) = Success(x.theme)
    BY <2>1, Zenon DEF ThemeInvariant
  <2>5. ThemeAccepted(x.theme, x.configuration.profile) <=> Legible(x.theme.semantic)
    <3> HIDE DEF x
    <3> QED BY <2>2, <2>3, <2>4, ResolvedThemes
  <2> QED BY <2>2, <2>5, ReadsBack, Zenon
<1> QED BY <1>1, <1>2, <1>3, PTL DEF Spec
=============================================================================
