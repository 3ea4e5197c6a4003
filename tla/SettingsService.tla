--------------------------- MODULE SettingsService ---------------------------
(***************************************************************************)
(* prismdrake-settingsd (src/src/settingsd): the dispatch thread that owns *)
(* the bus connection and the one retained call (SettingsService.cpp), the *)
(* worker thread with its single slot (ServiceWorker.cpp), the eventfd     *)
(* between them, and the epochs of main.cpp.  A step of a thread is what   *)
(* it does between two points where the other thread, a client, a signal   *)
(* or the bus can be observed: each critical section of mutex_ is one.     *)
(*                                                                         *)
(* What a job computes is left to the engine: a publication that fails, is *)
(* a no-op or makes the next generation, or a validation.                  *)
(***************************************************************************)
EXTENDS Naturals, FiniteSets

CONSTANTS Client,         \* bus clients, each with one call at a time
          NoCall,
          MaxGeneration,  \* numeric_limits<Generation::Value>::max()
          MaxEpoch,       \* bound: ownership epochs
          MaxCalls,       \* bound: calls in the whole behaviour
          IdLimit         \* 2^64, the range of WorkerRequestId

ASSUME ServiceAssumption ==
    /\ NoCall \notin Client
    /\ MaxGeneration \in Nat \ {0} /\ MaxEpoch \in Nat /\ MaxCalls \in Nat
    /\ IdLimit \in Nat \ {0, 1}

VARIABLES
    \* the dispatch thread
    dispatch,       \* its program counter
    pendingCall,    \* pending_, with its request id
    pendingId,
    nextId,         \* next_request_id_
    taken,          \* the completion it holds
    ending,         \* ServiceEpochOutcome of an epoch that is being left
    stopRequested,  \* the flag set by SIGINT and SIGTERM
    \* the worker, under mutex_
    worker,         \* its program counter
    job,            \* pending_job_
    completion,     \* completion_
    stopping,       \* stopping_
    current,        \* generation of current_snapshot_
    \* the worker, alone
    hand,           \* the job it executes, then its result
    engineGen,      \* generation of the engine's current snapshot
    notified,       \* counter of notification_fd_
    \* the bus and its clients
    busUp,          \* the connection is usable
    named,          \* the service owns its name
    epoch,          \* times the name was acquired
    announced,      \* the last generation signalled, one by owning the name
    call,           \* state of each client's call
    op,             \* the method it calls
    replies,        \* history: replies its current call was given
    calls           \* calls made so far

dispatchVars == <<dispatch, pendingCall, pendingId, nextId, taken, ending>>
lockedVars   == <<job, completion, stopping, current>>
workerVars   == <<worker, hand, engineGen>>
busVars      == <<busUp, named, epoch, announced>>
clientVars   == <<call, op, replies, calls>>
serviceVars == <<dispatchVars, stopRequested, lockedVars, workerVars, notified, busVars, clientVars>>

Method == {"read", "change", "validate"}  \* Get*, RequestProfileChange and Reload, ValidateCandidate
Result == {"none", "failed", "unchanged", "published", "validated"}
None   == [id |-> 0, op |-> "none", result |-> "none", gen |-> 0]
Work   == [id : Nat, op : Method \cup {"none"}, result : Result, gen : 0..MaxGeneration]

Flags ==
    /\ stopRequested \in BOOLEAN /\ stopping \in BOOLEAN
    /\ busUp \in BOOLEAN /\ named \in BOOLEAN

TypeOK ==
    /\ dispatch \in {"starting", "naming", "loop", "process", "poll", "drain", "take", "match",
                     "emit", "answer", "reject", "stop", "wake", "join", "exited"}
    /\ pendingCall \in Client \cup {NoCall}
    /\ pendingId \in Nat /\ nextId \in 0..(IdLimit - 1)
    /\ {job, completion, hand, taken} \subseteq Work
    /\ ending \in {"none", "disconnected", "stopped", "failed"}
    /\ worker \in {"check", "asleep", "execute", "commit", "notify", "exited"}
    /\ Flags
    /\ current \in 0..MaxGeneration /\ engineGen \in 0..MaxGeneration
    /\ announced \in 0..MaxGeneration
    /\ notified \in Nat /\ epoch \in Nat /\ calls \in Nat
    /\ call \in [Client -> {"idle", "sent", "held", "answered", "lost"}]
    /\ op \in [Client -> Method]
    /\ replies \in [Client -> Nat]

ServiceInit ==
    /\ dispatch = "starting" /\ pendingCall = NoCall /\ pendingId = 0 /\ nextId = 1
    /\ taken = None /\ ending = "none" /\ stopRequested = FALSE
    /\ worker = "exited" /\ job = None /\ completion = None /\ stopping = FALSE
    /\ current = 0 /\ hand = None /\ engineGen = 0 /\ notified = 0
    /\ busUp = FALSE /\ named = FALSE /\ epoch = 0 /\ announced = 0
    /\ call = [c \in Client |-> "idle"] /\ op = [c \in Client |-> "read"]
    /\ replies = [c \in Client |-> 0] /\ calls = 0

Leave(outcome) == ending' = outcome
Processing == worker \in {"execute", "commit"}          \* processing_

(* A reply reaches its caller while the connection is up.                  *)
Reply(c) ==
    IF busUp THEN /\ call' = [call EXCEPT ![c] = "answered"]
                  /\ replies' = [replies EXCEPT ![c] = @ + 1]
             ELSE UNCHANGED <<call, replies>>

(* Calls without a reply fail when the connection that would give it goes. *)
Abandoned == [c \in Client |-> IF call[c] \in {"sent", "held"} THEN "lost" ELSE call[c]]

-----------------------------------------------------------------------------
(* The start of an epoch: runServiceEpoch up to its loop.                  *)

StartEngine ==
    /\ dispatch = "starting"
    /\ \/ /\ dispatch' = "naming"                       \* the engine published generation one
          /\ nextId' = 1 /\ taken' = None /\ ending' = "none"
          /\ job' = None /\ completion' = None /\ stopping' = FALSE
          /\ engineGen' = 1 /\ current' = 1
          /\ worker' = "check" /\ hand' = None /\ notified' = 0
          /\ busUp' = TRUE
       \/ /\ dispatch' = "exited" /\ Leave("failed")    \* no valid configuration or theme
          /\ UNCHANGED <<nextId, taken, lockedVars, workerVars, notified, busUp>>
    /\ UNCHANGED <<pendingCall, pendingId, stopRequested, named, epoch, announced, clientVars>>

(* main leaves between two epochs.                                         *)
SkipEpoch ==
    /\ dispatch = "starting" /\ stopRequested
    /\ dispatch' = "exited" /\ Leave("stopped")
    /\ UNCHANGED <<pendingCall, pendingId, nextId, taken, stopRequested, lockedVars, workerVars,
                   notified, busVars, clientVars>>

(* sd_bus_open_user and sd_bus_request_name.                               *)
RequestName ==
    /\ dispatch = "naming"
    /\ \/ /\ busUp /\ epoch < MaxEpoch
          /\ dispatch' = "loop" /\ named' = TRUE
          /\ epoch' = epoch + 1 /\ announced' = 1
          /\ UNCHANGED ending
       \/ /\ dispatch' = "stop"                         \* ~ServiceWorker
          /\ ending' \in {"disconnected", "failed"}     \* failed: another owner exists
          /\ UNCHANGED <<named, epoch, announced>>
    /\ UNCHANGED <<pendingCall, pendingId, nextId, taken, stopRequested, lockedVars, workerVars,
                   notified, busUp, clientVars>>

-----------------------------------------------------------------------------
(* The dispatch thread.                                                    *)

CheckStop ==
    /\ dispatch = "loop"
    /\ IF stopRequested THEN dispatch' = "reject" /\ Leave("stopped")
                        ELSE dispatch' = "process" /\ UNCHANGED ending
    /\ UNCHANGED <<pendingCall, pendingId, nextId, taken, stopRequested, lockedVars, workerVars,
                   notified, busVars, clientVars>>

(* trySubmit, a critical section of its own.                               *)
SlotFree == ~stopping /\ job = None /\ ~Processing /\ completion = None

TrySubmit(work) ==
    /\ job' = work
    /\ worker' = IF worker = "asleep" THEN "check" ELSE worker

(* submit for the mutating and validating methods.                         *)
Submit(c) ==
    LET work == [id |-> nextId, op |-> op[c], result |-> "none", gen |-> 0]
    IN  \/ /\ pendingCall # NoCall \/ nextId = 0        \* Busy, Internal
           /\ Reply(c)
           /\ UNCHANGED <<pendingCall, pendingId, nextId, job, worker>>
        \/ /\ pendingCall = NoCall /\ nextId # 0
           /\ nextId' = (nextId + 1) % IdLimit
           /\ \/ /\ SlotFree /\ TrySubmit(work)
                 /\ pendingCall' = c /\ pendingId' = nextId
                 /\ call' = [call EXCEPT ![c] = "held"]
                 /\ UNCHANGED replies
              \/ /\ ~SlotFree                           \* Busy
                 /\ Reply(c)
                 /\ UNCHANGED <<pendingCall, pendingId, job, worker>>

(* Methods that are answered at once: reads, and calls refused for their   *)
(* sender's credentials or their arguments.                                *)
AnswerAtOnce(c) ==
    /\ Reply(c)
    /\ UNCHANGED <<pendingCall, pendingId, nextId, job, worker>>

(* sd_bus_process: one message, or an error, or nothing left to read.      *)
Process ==
    /\ dispatch = "process"
    /\ \/ /\ ~busUp /\ dispatch' = "reject" /\ Leave("disconnected")
          /\ UNCHANGED <<pendingCall, pendingId, nextId, job, worker, call, replies>>
       \/ /\ busUp /\ \A c \in Client : call[c] # "sent"
          /\ dispatch' = "poll"
          /\ UNCHANGED <<pendingCall, pendingId, nextId, job, worker, call, replies, ending>>
       \/ \E c \in Client :
          /\ busUp /\ call[c] = "sent"
          /\ \/ AnswerAtOnce(c)
             \/ op[c] # "read" /\ Submit(c)
          /\ UNCHANGED <<dispatch, ending>>
    /\ UNCHANGED <<taken, stopRequested, completion, stopping, current, hand, engineGen,
                   notified, busVars, op, calls>>

(* poll(2), which also returns after 100 ms, and may itself fail.          *)
Poll ==
    /\ dispatch = "poll"
    /\ \/ dispatch' = "reject" /\ Leave("disconnected")
       \/ busUp /\ notified > 0 /\ dispatch' = "drain" /\ UNCHANGED ending
       \/ busUp /\ notified = 0 /\ dispatch' = "loop" /\ UNCHANGED ending
    /\ UNCHANGED <<pendingCall, pendingId, nextId, taken, stopRequested, lockedVars, workerVars,
                   notified, busVars, clientVars>>

DrainNotification ==
    /\ dispatch = "drain"
    /\ notified' = 0 /\ dispatch' = "take"
    /\ UNCHANGED <<pendingCall, pendingId, nextId, taken, ending, stopRequested, lockedVars,
                   workerVars, busVars, clientVars>>

(* Mutant: the completion is copied, its slot stays occupied.              *)
CopyCompletion ==
    /\ dispatch = "take"
    /\ taken' = completion
    /\ dispatch' = IF completion = None THEN "loop" ELSE "match"
    /\ UNCHANGED <<pendingCall, pendingId, nextId, ending, stopRequested, lockedVars,
                   workerVars, notified, busVars, clientVars>>

TakeCompletion ==
    /\ dispatch = "take"
    /\ taken' = completion /\ completion' = None
    /\ dispatch' = IF completion = None THEN "loop" ELSE "match"
    /\ UNCHANGED <<pendingCall, pendingId, nextId, ending, stopRequested, job, stopping, current,
                   workerVars, notified, busVars, clientVars>>

(* dispatchCompletion: the result must be the pending call's.              *)
Matches == pendingCall # NoCall /\ pendingId = taken.id

MatchCompletion ==
    /\ dispatch = "match"
    /\ IF ~Matches THEN dispatch' = "reject" /\ Leave("disconnected")
       ELSE /\ dispatch' = IF taken.result = "published" THEN "emit" ELSE "answer"
            /\ UNCHANGED ending
    /\ UNCHANGED <<pendingCall, pendingId, nextId, taken, stopRequested, lockedVars, workerVars,
                   notified, busVars, clientVars>>

(* emitGenerationChanged, then the reply.  pending_ was cleared first, so  *)
(* a failed send leaves a call that only the end of the connection fails.  *)
Emit ==
    /\ dispatch = "emit"
    /\ \/ /\ busUp /\ announced' = taken.gen
          /\ dispatch' = "answer" /\ UNCHANGED <<pendingCall, ending>>
       \/ /\ dispatch' = "reject" /\ Leave("disconnected")
          /\ pendingCall' = NoCall /\ UNCHANGED announced
    /\ UNCHANGED <<pendingId, nextId, taken, stopRequested, lockedVars, workerVars, notified,
                   busUp, named, epoch, clientVars>>

(* Mutant: the pending call is answered but retained.                      *)
AnswerRetaining ==
    /\ dispatch = "answer"
    /\ Reply(pendingCall) /\ dispatch' = "loop" /\ taken' = None
    /\ UNCHANGED <<pendingCall, pendingId, nextId, ending, stopRequested, lockedVars, workerVars,
                   notified, busVars, op, calls>>

AnswerCompletion ==
    /\ dispatch = "answer"
    /\ \/ Reply(pendingCall) /\ dispatch' = "loop" /\ UNCHANGED ending
       \/ /\ dispatch' = "reject" /\ Leave("disconnected")
          /\ UNCHANGED <<call, replies>>
    /\ pendingCall' = NoCall /\ taken' = None
    /\ UNCHANGED <<pendingId, nextId, stopRequested, lockedVars, workerVars, notified,
                   busVars, op, calls>>

(* rejectPendingForShutdown.                                               *)
RejectPending ==
    /\ dispatch = "reject"
    /\ IF pendingCall = NoCall THEN UNCHANGED <<call, replies>> ELSE Reply(pendingCall)
    /\ pendingCall' = NoCall /\ taken' = None
    /\ dispatch' = "stop"
    /\ UNCHANGED <<pendingId, nextId, ending, stopRequested, lockedVars, workerVars, notified,
                   busVars, op, calls>>

(* ServiceWorker::stop: the flag under the lock, the wakeup after it, the  *)
(* join; then the name is released with the connection.                    *)
StopWorker ==
    /\ dispatch = "stop"
    /\ stopping' = TRUE /\ job' = None
    /\ dispatch' = "wake"
    /\ UNCHANGED <<pendingCall, pendingId, nextId, taken, ending, stopRequested, completion,
                   current, workerVars, notified, busVars, clientVars>>

WakeWorker ==
    /\ dispatch = "wake"
    /\ worker' = IF worker = "asleep" THEN "check" ELSE worker
    /\ dispatch' = "join"
    /\ UNCHANGED <<pendingCall, pendingId, nextId, taken, ending, stopRequested, lockedVars, hand,
                   engineGen, notified, busVars, clientVars>>

(* main: another epoch after a lost bus, unless a stop was requested.      *)
JoinWorker ==
    /\ dispatch = "join" /\ worker = "exited"
    /\ busUp' = FALSE /\ named' = FALSE /\ call' = Abandoned
    /\ dispatch' = IF ending = "disconnected" /\ ~stopRequested THEN "starting" ELSE "exited"
    /\ ending' = IF ending = "disconnected" /\ stopRequested THEN "stopped" ELSE ending
    /\ UNCHANGED <<pendingCall, pendingId, nextId, taken, stopRequested, lockedVars,
                   workerVars, notified, epoch, announced, op, replies, calls>>

Dispatch ==
    \/ StartEngine \/ SkipEpoch \/ RequestName \/ CheckStop \/ Process \/ Poll \/ DrainNotification
    \/ TakeCompletion \/ MatchCompletion \/ Emit \/ AnswerCompletion
    \/ RejectPending \/ StopWorker \/ WakeWorker \/ JoinWorker

-----------------------------------------------------------------------------
(* The worker thread.                                                      *)

(* The top of run(): stop, take the job, or sleep until notified.          *)
CheckWork ==
    /\ worker = "check"
    /\ worker' = IF stopping THEN "exited" ELSE IF job # None THEN "execute" ELSE "asleep"
    /\ IF ~stopping /\ job # None THEN hand' = job /\ job' = None ELSE UNCHANGED <<hand, job>>
    /\ UNCHANGED <<dispatchVars, stopRequested, completion, stopping, current, engineGen,
                   notified, busVars, clientVars>>

(* The engine: publish, requestProfileChange, reload, validateCandidate.   *)
Computes(result) ==
    \/ result = "failed"
    \/ result = "validated" /\ hand.op = "validate"
    \/ result = "unchanged" /\ hand.op = "change"
    \/ result = "published" /\ hand.op = "change" /\ engineGen < MaxGeneration

Execute ==
    /\ worker = "execute"
    /\ \E result \in Result :
        /\ Computes(result)
        /\ engineGen' = IF result = "published" THEN engineGen + 1 ELSE engineGen
        /\ hand' = [id |-> hand.id, op |-> hand.op, result |-> result, gen |-> engineGen']
    /\ worker' = "commit"
    /\ UNCHANGED <<dispatchVars, stopRequested, lockedVars, notified, busVars, clientVars>>

(* Mutant: the new snapshot is not installed.                              *)
CommitKeepingSnapshot ==
    /\ worker = "commit"
    /\ IF stopping THEN worker' = "exited" /\ UNCHANGED completion
                   ELSE worker' = "notify" /\ completion' = hand
    /\ hand' = None
    /\ UNCHANGED <<dispatchVars, stopRequested, job, stopping, current, engineGen, notified,
                   busVars, clientVars>>

Commit ==
    /\ worker = "commit"
    /\ current' = IF hand.result \in {"published", "unchanged"} THEN hand.gen ELSE current
    /\ IF stopping THEN worker' = "exited" /\ UNCHANGED completion
                   ELSE worker' = "notify" /\ completion' = hand
    /\ hand' = None
    /\ UNCHANGED <<dispatchVars, stopRequested, job, stopping, engineGen, notified, busVars,
                   clientVars>>

(* Mutant: the notification is lost.                                       *)
NotifyNobody ==
    /\ worker = "notify" /\ worker' = "check"
    /\ UNCHANGED <<dispatchVars, stopRequested, lockedVars, hand, engineGen, notified, busVars,
                   clientVars>>

NotifyCompletion ==
    /\ worker = "notify"
    /\ notified' = notified + 1 /\ worker' = "check"
    /\ UNCHANGED <<dispatchVars, stopRequested, lockedVars, hand, engineGen, busVars, clientVars>>

Worker == CheckWork \/ Execute \/ Commit \/ NotifyCompletion

-----------------------------------------------------------------------------
(* The environment.                                                        *)

Calls(c, method) ==
    /\ named /\ calls < MaxCalls
    /\ call[c] \in {"idle", "answered", "lost"}
    /\ call' = [call EXCEPT ![c] = "sent"] /\ op' = [op EXCEPT ![c] = method]
    /\ replies' = [replies EXCEPT ![c] = 0] /\ calls' = calls + 1
    /\ UNCHANGED <<dispatchVars, stopRequested, lockedVars, workerVars, notified, busVars>>

RequestStop ==
    /\ ~stopRequested /\ dispatch # "exited"
    /\ stopRequested' = TRUE
    /\ UNCHANGED <<dispatchVars, lockedVars, workerVars, notified, busVars, clientVars>>

BusDrops ==
    /\ busUp
    /\ busUp' = FALSE /\ named' = FALSE /\ call' = Abandoned
    /\ UNCHANGED <<dispatchVars, stopRequested, lockedVars, workerVars, notified, epoch, announced,
                   op, replies, calls>>

SpuriousWakeup ==
    /\ worker = "asleep" /\ worker' = "check"
    /\ UNCHANGED <<dispatchVars, stopRequested, lockedVars, hand, engineGen, notified, busVars,
                   clientVars>>

Crash ==
    /\ dispatch # "exited"
    /\ dispatch' = "exited" /\ ending' = "failed" /\ worker' = "exited"
    /\ pendingCall' = NoCall /\ taken' = None
    /\ busUp' = FALSE /\ named' = FALSE /\ call' = Abandoned
    /\ UNCHANGED <<pendingId, nextId, stopRequested, lockedVars, hand, engineGen, notified, epoch,
                   announced, op, replies, calls>>

(* The session supervisor launches the daemon again.                       *)
Relaunch ==
    /\ dispatch = "exited" /\ ending = "failed"
    /\ dispatch' = "starting" /\ stopRequested' = FALSE
    /\ UNCHANGED <<pendingCall, pendingId, nextId, taken, ending, lockedVars, workerVars, notified,
                   busVars, clientVars>>

Stopped == dispatch = "exited" /\ ending = "stopped" /\ UNCHANGED serviceVars

Environment ==
    \/ \E c \in Client, method \in Method : Calls(c, method)
    \/ RequestStop \/ BusDrops \/ SpuriousWakeup \/ Crash \/ Relaunch

ServiceNext == Dispatch \/ Worker \/ Environment \/ Stopped

ServiceSpec == ServiceInit /\ [][ServiceNext]_serviceVars

(* Both threads are scheduled and file operations end; nothing is assumed  *)
(* of the clients, the bus or the signals.                                 *)
FairSpec == ServiceSpec /\ WF_serviceVars(Dispatch) /\ WF_serviceVars(Worker)

-----------------------------------------------------------------------------
(* Properties.                                                             *)

Serving == dispatch \in {"loop", "process", "poll", "drain", "take", "match", "emit", "answer"}

Slot == {w \in {job, hand, completion, taken} : w # None}

(* The single slot: while an epoch is served, the queued, executing,       *)
(* completed or taken job is exactly the one of the retained call, and     *)
(* without a retained call there is none.  So no completion is unmatched   *)
(* (SettingsService.cpp:155-159), and a free service never answers Busy or *)
(* burns a request id on a refused job.                                    *)
SlotIsPendingCall ==
    Serving => IF pendingCall = NoCall THEN Slot = {}
               ELSE \E w \in Slot : Slot = {w} /\ w.id = pendingId

(* No completion is stranded: one that the worker has posted is announced  *)
(* by the eventfd until the dispatch thread is about to take it, although  *)
(* the eventfd is written after the lock is released and read before it is *)
(* taken.                                                                  *)
NoLostCompletion ==
    Serving /\ completion # None /\ worker # "notify" => notified > 0 \/ dispatch = "take"

(* No wakeup of the worker is lost: it does not sleep while a job waits or *)
(* while the dispatch thread joins it.                                     *)
NoLostWakeup ==
    (Serving /\ job # None) \/ dispatch = "join" => worker # "asleep"

(* The two threads agree about the slot, the eventfd and the condition     *)
(* variable, all four together.                                            *)
ServiceInvariant == TypeOK /\ SlotIsPendingCall /\ NoLostCompletion /\ NoLostWakeup

(* A call is answered at most once, by its result, by a refusal or by      *)
(* ServiceStopping, and the service retains exactly the call it owes a     *)
(* reply.                                                                  *)
AnsweredOnce ==
    \A c \in Client :
        /\ replies[c] <= 1
        /\ Serving /\ busUp => (call[c] = "held" <=> pendingCall = c)

(* The service implements the authority its clients rely on: generations   *)
(* are installed one at a time, each announced before the next and never   *)
(* before GetCurrentSnapshot returns it, whatever is stopped, dropped or   *)
(* crashed in between.                                                     *)
Authority == INSTANCE SettingsAuthority WITH
                owned <- named,
                generation <- IF named THEN current ELSE 0,
                announced <- IF named THEN announced ELSE 0

ImplementsAuthority == Authority!AuthoritySpec

(* Every call the service retains is answered or fails with its            *)
(* connection.                                                             *)
CallsAreAnswered == \A c \in Client : call[c] = "held" ~> call[c] # "held"

(* SIGINT and SIGTERM end the daemon, whatever its threads are doing.      *)
StopTerminates == stopRequested ~> dispatch = "exited"

(* Whoever waits for the service is released in the end.                   *)
NobodyWaitsForever == CallsAreAnswered /\ StopTerminates
=============================================================================
