# Verification of the Prismdrake session, settings and shell

TLA+ specifications of the parts of Prismdrake that keep state or compute
something that others rely on: the session supervisor and its recovery policy,
the settings service, its engine and documents, the shell's client of that
service, the task mirror, notifications, the launcher from the desktop files to
the executed process, and the panel on X11. TLC checks them on small instances;
TLAPS proves, for every value of the constants, the safety of the recovery policy,
the supervisor, the settings service and its client, the engine's recovery file, the
shell's surfaces, the tasks, the notifications, the launcher and the launch of a
process, and two refinements.

Paths below are those of the repository; line numbers of the modelled code are
in `PROJECT.json` (`map`).

## 1. The system and its components

`prismdrake-session` (one thread) launches `prismdrake-settingsd` and then
`prismdrake-shell`, restarts them within a budget, falls back once to safe mode
and stops both at the end. settingsd (a dispatch thread and a worker thread)
owns `org.prismdrake.Settings1` and publishes complete, numbered settings
snapshots. The shell (one Qt event loop, and two workers for the launcher)
follows the settings over D-Bus and the windows and outputs over X11, and shows
the panel, the launcher and notifications.

| Component | State | Operations | Talks to | What is hard | What makes it correct | Module |
|---|---|---|---|---|---|---|
| Recovery policy (`session/RestartPolicy`) | exit history per role, safe mode offered, active | `observeExit`, `activateSafeMode` | called by the supervisor | rolling window, healthy interval and backoff in any mixture | bounded restart rate, one safe-mode launch | `RecoveryBudget`, `RestartPolicy` |
| Supervisor (`session/SessionSupervisor`, `ChildProcess`) | owned children, launch times, markers | `run`, `startUntilStable`, `recover`, `handleExit`, `enterSafeMode`, `stopComponent` | children by fork, signals, waitpid, an eventfd, a bus probe | a child or a signal acts between any two steps; every operating-system call can fail | no lost or doubled child, safe mode is pure, the exit status is true, shutdown ends | `SessionSupervisor` |
| Session runtime directory (`session/SessionRuntime`) | marker files | create, clean up | file system | stale directories | markers agree with the run | partly: the markers, in `SessionSupervisor` |
| Session environment and options | none | read once | environment, arguments | - | - | not modelled |
| Settings service (`settingsd/SettingsService`, `main`) | retained call, next request id, bus | five methods, `dispatchCompletion`, epochs | clients by D-Bus, the worker | stop, lost bus and crash between two steps; one slot shared by two threads | each call answered once, generations announced in order | `SettingsService` |
| Service worker (`settingsd/ServiceWorker`) | job, processing, completion, stopping | `trySubmit`, `takeCompletion`, `stop`, `run` | condition variable, eventfd | lost wakeups and notifications | nothing is stranded, joins end | `SettingsService` |
| Settings engine (`settings/`) | current snapshot, theme bundle, mode | `start`, `requestProfileChange`, `reload`, `validateCandidate` | files | fallback order, failed promotion, kills and power failures | a failed candidate changes nothing, the recovery file is trustworthy | `SettingsEngine` |
| Configuration (`config/`) | none | load, parse | files | order of sources, ranges | whatever is accepted can be published and read | `SettingsDocuments` |
| Themes (`theme/`) | none | parse, resolve | files | bounds of tokens times bounds of scales | as above | partly: `SettingsDocuments` |
| Runtime snapshot parser (`shell/settings`) | none | parse | the settings client | bounds that must not be narrower than the publisher's | every published snapshot is read | `SettingsDocuments` |
| Settings client (`shell/settings/SettingsSnapshotClient`) | state, owner, snapshot, two calls, pending fetch | `start`, `stop`, five callbacks, bus failure | bus daemon, settingsd | stale, late, lost and malformed messages; restarts of the service | the snapshot is the owner's, and current when nothing is under way | `SettingsSnapshotClient` |
| Shell runtime (`shell/runtime/ShellRuntime*`) | presentation, launcher, stopping | snapshot and state reactions, launcher, keyboard, X11 loss, shutdown | client, views, panel host | partial failure of a sequence of actions | surfaces follow the owner, a shown launcher can be dismissed | `ShellSettings`, `ShellRuntime` |
| Shutdown bridges (`FatalDisplayShutdown`, `TerminationSignalBridge`) | a latch | request, handle | Qt event loop | a queued call whose target is destroyed | a shell without display leaves | partly: `ShellRuntime` |
| X11 topology (`OutputTopology`, `RandrTopology`, `PanelStrutGeometry`) | none | read, confirm, retry, select, project | X server | outputs that change between two of a query's round trips | the result is from one moment | `OutputTopology`, `PanelWindow` |
| Panel window (`shell/window`) | placement, dock properties, visibility, keyboard | create, refresh, change of height, rollback, keyboard, drain, loss | X server, Qt | any of five writes fails, and so may the rollback | strut, geometry and visibility agree | `PanelWindow` |
| EWMH tasks (`x11/TaskModel`, `EwmhTaskSource`, `RootEventStream`, `TaskRequestState`) | names of windows, lifetimes, generations, outstanding requests | refresh, events, requests, expiry | X server, window manager | events that overtake a read; window ids that are used again | no action on a stale window, the mirror catches up | `EwmhTasks` |
| Task controller (`shell/taskcontroller`, `shell/tasks`) | rows, feedback, timer, drain | create, drain, stabilise, intents | task source, QML | events in xcb's buffer; requests against old rows | requests rest on a settled snapshot | `EwmhTasks` |
| X11 wire layer | connection, atoms | requests, replies | X server | conversion | - | partly: what a request yields |
| Notification model (`notifications`) | cards, ids, generations, deadlines | `upsert`, `dismiss`, `activateAction`, `advanceTimeouts` | an owner | replacement, limits, order of expiry | an id stands for one card, publications satisfy their contract | `Notifications` |
| Notification presentation (`shell/notifications`) | rows | `applySnapshot`, two intents | model, QML | snapshots late, out of order, never | rows show the snapshot, intents concern what was seen | `Notifications`, `RowReconciliation` |
| Development notification owner | a timer | publish, capture | model, presentation | - | - | partly: `Notifications` |
| Launcher parsing (`launcher/Desktop*`) | none | parse, identify, expand | - | precedence of locales, reserved characters | - | partly: `DesktopEntries`, `LaunchPlans` |
| Launcher catalog and search (`launcher/`) | catalog | discover, search | files | files that change during the walk; shadowing; limits | a lower root never shows what a higher one hides | `DesktopEntries`, `ApplicationDiscovery` |
| Launcher controller (`shell/launcher`) | query, generations, jobs, rows | refresh, search, launch, completions | two workers, QML | replaced and cancelled jobs, late completions | the last question is answered, what is launched was shown | `LauncherController`, `RowReconciliation` |
| Process launch (`launcher/ProcessLaunch`, `DetachedApplication`) | two pipes, two processes | plan, fork, report, wait, kill | broker, child | death, failure and deadline between any two system calls | nothing is left behind, success is true | `LaunchPlans`, `DetachedLaunch` |
| Foundation | none | bounded read, atomic replacement, generations | files | a crash half way | old or new, never torn | partly: `SettingsDocuments`, `SettingsEngine` |
| QML surfaces | - | layout | - | - | - | not modelled |

### Not modelled

- Session environment and options: a projection of environment variables and
  arguments to values, done once before anything runs. It keeps no state.
- QML: layout and presentation of the rows and values that the models hold.
- `TerminationSignalBridge`: a signalfd turned into `QCoreApplication::quit`.
- The checks of ownership, mode and staleness of the session's runtime
  directory: file-system input and output in a straight line.
- The bytes of X11 requests and replies, atoms and the pages of a property; of a
  RandR reply, its layout. What they yield, and that they fail, is modelled.
- The splitting of TOML, JSON and desktop files into values, escapes, UTF-8,
  the enumeration of `ApplicationPaths`: conversions of text, for which the
  repository's tests are the better tool. The rules about the values are modelled.
- Theme tokens that are carried and never computed with (one value, `rest`), and
  `ShellThemeSnapshotAdapter`, which turns them into QML properties.
- Of the foundation: diagnostics, XDG paths and the table of sd-bus functions.
- `tests/`, `tools/`, `experiments/` and `packaging/` are not part of the program.

## 2. Modules

| Module | Role |
|---|---|
| `RecoveryBudget` | abstract specification of recovery, without time |
| `RestartPolicy` | the policy on a clock; refines `RecoveryBudget` |
| `RestartPolicyProofs` | theorems and proofs about `RestartPolicy` |
| `SessionSupervisor` | the supervisor; EXTENDS `RecoveryBudget`, whose actions are its calls of the policy |
| `SettingsAuthority` | abstract specification of the owner of the settings |
| `SettingsService` | dispatch thread, worker thread, bus and clients; refines `SettingsAuthority` |
| `SettingsDocuments` | operators: configuration, themes, resolution, published snapshot, shell's parser |
| `SettingsEngine` | the engine and its files; EXTENDS `SettingsDocuments` |
| `SettingsSnapshotClient` | the client, the bus daemon and `SettingsAuthority` as its environment |
| `ShellSettings` | the shell's surfaces; EXTENDS `SettingsSnapshotClient` |
| `EwmhTasks` | X server, task source and model, task controller and its rows |
| `Subsequences` | an operator: the elements of a sequence at some positions |
| `RowReconciliation` | operators: how Qt list models edit their rows; EXTENDS `Subsequences` |
| `Notifications` | notification model and presentation; EXTENDS `RowReconciliation` |
| `DesktopEntries` | operators: identifiers, entries, visibility, executables |
| `ApplicationDiscovery` | one refresh of the catalog over a changing disk; EXTENDS `DesktopEntries`, `Subsequences` |
| `LauncherController` | workers, search, presentation; EXTENDS `ApplicationDiscovery`, `RowReconciliation` |
| `LaunchPlans` | operators: Exec, the plan, the check of it; EXTENDS `DesktopEntries` |
| `DetachedLaunch` | worker, broker and child; EXTENDS `LaunchPlans` |
| `OutputTopology` | operators: selection of the output, reservation |
| `PanelWindow` | X server, the RandR query and the panel host; EXTENDS `OutputTopology` |
| `ShellRuntime` | launcher, keyboard, panel and loss of X11; EXTENDS `PanelWindow` |
| `MC*` | values of the constants for TLC |
| `SessionSupervisorProofs` | theorems about `SessionSupervisor` |
| `SettingsDaemonProofs` | theorems about `SettingsService` and `SettingsEngine` |
| `SettingsClientProofs` | theorems about `SettingsSnapshotClient` and `ShellSettings` |
| `EwmhTasksProofs` | theorems about `EwmhTasks` |
| `PresentationProofs` | theorems about `Notifications`, `ApplicationDiscovery` and `LauncherController`, lemmas about `RowReconciliation` |
| `DetachedLaunchProofs` | theorems about `DetachedLaunch` |
| `ShellRuntimeProofs` | theorems about `ShellRuntime` and `PanelWindow` |

Two abstract specifications join the parts. The supervisor uses the budget and
not the clock, and the policy implements that budget. The client runs against
the authority and not the threads, and the service implements that authority.
The engine's result is a choice in `SettingsService`, and `SettingsEngine` is what
makes it; a snapshot is a panel height in `ShellRuntime`, and `ShellSettings` has
what becomes of a snapshot.

A definition whose comment begins with "Mutant" is a plausible bug in the
definition after it. No specification uses it; `PROJECT.json` names, for every
property, the mutant that violates it.

### Correspondence with the code

**RestartPolicy.** `exits`, `safeOffered` and `safeActive` are the members of
`SessionRecoveryPolicy`. `ObserveExit` is the whole of `observeExit`: the early
returns (`Terminal`), the healthy interval (`Remembered`), the pruning loop
(`PopsFront`, stated by what it leaves) and the decision (`Restart`,
`Exhausted`). `up`, `launchedAt`, `dueAt` and `session` are the supervisor reduced
to its contract: it waits for the backoff, reports an exit once, and stops after
a terminal decision. The exit is reported with the real launch time or with
`now`, since the supervisor forgets the launch time of a child it stopped
(`SessionSupervisor.cpp:496,512,538`). `granted` is a history variable.

**SessionSupervisor.** `run` and the functions it calls are unrolled into one
program counter. `ctx` is the active call of `startUntilStable`; `queue` and
`goal` are the stops in progress and what follows them. A step is the code
between two points where a child, the signal handler or the operating system
can be noticed. `child[c]` is "none" when no process is owned, "running", or the
reason of an exit not yet collected. `PollError` is a waitpid error, which may
or may not give up the process; `channel` is the private readiness descriptor and
`serving` what the bus probe would find. Each deadline is a number of slices.

**SettingsService.** `dispatch` is the position of `runServiceEpoch` and of the
handlers it calls, `worker` that of `ServiceWorker::run`. `job`, `hand`,
`completion`, `stopping` and `current` are guarded by the mutex, and a step is one
critical section or the code between two. `notified` is the eventfd. A client's
call is sent, held (retained by the service), answered or lost with its
connection.

**SettingsDocuments.** A document is its first defect, or "none", and the values
that a later stage computes with; scales are quarters. Each operator is one
function from document to result: the configuration's checks, the four theme
layers and their merge, the resolution with scales, contrast and safe mode, the
snapshot, and the shell's checks of it.

**SettingsEngine.** `start` and `reload` read files that may change before the
next step, so `step` holds what was read. The promotion of the last known valid
file is the five system calls of `writeFileAtomically`; `lkv` keeps what the
directory shows and what it may show after the power fails, which are different
until the directory is synchronised. `published` and `latest` are history
variables.

**SettingsSnapshotClient.** `client` is a record of the object's fields, and each
callback is an operator from the record and a message to the record, composed as
the code composes them, `schedulePendingFetch` and `setFailure` included.
`sound` says whether a message has the expected form and `sent` whether
`sd_bus_call_async` accepts a call. `cookie` numbers calls so that a reply to a
slot that was reset has no callback. The daemon handles the client's messages in
order and installs rules, answers owner queries, and routes fetches; `inbox` is
what it delivers, in order.

**ShellSettings.** Qt signals of the client are direct calls, so the shell's
reaction belongs to the client's step. `shown` is the snapshot that the theme
adapter holds: a refused update may leave the old one or the new one there,
depending on the step that failed.

**EwmhTasks.** A refresh is one thread's, but each of its reads is a step, and the
server and window managers change between any two of them. A reply moves the
events before it from `socket` to `buffered`. `source` maps a window to its
lifetime-forming name, `model` to its published lifetime; `birth` is the truth
that neither can see. `refresh` holds what was read so far, `ctl` the timer, the
scheduled drain and the request adapter, `pending` the requests in flight.
`server.root` says whether there is a manager and whether it has a list; a window
that goes inside its manager's frame tells the root nothing, and `server.gone`
holds it until the manager drops it from the list. A window is selected, read and
selected again in one step: a change in between that the reads see counts as one
before the step, and one that they do not see has an event in the socket.

**RowReconciliation.** `Reconcile` is the loop of `applySnapshot` in the list
models: remove what is gone, then insert, move or replace one row at a time.

**Notifications.** `model` is the implementation record, `captured` the published
snapshots that somebody still holds, `shown` and `rows` the presentation. Any
captured snapshot may be applied at any time or never. The owner's timer advances
the clock and the timeouts.

**DesktopEntries, ApplicationDiscovery.** A document is a sequence of lines whose
values are split already. `scan` is the walk: the queue of directories, what is
left of the present one, the candidates and the counters of every limit. A step
examines one directory entry, parses one file, or evaluates one TryExec. A place
whose location is refused (too long as a whole, or with a control character) is in `RejectedLocations`, and a root that becomes
unreadable while it is listed may be given up at once or go on for a while;
`touched` remembers what others changed since the scan began.

**LauncherController.** `controller` is the owner's thread, `index` and `launch` are
the two workers with their waiting and running jobs, `posted` the completions in
the owner's event loop, `view` the presentation. A refresh runs
`ApplicationDiscovery`, step by step; cancellation is noticed where the code polls
its token.

**LaunchPlans, DetachedLaunch.** The plan and its second check at the process
boundary are operators. `worker`, `broker` and `child` are positions between the
system calls that another process can observe; the two pipes hold at most one
record each, and their end shows when every writer is gone. `expired` and
`cancelled` may be set at any step. `missed` is a history variable: the group
signal was sent before the broker had made its session.

**OutputTopology, PanelWindow.** The query is one round trip per step: version,
resources, outputs, CRTCs, primary, the confirmation of resources and primary,
with the retry and the fallback to the core root. `op` is the operation under way
(create, refresh, change of height, keyboard), which the Qt thread finishes before
anything else. What several writes of dock properties, geometry and visibility may
leave is a set of outcomes, the rollback and its failure included, and so are a
native window that Qt replaced and a reply that cannot be read. `wire` counts
the hints in the socket and in xcb's buffer, `seen` is the history of configurations
since the query began.

**ShellRuntime.** `state` is `ShellRuntimeState`; each reaction executes the actions
it returns in order and stops at the first that fails, with all that the code
undoes. `loss` is the latch of `FatalDisplayShutdown`, and its queued callback is
dropped when its window is destroyed.

## 3. Runs

| Run | What it shows | Bounds |
|---|---|---|
| `restart_policy` | rate bound, ledger and order of grants, final safe mode, refinement of the budget | settingsd 1 restart in 3 units, shell 3 in 5, clock to 9 |
| `session` | ownership of children, safe mode, supervision, honest exit status; a signal and a logout end the session | 1 restart each, 2 probes, 1 backoff slice, 2 stop slices |
| `settings_service` | the slot, the eventfd, the condition variable, answers, refinement of the authority; retained calls end, a stop ends the daemon | 2 clients, 3 calls, 2 generations, 2 epochs, request ids that wrap at 3 |
| `settings_engine` | what the recovery file holds after failures, kills and power cuts; a failed reload leaves snapshot and themes together; the shell reads all that is published, but for text that is scaled below its minimum | 5 user files, 3 forge profiles, 2 accessibility palettes, 3 generations, the smallest and the largest body size and small text scales |
| `shell_settings` | the snapshot and the surfaces are the owner's, retained, and current when nothing is under way; the client comes into step, and after a fault the next announcement heals; a shell that cannot present leaves | 2 generations, 2 epochs, 1 fault, 2 starts, 2 refusals |
| `tasks` | a lifetime settles to one window, requests rest on a settled snapshot and expire, the mirror catches up | 2 window ids, 3 changes, 1 request, 1 fault, 2 attempts, 1 delay, expiry 2, ids to 6 |
| `task_lost_wakeup` | a disagreement, section 6 | 2 window ids, 2 changes |
| `notifications` | an accepted intent concerns what was seen, rows show the snapshot, a newer publication is refused only for a deadline computed at the end of the clock | 4 inputs, 2 cards, clock to 2, ids to 4, end of time 3 |
| `launcher` | shadowing, the launched entry is the shown one, the last question is answered, rows are the results | 2 roots, 15 disks, 1 refused location, 1 change by others, 2 refreshes, 1 query, 1 launch |
| `launcher_one_entry` | a disagreement, section 6 | 1 disk |
| `process_launch` | planned means accepted, nothing left behind, success is true, the worker is free again | 7 entries, 6 contexts, 1 kill by others |
| `shell_runtime` | dock properties, geometry, visibility, launcher and keyboard agree; the panel is placed from one moment and is up to date when quiet; a shell without display leaves | 2 screens, 2 configurations, 3 RandR versions, 2 heights, 3 inputs, 2 changes and failures together |

**Conjunctions.** Some properties collect named parts: `SupervisorInvariant` is
`TypeOK`, `NoLaunchOverChild`, `LaunchTimeKnown` and `SettingsSupervised`;
`HonestEnd` is `NoOrphanOnSuccess` and `OutcomeIsHonest`; `ServiceInvariant` is
`TypeOK`, `SlotIsPendingCall`, `NoLostCompletion` and `NoLostWakeup`;
`NobodyWaitsForever` is `CallsAreAnswered` and `StopTerminates`; `ClientInvariant`
is `TypeOK`, `SnapshotOfOwner`, `WaitsForACall`, `UpToDateWhenQuiet` and `DeafIsTold`;
`ComesIntoStep` is `CatchesUp` and `NewsHeals`; `RequestsAreHonest` is
`PendingIsOpen` and `AdapterMeansSettled`; `NothingIsLeftBehind` is
`SessionIsKilled` and `BrokerIsReaped`; `SurfacesAgree` is `PanelAgrees`,
`ReservationCoversPanel` and `LauncherAgrees`.

**Why the bounds are enough.** The clock of `restart_policy` lets each window
slide past a full budget and into a second one, with healthy runs in between, and
reaches safe mode; TLAPS removes the bound. One restart per component takes the
supervisor through every path: restart, exhaustion, safe mode and terminal
failure; two slices let a wait be interrupted before, between and after polls.
Two clients are the least that compete for the slot, and three calls let a
call be refused while another is held, and the slot be taken again afterwards.
Two generations let a signal arrive before, during and after a fetch; two epochs
give stale replies and signals of a dead owner. `NewsHeals` speaks of what follows
the last fault, for which one fault is enough; the invariants are proved for any
number of them, which is how the exception `Deaf` was found (section 6).

`CatchesUp` sets aside what cannot be mirrored: a root without a manager or without
a list, a list that still names a window which went inside its frame (the manager
alone is told of that), and numberings at their end.

The engine's three generations are a start, a reload and a switch, and reach the
end of the numbers; the user files differ in each value that a check compares, and
body size and scales are at the ends of their ranges, where the products of one
parser meet the bounds of the other. One window id that dies and is used again,
beside one that stays, is what a lifetime has to tell apart; three changes let the
server move before, during and after a refresh and its retry; six ids let the
numbering end. Two cards fill the list, so that a third is refused or replaces one; the
clock reaches the last time at which a deadline can have every allowed duration, and
the first at which it cannot. The disks of
the launcher hold one identifier at two paths, in one root or two, hidden, broken,
excluded, unreadable (from the start, or while it is listed), unsearchable, absent and
too many, and one location is refused; two refreshes replace, cancel and
follow one another. The outputs of the panel are two side by side, or one of them
on the other's CRTC and too low for the higher panel; two changes let a query be
disturbed, retried and disturbed again, and a failure and its failed rollback are
two failures.

`CHECK_DEADLOCK FALSE` appears where a bound, an end or a quit stops the
behaviour; the supervisor, the service and the engine never stop without an
explicit final step.

**Properties worth knowing.** `RateBound` relates any two grants of the whole
session although the policy forgets; `LedgerAgrees` is why it holds.
`NoLaunchOverChild` says that the refusal at `SessionSupervisor.cpp:124` is never
needed; `LaunchTimeKnown` that the failure at `SessionSupervisor.cpp:593` is
unreachable. `SlotIsPendingCall` says that two threads agree on one slot, so the
unmatched-completion path is unreachable. `UpToDateWhenQuiet` and `NewsHeals`
say when a client that coalesces and does not retry is still right.
`LifetimesSettle` is stated for a quiet mirror, because in between an id may well
name the window before it. `PlacedFromOneMoment` compares the result of a query
with every configuration that the server had meanwhile. `SuccessMeansExecuted` has to
allow for a child killed by others, and `NothingIsLeftBehind` for a broker that was
signalled before it had its session (section 6).

**Redundant by the bus's order.** A fetch is answered with the snapshot at the
time of the answer, and the daemon delivers in order. A signal that arrives while
a fetch is under way was sent before that fetch was answered, so its generation is
in the answer: `fetchPending_` is then a second, unneeded fetch and matters only
when the first one fails.

## 4. Fairness

- `SessionSupervisor!FairSpec`: the supervisor's thread is scheduled. Children,
  signals and bus answers may never come; all the code's waits are bounded.
- `SettingsService!FairSpec`: both threads are scheduled, and a job ends, being
  bounded file operations. Nothing is assumed of clients or signals.
- `ShellSettings!FairShellSpec`: the client's event loop runs, the daemon
  handles queued messages, and a live owner answers. Nobody has to start the
  client, publish, or take the name. Expiry is a fault and never assumed.
- `EwmhTasks!FairSpec`: the Qt loop handles a readable socket, an expired timer and
  a scheduled drain, and continues a refresh. The server may rest or not, and the
  user need not do anything.
- `DetachedLaunch!FairSpec`: the worker is scheduled and the deadline passes. Broker and
  child may stop anywhere.
- `ShellRuntime!FairSpec`: the Qt loop continues an operation and handles a readable
  socket and a queued callback. Nothing is assumed of the server or the user.

`SettingsEngine`, `Notifications` and `LauncherController` are checked for safety
alone; `AnsweredWhenQuiet` says what a launcher at rest must have done.

## 5. Proofs

TLAPS proves the following for every value of the constants that satisfies the
named assumptions of the modules: for any number of clients, faults, restarts,
publications, failures and inputs, and for queues of any length. In every proof
module a theorem `InductiveInvariant` (for the launcher `LauncherInductiveInvariant`,
or the first step of the theorem itself)
states `Spec => []IInv`, and the other theorems follow from it. `IInv` was
checked by TLC before it was proved.

| Module | Theorem | Statement |
|---|---|---|
| `RestartPolicyProofs` | `TypeCorrect` | `Spec => []TypeOK` |
| | `RateIsBounded` | `Spec => []RateBound` |
| | `OnlyTheWindowIsCharged` | `Spec => []RemembersOnlyTheWindow` |
| | `RecordIsFaithful` | `Spec => [](LedgerAgrees /\ Chronology)` |
| | `SafeModeIsTheEnd` | `Spec => SafeModeIsFinal` |
| | `PolicyImplementsBudget` | `Spec => ImplementsBudget` |
| `SessionSupervisorProofs` | `SupervisorIsConsistent` | `Spec => []SupervisorInvariant` |
| | `SafeModeIsPure` | `Spec => []SafeModePure` |
| | `EndIsHonest` | `Spec => []HonestEnd` |
| | `SupervisorKeepsBudget` | `Spec => BudgetSpec` |
| `SettingsDaemonProofs` | `ThreadsAgree` | `ServiceSpec => []ServiceInvariant` |
| | `CallsAnsweredOnce` | `ServiceSpec => []AnsweredOnce` |
| | `ServiceImplementsAuthority` | `ServiceSpec => ImplementsAuthority` |
| | `RecoveryFileIsPublished` | `Spec => []LastKnownValidWasPublished` |
| | `ThemesStayWithSnapshot` | `Spec => []SnapshotHasItsThemes` |
| | `SnapshotsAreRead` | `Spec => []ShellReadsEverySnapshot` |
| `SettingsClientProofs` | `ClientIsConsistent` | `Spec => []ClientInvariant` |
| | `LastGenerationIsRetained` | `Spec => RetainsOnceOwnerKnown` |
| | `SurfacesFollowOwner` | `ShellSpec => []SurfacesOfOwner` |
| | `PresentsOrIsLeaving` | `ShellSpec => []PresentsOrLeaves` |
| | `ShellsClientIsConsistent` | `ShellSpec => []ClientInvariant /\ RetainsOnceOwnerKnown` |
| `EwmhTasksProofs` | `RequestsStayHonest` | `Spec => []RequestsAreHonest` |
| | `LifetimesDoSettle` | `Spec => []LifetimesSettle` |
| `PresentationProofs` | `RowsFollowSnapshots` | `Spec => []RowsShowSnapshot` |
| | `IntentsAreHonest` | `Spec => []IntentsConcernWhatWasSeen` |
| | `NewerIsAccepted` | `Spec => []PublicationsAreAccepted` |
| | `FirstRootWins` | `LauncherSpec => []ShadowingIsRespected` |
| | `RowsAreTheResults` | `LauncherSpec => []RowsShowResults` |
| | `LaunchesAreHonest` | `LauncherSpec => []LaunchesWhatWasShown` |
| | `RequestsAreAnswered` | `LauncherSpec => [](Presentable => AnsweredWhenQuiet)` |
| `DetachedLaunchProofs` | `LaunchLeavesNothingBehind` | `Spec => []NothingIsLeftBehind` |
| | `SuccessIsReal` | `Spec => []SuccessMeansExecuted` |
| | `BoundaryAcceptsPlans` | `Spec => []PlansAreAccepted` |
| `ShellRuntimeProofs` | `SurfacesAlwaysAgree` | `Spec => []SurfacesAgree` |
| | `PlacementIsOfOneMoment` | `Spec => PlacedFromOneMoment` |
| | `PanelKeepsUp` | `Spec => []UpToDateWhenQuiet` |

Most assumptions only give the constants their types (`BudgetAssumption`,
`SupervisorAssumption`, `ServiceAssumption`, `AuthorityAssumption`,
`ClientAssumption`, `ShellAssumption`, `PanelAssumption`, `HeightsAssumption`,
`NotificationsAssumption`, `InputsAssumption`, `SettingsEngineAssumption`,
`LaunchAssumption`, `LauncherAssumption`). Those that say more:

- `ValidBudget` is what `validateBudget` accepts, and `Pd1Budget` what
  `pd1SessionRecoveryConfig` adds: the healthy interval is at least the window, and
  the first backoff is positive. `Pd1Budget` is needed. `validateBudget` accepts a
  healthy interval below the window, and with it a healthy run clears the history
  of restarts still inside the window, so the documented bound would not hold; and
  with a zero backoff an exit and its replacement could carry the same time.
- `SupervisorAssumption` names the two components, as the code does.
- `ServiceAssumption` has request ids wrap at two or later: with a single id, a
  completion could not be told from one of an earlier request.
- `DocumentsAssumption` says what a settings file may be: one that cannot be read,
  or a document that has a defect the parsers know, or one that has every field,
  the profile and the sizes of the theme being of their types. It does not say that
  the numbers are in range.
- `PanelAssumption` has one entry per output, which is how RandR lists them.
- `TasksAssumption` has finitely many windows (an XID has 29 bits) and bounds that
  are positive where a code constant is.
- `DiscoveryAssumption` says what a disk is: each root has a node, which may be
  "absent", at each of the paths, every directory of a path is a path too, and there
  is at least one root, since the data home is always one
  (`ApplicationPaths.cpp:51-75`).
- `InputsAssumption` gives the notifications' inputs the types of
  `NotificationModelInput`; whether they are valid is decided by the model.

**RestartPolicy.** `RateBound` speaks of all restarts ever granted and the policy
knows only some, so it is not inductive. `IInv` adds `LedgerAgrees` (the record is
the end of the true history, and what was forgotten is more than a window old),
`RemembersOnlyTheWindow`, and `Chronology` (grants are in order, and a launch comes
strictly after the last grant, which makes a healthy run as old as its whole
history). A new grant then meets either an entry the policy remembers, and there
are fewer than `maximumRestarts` of those, or one it forgot, which is out of the
window. `PruningForgetsTheOld` is the lemma about the pruning loop, and
`BackoffIsBounded` the one about the doubling loop: the backoff of every ordinal
lies between the initial and the maximum one, so that it is positive when the first
is. There is one lemma per action.

**SessionSupervisor.** Who owns which child depends on where the code is, and the
functions call one another. `IInv` says which call of `startUntilStable` or
`shutdownAll` is active at each point (`Calls`, `Queue`), which children are owned
there (`Children`), when a launch time may be missing (`LaunchTimes`: only behind a
stop that failed, which no start follows), and what the next result of `run()`
rests on (`Results`: an offer of safe mode that is not taken ends in a failure).
`SupervisorKeepsBudget` follows because the supervisor changes the budget's
variables through the actions of `RecoveryBudget` alone.

**SettingsService.** `Phases` says which phases of an epoch have a worker, a name
and a call; `OnePlace` that the request is in at most one of its four places (job,
the worker's hand, completion, the dispatch thread's hand) and which program
counters say so; `PlaceOfCall` that the one that is there belongs to the retained
call; `Installed` and `AnnouncedFirst` how far the engine's, the service's and the
announced generation may be apart; `OpenCalls` that only a named service has open
calls. `ServiceInvariant` and `AnsweredOnce` follow, and so does the refinement:
`AnnouncedFirst` is what makes an emission the announcement of exactly the next
generation, and each of the other steps an authority's step or a stutter.

**SettingsSnapshotClient, ShellSettings.** `Local` is what every callback keeps of
the client's record (`HandleKeeps`, from one lemma per callback). The rest speaks
of the queues: answers to the two match rules come before any other answer
(`RulesFirst`, `RulesAnsweredFirst`); whenever the client or a message names an
older owner or generation, the news of the newer one is behind it in the inbox
(`OwnerKnown`, `GenerationKnown`); the first fault is reported or its report is on
its way (`Reported`). `UpToDateWhenQuiet` is this with an empty inbox. For the
surfaces, `ShellIInv` adds `SurfacesOfOwner` and `PresentsOrLeaves`;
`ShellRunsTheClient` carries the client's theorems over to the shell.

**SettingsEngine.** `RecoveryInvariant` says that the file a promotion carries was
published (`PromotesPublished`), that what the directory shows and what it may show
after a power failure was published (`KeepsPublished`), and that between promotions
both are the latest document or its promotion failed (`RestsOnLatest`).
`ThemeInvariant` with `ReloadOfRunning` says what a reload in progress has read and
that the bundle in memory changes only with the snapshot. `ParsedInv` says that
whatever the daemon holds went through the parsers: the themes, the parts of the
snapshot, every file it published. `ResolvedThemes` and `ReadsBack` are then about
the pure operators: what is resolved from parsed parts is in the ranges that the
shell's parser asks for, field by field, but for the body size of section 6.

**EwmhTasks.** Requests need little: a refresh and the request adapter exclude each
other (`Settled`), and a pending request was issued for a generation already passed and
for a client that the snapshot still shows (`Requests`). For lifetimes, `Dirty` is the
set of windows that an event in the socket or in xcb's buffer tells something about.
A refresh gives a new window a name that is new (`Naming`), a name gets a lifetime of
its own (`Names`, `Lifetimes`), and what a refresh has read of a window (`ReadBirths`),
what a lifetime has shown (`OneBirth`) and what the shell shows (`ShownGoesOn`) is the
window born last under the id, unless the window is dirty. Round trips only move events from
one queue to the other (`RoundTripKeepsDirty`), a birth leaves one behind
(`ServerTells`), and whoever takes an event takes the window's name with it
(`TakenIsInvalidated`, for the batch a drain decodes). A mirror at rest has nothing
dirty, which is `LifetimesSettle`. `GivenOnce` is about the numbers that a refresh
hands out: fewer than the next one, and none twice, up to where the numbering ends.

**Notifications.** `HistoryInv` compares all snapshots that anybody still holds,
pair by pair: each is well formed, an id names one notification, and the same
notification at the same generation has the same content (`Consistent`); ids and
generations still to be given are new (`Before`). A late intent then finds either
nothing or what the user saw. `ReconcileYieldsWanted` is the lemma about the loop
that edits the rows, whatever they were: after each of its stages the rows before
the present place are the wanted ones and the rows after it are kept ones in their
order. `BytesAddUp` and `FewerBytes` are about the sum of image sizes. The library
states induction with operator parameters, which the provers cannot instantiate;
`UpTo` does it with a set of numbers and its least element, and `Recursion` gives
the recursive functions of the model their equations.

**ApplicationDiscovery, LauncherController.** `ShadowingIsRespected` speaks of files
that are there all the time; the scan knows them only bit by bit. `NoneOverlooked`
says that, unless this root was cut off and so is the last, each such file of it is a
candidate or something on the way to it is still to be read (`WillBeFound`), and
later that it is in the queue or its identifier is claimed (`WillBeClaimed`);
`EarlierClaimed` that the identifiers of all earlier roots are claimed, and
`Unshadowed` is the property. There is one lemma per step of the walk, and
`ChangeFileDiscovers` says that others can only make fewer files steady.

For the controller, `DueOnce` says that the last refresh is in one place only
(waiting, running or posted), and once it has been handled nowhere (`InOrder`);
`ViewFits` that a view of the present generation shows the controller's catalog or,
while there is none, a failed refresh; `Shown` that the rows are those of valid
results of a valid catalog, where `SearchRowsBecomeWanted` adds the loop of
substitutions to `ReconcileYieldsWanted`. A launch then finds the same entry in both
catalogs, because an identifier occurs once (`RequestLaunchIsHonest`). `NothingIsLost`
is what becomes of a question: the refresh is due or its failure shown, the search is
due, or answered, or its catalog cannot be shown. That exception is `Presentable` in
`RequestsAreAnswered`; without it the statement is false, as `launcher_one_entry`
shows.

**DetachedLaunch.** `Forks`, `Records` and `Reaps` say which process exists at each
position of the other two and what a record in a pipe says of the one that wrote
it; `Succeeds` what the absence of an error means, and `Kills` whom the group signal
reached. `missed` stays an exception (section 6). `BoundaryAcceptsPlans` needs no
invariant but that the launch is the one that was chosen. It rests on
`TurnKeepsCopy`, one turn of the loop that copies the environment (what is copied
has each name once, all PWDs are the new one, and there is one as soon as
`wrotePwd`), on `Flattening` (an expanded Exec is a sequence of texts), and on
`FirstStaysFirst` (the executable stays in front of the terminal's prefix).

**PanelWindow, ShellRuntime.** `PanelInv` says that placement, dock properties and
visibility are `Coherent` and that the keyboard goes with them (`KeyboardAgrees`);
`LauncherInv` adds the launcher, its record and the theme. `QueryInv` says that, as
long as the server's version is the one the query began with, what it has read is
what the server has, but for the outputs still to be read; that what is confirmed
existed at one moment; and that the placement prepared comes from it. `ServerInv`
types the server and notes that a lost display is a failure. `LeastNumber` is why
the outputs have a first one. `FollowsInv` follows the hints through socket, buffer
and drain: a change of the server leaves one behind, only a drain that starts a query
takes one, and so, while nothing has failed, a query or a placed panel is behind the
server only while a hint is still unread.

Only model-checked:

- Liveness and whatever needs fairness or ENABLED: `SessionEnds`,
  `NobodyWaitsForever`, `ComesIntoStep`, the tasks' `CatchesUp`, `LaunchEnds`,
  `LeavesWithDisplay` and the like.
- That the folds over lines, arguments and parts (`ParseLines`, `ReadArgument`)
  compute what their comments say: the proofs use only what is done with their
  results.

## 6. Where the code and its documents disagree

With a run that exhibits it:

1. `task_lost_wakeup`: the first refresh, and a retry that fails, schedule no drain,
   although their replies may have moved events into xcb's buffer
   (`TaskController.cpp:98,248`, against `TaskControllerCore.hpp:79`). The mirror is
   behind until another event arrives.
2. `launcher_one_entry`: one application that is started over D-Bus and has no Exec
   makes the presentation refuse the whole catalog, and the error state that should
   replace it too (`LauncherPresentationModel.cpp:101`, against
   `docs/research/pd1-launcher-model-evidence.md:197-199`).

Met while modelling, and stated as exceptions in the properties or visible in the
actions; no run of their own:

- Session. A shell that exits cleanly before it is ready leaves a session that is
  marked ready and has no shell (`SessionSupervisor.cpp:380`, against
  `docs/architecture/process-model.md:29-31`). A shutdown during a restart of
  settingsd stops settingsd before the shell (`SessionSupervisor.cpp:485`, against
  `process-model.md:83-85`).
- Settings client. An owner query that expires after a signal named the owner
  discards a good snapshot (`SettingsSnapshotClient.cpp:337`, against its recovery
  text at line 43). A bus lost by a client that has already failed is not reported
  (`SettingsSnapshotClient.cpp:555`, against `configuration.md:157-159`). A client that
  starts before the service stays "connecting" when the query says that nobody owns
  the name, because `applyOwner` returns for an unchanged, empty owner. A match rule
  that is refused when the client has failed already changes no state
  (`SettingsSnapshotClient.cpp:554-566`), so that nobody is told of a client that
  becomes ready later and hears of no further generation: `DeafIsTold` holds up to
  one fault.
- Shell. When the keyboard cannot be released at the loss of the owner, the
  surfaces of the lost epoch stay (`ShellRuntime.cpp:286`, against
  `ShellRuntimeState.hpp:22`). Surfaces that refused an update are not brought up to
  date before the next publication (`ShellRuntime.cpp:198`, against
  `process-model.md:65-67`). `openLauncher` records the launcher as visible before
  the panel releases the keyboard; when that fails the launcher is not shown and
  cannot be opened until the owner changes or a launch completes.
- Panel. `drainEvents` makes round trips without a drain to follow and ignores
  `examinationLimitReached`, so that hints moved to xcb's buffer by queries and
  keyboard changes wait for the next event; an event that cannot be decoded drops the
  hints before it (`RootEventStream.cpp:403-405`). `PanelWindowHost.hpp` says that
  a failed change of height retains the previous height and placement; when the
  rollback fails too, the window is hidden. A CRTC that moves between two reads is
  malformed and not retried, and the panel takes the whole root until the next hint.
- Notifications. Near the end of the clock the model stores a deadline that its
  own validator refuses: it wants room for the duration that was asked for
  (`NotificationModel.cpp:268`), and the validator for the longest one
  (`NotificationModel.cpp:347-349`), against "by construction" in
  `NotificationModel.hpp:191`. The presentation refuses such a snapshot; `PublicationsAreAccepted` says exactly when.
- Themes. A theme may have a body size of 8 and text may be scaled by three quarters
  (`ThemeParser.cpp:751`); the result, 6, is below what the shell's parser and the
  schema accept (`RuntimeSnapshotParser.cpp:555`,
  `schemas/prismdrake-runtime-snapshot.schema.json:403`), so the shell refuses the
  published snapshot. The packaged themes, 14 to 19, do not meet it;
  `ShellReadsEverySnapshot` says exactly when.
- Launcher. A root whose entries cannot be examined no longer shadows lower roots
  (`DesktopEntryDiscovery.cpp:229-232`; `Steady` leaves its files out). An error of one TryExec look-up ends the whole
  catalog (`ApplicationCatalog.cpp:155-157`). An entry that is D-Bus activatable and
  has an Exec is shown, and launching it is always "unsupported".
- Process launch. The end of the error pipe counts as success, also when the child
  was killed before `execve` (`DetachedApplication.cpp:409-410`, against
  `pd1-launcher-model-evidence.md:187-189`). A broker that has not made its session
  is not reached by the group signal, and a child made before the second signal
  survives (`DetachedApplication.cpp:452`, against
  `pd1-launcher-model-evidence.md:181-182`): the exception `missed`.
- Wording only: `failure-and-fallbacks.md:10` says that consumers retain their last
  generation when settingsd crashes, which contradicts `configuration.md:157` and the
  code.

## 7. What is left out of the modelled parts

- The wording and causes of errors; every failure of one kind is one fault.
- Time, except in `RestartPolicy` and `Notifications`. A timeout is a wait that may
  end early.
- Starvation of settingsd's dispatch loop by a client that never stops calling
  (`SettingsService.cpp:503`): calls are bounded in the runs.
- The effects of a job whose caller was told `ServiceStopping`: the reply promises
  nothing about them.
- `maximumDispatchBatch`, which only splits one callback loop into two.
- Qt and the window manager agree on the panel's geometry. A change of the primary output is assumed to send a RandR hint.
- A task window's selection, its reads and its second selection are one step
  (`ReadWindow`), for the reason given in section 2.
- The task controller has a connection of its own to the display, and tells the same
  latch of its loss; `ShellRuntime` has the panel's.

## 8. State of the project

Every component that keeps state is modelled, each safety property that a passing run
checks is proved, and the action properties but for those about progress. What a
further step could add is liveness, for which a prover of fairness is missing, and an
inductive proof of what the folds over lines and arguments compute.
