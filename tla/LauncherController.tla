--------------------------- MODULE LauncherController ---------------------------
(***************************************************************************)
(* The launcher of the shell: the controller on the owner's thread, its    *)
(* replaceable index worker, its single-flight launch worker, the search,  *)
(* and the presentation model whose rows the user sees and activates.      *)
(*                                                                         *)
(* The index worker takes one job at a time and posts its result to the    *)
(* owner's event loop; a newer job replaces the waiting one and cancels    *)
(* the running one.  A refresh runs ApplicationDiscovery.                  *)
(***************************************************************************)
EXTENDS ApplicationDiscovery, RowReconciliation

CONSTANTS
    NameOrder,        \* names in the order of their folded text
    IdOrder,          \* identifiers in lexical order
    Queries,          \* texts: sequences of words, "\\" for one that is refused
    MaxTokens,        \* maximumApplicationSearchQueryTokens
    Shape,            \* Shape[text][token]: 0 exact .. 3 substring, 4 for none
    ResultLimit,      \* maximumApplicationSearchResults
    MaxRefreshes, MaxQueries, MaxLaunches    \* bounds

ASSUME LauncherAssumption == ResultLimit \in Nat

VARIABLES
    controller,       \* generations, query and catalog_
    index,            \* the index worker: pending_index_, the job, its cancellation
    posted,           \* completions in the owner's event loop
    launch,           \* pending_launch_, and the entry being launched
    view,             \* LauncherPresentationModel
    launches,         \* how many were accepted
    stopping
ownerVars == <<controller, posted, view, launches, stopping>>
launcherVars == <<discoveryVars, ownerVars, index, launch>>

Position(order, x) == CHOOSE i \in DOMAIN order : order[i] = x

-----------------------------------------------------------------------------
(* The search.                                                             *)

ParseApplicationSearchQuery(text) ==
    IF "\\" \in ToSet(text) THEN Failure("validation_error")
    ELSE IF Len(text) > MaxTokens THEN Failure("too_large") ELSE Success(text)

NoMatch == 255
Rank(shape, field) == shape * 4 + field
Least(ranks) == IF ranks = {} THEN NoMatch ELSE CHOOSE r \in ranks : \A q \in ranks : r <= q

(* The best match of a text in the name (field 0) and the keywords (2).    *)
BestMatch(e, needle) ==
    LET Ranks(texts, field) ==
            {Rank(Shape[x][needle], field) : x \in {y \in texts : Shape[y][needle] < 4}}
    IN  Least(Ranks({e.name[1]}, 0) \cup Ranks(e.keywords, 2))

Phrase(query) == IF Len(query) = 1 THEN query[1] ELSE "phrase"
SumOf(ranks) == FoldLeft(LAMBDA acc, r : acc + r, 0, ranks)

ScoreEntry(d, query) ==
    LET ranks == [t \in DOMAIN query |-> BestMatch(d.entry, query[t])]
    IN  IF query = <<>> THEN <<0, 0, 0>>
        ELSE <<BestMatch(d.entry, Phrase(query)), SumOf(ranks),
               CHOOSE r \in ToSet(ranks) : \A q \in ToSet(ranks) : q <= r>>

Matches(d, query) == \A t \in DOMAIN query : BestMatch(d.entry, query[t]) # NoMatch

SortKey(d, query) ==
    ScoreEntry(d, query) \o <<Position(NameOrder, d.entry.name[1]), Position(IdOrder, d.id)>>
KeyLess(a, b) ==
    \E n \in DOMAIN a : a[n] < b[n] /\ \A m \in 1..(n - 1) : a[m] = b[m]

Matching(catalog, query) ==
    {i \in ToSet(catalog.eligible) : Matches(catalog.entries[i], query)}

(* The best ResultLimit matches, in their order.                           *)
Results(catalog, query) ==
    LET matching == Matching(catalog, query)
        Better(i) == {j \in matching : KeyLess(SortKey(catalog.entries[j], query),
                                               SortKey(catalog.entries[i], query))}
        Best(n) == CHOOSE i \in matching : Cardinality(Better(i)) = n - 1
    IN  [n \in 1..(IF Cardinality(matching) < ResultLimit
                   THEN Cardinality(matching) ELSE ResultLimit) |-> Best(n)]

SearchState(catalog, results) ==
    IF catalog.eligible = <<>> THEN "emptyCatalog"
    ELSE IF results = <<>> THEN "noResults" ELSE "results"

SearchSnapshot(catalog, request, query) ==
    LET results == Results(catalog, query)
    IN  [catalogGeneration |-> catalog.generation, requestGeneration |-> request,
         state |-> SearchState(catalog, results), results |-> results,
         truncated |-> Cardinality(Matching(catalog, query)) > ResultLimit]

ErrorSnapshot(catalogGeneration, request) ==
    [catalogGeneration |-> catalogGeneration, requestGeneration |-> request,
     state |-> "error", results |-> <<>>, truncated |-> FALSE]

(* createApplicationSearch takes a catalog only if it is consistent.       *)
CatalogIsConsistent(c) ==
    /\ \A i, j \in DOMAIN c.entries : c.entries[i].id = c.entries[j].id => i = j
    /\ \A n \in DOMAIN c.visible :
           c.visible[n] \in DOMAIN c.entries /\ IsVisible(c.entries[c.visible[n]].entry)
    /\ IsInjective(c.visible)
    /\ c.eligible = Kept(c.visible, {n \in DOMAIN c.visible : c.visible[n] \in ToSet(c.eligible)})

Catalog(generation, s) ==
    [generation |-> generation, entries |-> s.entries, visible |-> s.visible,
     eligible |-> s.eligible]
RefreshErrorCatalog(generation) == Catalog(generation, NoScan)

-----------------------------------------------------------------------------
(* The presentation model.                                                 *)

NoView == [catalog |-> Absent, search |-> Absent, rows |-> <<>>]

ValidLiteral(text) == text # Present("\r")

(* One entry that cannot be shown makes the whole catalog unpresentable.   *)
ValidateCatalog(c) ==
    /\ CatalogIsConsistent(c)
    /\ \A n \in DOMAIN c.eligible :
           LET e == c.entries[c.eligible[n]].entry
           IN  e.name # Absent /\ e.exec # Absent /\ ValidLiteral(e.name)

ValidateSearch(c, search) ==
    /\ search.catalogGeneration = c.generation
    /\ ToSet(search.results) \subseteq ToSet(c.eligible) /\ IsInjective(search.results)
    /\ CASE search.state = "results" -> search.results # <<>>
         [] search.state = "emptyCatalog" -> c.eligible = <<>> /\ ~search.truncated
         [] search.state = "noResults" ->
                c.eligible # <<>> /\ search.results = <<>> /\ ~search.truncated
         [] search.state = "error" -> search.results = <<>> /\ ~search.truncated

Newer(search, shown) ==
    \/ search.catalogGeneration > shown.catalogGeneration
    \/ /\ search.catalogGeneration = shown.catalogGeneration
       /\ search.requestGeneration > shown.requestGeneration

AcceptsSearch(v, catalog, search) ==
    /\ ValidateCatalog(catalog) /\ ValidateSearch(catalog, search)
    /\ \/ v.search = Absent
       \/ Newer(search, v.search[1])
       \/ v.catalog = Present(catalog) /\ v.search = Present(search)

ResultRow(d) == [key |-> d.id, name |-> d.entry.name[1], terminal |-> d.entry.terminal]
ResultRows(catalog, search) ==
    [n \in DOMAIN search.results |-> ResultRow(catalog.entries[search.results[n]])]
(* Mutant: a row stays when its application does.                          *)
MissingRows(rows, wanted) == {n \in DOMAIN wanted : ~HasKey(rows, wanted[n].key)}

ReplacedRows(rows, wanted) == {n \in DOMAIN wanted : wanted[n] \notin ToSet(rows)}

(* Where neither the old nor the new application is elsewhere in the rows, *)
(* the new one takes the place of the old one.                             *)
SubstituteRow(rows, wanted, n) ==
    IF n \in DOMAIN rows /\ ~HasKey(wanted, rows[n].key) /\ ~HasKey(rows, wanted[n].key)
    THEN [rows EXCEPT ![n] = wanted[n]] ELSE rows
SubstituteRows(rows, wanted) ==
    LET stage[n \in 0..Len(wanted)] ==
            IF n = 0 THEN rows ELSE SubstituteRow(stage[n - 1], wanted, n)
    IN  stage[Len(wanted)]

ApplySearch(v, catalog, search) ==
    LET wanted == ResultRows(catalog, search)
    IN  IF ~AcceptsSearch(v, catalog, search) THEN v
        ELSE [catalog |-> Present(catalog), search |-> Present(search),
              rows |-> Reconcile(SubstituteRows(v.rows, wanted), wanted,
                                 ReplacedRows(v.rows, wanted))]

-----------------------------------------------------------------------------
(* The workers: one waiting job, one running job, and a mutex each.        *)

RefreshJob(generation) == [kind |-> "refresh", generation |-> generation]
SearchJob(c) ==
    [kind |-> "search", catalog |-> c.catalog[1], catalogGeneration |-> c.catalogGeneration,
     requestGeneration |-> c.requestGeneration, query |-> c.query]

(* The newest job replaces the waiting one, and cancels the running one.   *)
SubmitIndex(job) ==
    index' = [index EXCEPT !.pending = Present(job), !.cancelled = (index.running # Absent)]

Running(kind) == index.running # Absent /\ index.running[1].kind = kind

TakeIndexJob ==
    /\ index.running = Absent /\ index.pending # Absent /\ ~stopping
    /\ index' = [pending |-> Absent, running |-> index.pending, cancelled |-> FALSE]
    /\ IF index.pending[1].kind = "refresh"
       THEN scan' = NewScan /\ touched' = {}
       ELSE UNCHANGED <<scan, touched>>
    /\ UNCHANGED <<diskVars, ownerVars, launch>>

(* The token is looked at before every unit of work.                       *)
DiscoverOne ==
    /\ Running("refresh") /\ ~index.cancelled /\ PullStep
    /\ UNCHANGED <<diskVars, touched, ownerVars, index, launch>>

Complete(completion) ==
    /\ posted' = Append(posted, completion)
    /\ index' = [index EXCEPT !.running = Absent, !.cancelled = FALSE]
    /\ UNCHANGED <<diskVars, controller, view, launches, stopping, launch>>

FinishRefresh ==
    /\ Running("refresh") /\ CatalogEnded
    /\ LET generation == index.running[1].generation
       IN  Complete([kind |-> "refresh", generation |-> generation,
                     result |-> IF scan.error = "none" THEN Success(Catalog(generation, scan))
                                ELSE Failure(scan.error)])
    /\ scan' = NoScan /\ touched' = {}

FinishSearch ==
    /\ Running("search")
    /\ LET job == index.running[1]
       IN  Complete([kind |-> "search", catalogGeneration |-> job.catalogGeneration,
                     requestGeneration |-> job.requestGeneration,
                     result |-> Success(SearchSnapshot(job.catalog, job.requestGeneration, job.query))])
    /\ UNCHANGED <<scan, touched>>

ObserveCancellation ==
    /\ index.running # Absent /\ index.cancelled
    /\ LET job == index.running[1]
       IN  Complete(IF job.kind = "refresh"
                    THEN [kind |-> "refresh", generation |-> job.generation,
                          result |-> Failure("cancelled")]
                    ELSE [kind |-> "search", catalogGeneration |-> job.catalogGeneration,
                          requestGeneration |-> job.requestGeneration, result |-> Failure("cancelled")])
    /\ scan' = NoScan /\ touched' = {}

TakeLaunch ==
    /\ launch.pending # Absent /\ ~launch.processing /\ ~stopping
    /\ launch' = [pending |-> Absent, running |-> launch.pending, processing |-> TRUE]
    /\ UNCHANGED <<discoveryVars, ownerVars, index>>

(* The completion is posted before the worker is ready for another launch. *)
FinishLaunch ==
    /\ launch.running # Absent
    /\ \E succeeded \in BOOLEAN :
           posted' = Append(posted, [kind |-> "launch", succeeded |-> succeeded])
    /\ launch' = [launch EXCEPT !.running = Absent]
    /\ UNCHANGED <<discoveryVars, controller, view, launches, stopping, index>>

ReadyForLaunch ==
    /\ launch.processing /\ launch.running = Absent
    /\ launch' = [launch EXCEPT !.processing = FALSE]
    /\ UNCHANGED <<discoveryVars, ownerVars, index>>

-----------------------------------------------------------------------------
(* The controller, on the owner's thread.                                  *)

(* Mutant: the catalog of the last refresh stays until the next one ends.  *)
StartRefreshKeepingCatalog(c) == [c EXCEPT !.catalogGeneration = @ + 1]

StartRefresh(c) == [c EXCEPT !.catalogGeneration = @ + 1, !.catalog = Absent]

Refresh ==
    /\ ~stopping /\ controller.catalogGeneration < MaxRefreshes
    /\ controller' = StartRefresh(controller)
    /\ SubmitIndex(RefreshJob(controller.catalogGeneration + 1))
    /\ UNCHANGED <<discoveryVars, posted, view, launches, stopping, launch>>

SetSearchQuery ==
    /\ ~stopping /\ controller.requestGeneration <= MaxQueries
    /\ \E text \in Queries :
           LET parsed == ParseApplicationSearchQuery(text)
           IN  /\ Ok(parsed)
               /\ controller' = [controller EXCEPT !.query = parsed.value, !.requestGeneration = @ + 1]
    /\ IF controller.catalog # Absent THEN SubmitIndex(SearchJob(controller')) ELSE UNCHANGED index
    /\ UNCHANGED <<discoveryVars, posted, view, launches, stopping, launch>>

Delivers(kind) == ~stopping /\ posted # <<>> /\ Head(posted).kind = kind
CurrentError == ErrorSnapshot(controller.catalogGeneration, controller.requestGeneration)

HandleRefreshCompletion ==
    /\ Delivers("refresh") /\ posted' = Tail(posted)
    /\ LET completion == Head(posted)
           result     == completion.result
       IN  IF completion.generation # controller.catalogGeneration
           THEN UNCHANGED <<controller, view, index>>
           ELSE IF ~Ok(result)
           THEN /\ view' = ApplySearch(view, RefreshErrorCatalog(completion.generation), CurrentError)
                /\ UNCHANGED <<controller, index>>
           ELSE /\ controller' = [controller EXCEPT !.catalog = Present(result.value)]
                /\ SubmitIndex(SearchJob(controller'))
                /\ UNCHANGED view
    /\ UNCHANGED <<discoveryVars, launches, stopping, launch>>

HandleSearchCompletion ==
    /\ Delivers("search") /\ posted' = Tail(posted)
    /\ LET completion == Head(posted)
           result     == completion.result
           catalog    == controller.catalog[1]
       IN  view' = IF \/ completion.catalogGeneration # controller.catalogGeneration
                      \/ completion.requestGeneration # controller.requestGeneration
                      \/ controller.catalog = Absent THEN view
                   ELSE IF Ok(result) /\ AcceptsSearch(view, catalog, result.value)
                   THEN ApplySearch(view, catalog, result.value)
                   ELSE ApplySearch(view, catalog, CurrentError)
    /\ UNCHANGED <<discoveryVars, controller, index, launches, stopping, launch>>

HandleLaunchCompletion ==
    /\ Delivers("launch") /\ posted' = Tail(posted)
    /\ UNCHANGED <<discoveryVars, controller, index, view, launches, stopping, launch>>

(* Mutant: an intent is taken for what the controller has now.             *)
IntentIsAnyway(intent) == controller.catalog # Absent /\ view.search # Absent

IntentIsCurrent(intent) ==
    /\ controller.catalog # Absent /\ view.search # Absent
    /\ intent.catalogGeneration = controller.catalogGeneration
    /\ intent.requestGeneration = controller.requestGeneration

IntentFor(row) ==
    [id |-> row.key, catalogGeneration |-> view.catalog[1].generation,
     requestGeneration |-> view.search[1].requestGeneration]

EntriesWithId(catalog, results, id) ==
    {i \in ToSet(results) \cap DOMAIN catalog.entries : catalog.entries[i].id = id}

(* The user activates a row; launch.pending also records what it showed.   *)
RequestLaunch ==
    /\ ~stopping /\ launches < MaxLaunches /\ ~launch.processing /\ launch.pending = Absent
    /\ \E n \in DOMAIN view.rows :
           LET intent  == IntentFor(view.rows[n])
               results == view.search[1].results
           IN  /\ IntentIsCurrent(intent)
               /\ \E i \in EntriesWithId(controller.catalog[1], results, intent.id) :
                  \E j \in EntriesWithId(view.catalog[1], results, intent.id) :
                      launch' = [launch EXCEPT !.pending =
                                    Present([entry |-> controller.catalog[1].entries[i],
                                             shown |-> view.catalog[1].entries[j]])]
    /\ launches' = launches + 1
    /\ UNCHANGED <<discoveryVars, controller, index, posted, view, stopping>>

Stop ==
    /\ ~stopping /\ stopping' = TRUE
    /\ index' = [index EXCEPT !.pending = Absent, !.cancelled = (index.running # Absent)]
    /\ launch' = [launch EXCEPT !.pending = Absent]
    /\ UNCHANGED <<discoveryVars, controller, posted, view, launches>>

OthersChangeFile == ChangeFile /\ UNCHANGED <<scan, ownerVars, index, launch>>

LauncherInit ==
    /\ disk \in InitialDisks /\ programs = InitialPrograms /\ diskChanges = 0
    /\ scan = NoScan /\ touched = {}
    /\ controller = [catalogGeneration |-> 0, requestGeneration |-> 1, query |-> <<>>, catalog |-> Absent]
    /\ index = [pending |-> Absent, running |-> Absent, cancelled |-> FALSE]
    /\ posted = <<>> /\ launch = [pending |-> Absent, running |-> Absent, processing |-> FALSE]
    /\ view = NoView /\ launches = 0 /\ stopping = FALSE

LauncherNext ==
    \/ TakeIndexJob \/ DiscoverOne \/ FinishRefresh \/ FinishSearch \/ ObserveCancellation
    \/ TakeLaunch \/ FinishLaunch \/ ReadyForLaunch
    \/ Refresh \/ SetSearchQuery \/ HandleRefreshCompletion \/ HandleSearchCompletion
    \/ HandleLaunchCompletion \/ RequestLaunch \/ Stop \/ OthersChangeFile

LauncherSpec == LauncherInit /\ [][LauncherNext]_launcherVars

-----------------------------------------------------------------------------
(* What is executed is the entry the activated row stood for, although the *)
(* catalog and the results are replaced while the row is on the screen     *)
(* (LauncherController.cpp:456, LauncherPresentationModel.cpp:431).        *)
LaunchesWhatWasShown ==
    \A job \in ToSet(launch.pending) \cup ToSet(launch.running) : job.entry = job.shown

(* When nothing is waiting, running or posted, the user sees the answer to *)
(* the last query over the last catalog, or that the last refresh failed:  *)
(* no replacement or cancellation of a job loses the request it stood for  *)
(* (LauncherController.cpp:184, 393, 420).                                 *)
Quiet ==
    /\ index.pending = Absent /\ index.running = Absent /\ posted = <<>>
    /\ controller.catalogGeneration > 0 /\ ~stopping
AnsweredWhenQuiet ==
    Quiet =>
        /\ view.search # Absent
        /\ view.search[1].catalogGeneration = controller.catalogGeneration
        /\ \/ view.search[1].requestGeneration = controller.requestGeneration
           \/ controller.catalog = Absent /\ view.search[1].state = "error"

(* The rows, edited one by one from what was shown before, are those of    *)
(* the results (LauncherPresentationModel.cpp:268-362).                    *)
RowsShowResults ==
    view.search # Absent => view.rows = ResultRows(view.catalog[1], view.search[1])
=============================================================================
