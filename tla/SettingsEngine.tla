----------------------------- MODULE SettingsEngine -----------------------------
(***************************************************************************)
(* The settings engine (src/src/settings), its loader (src/src/config) and *)
(* the files it lives on: the user's configuration and the packaged one,   *)
(* the theme documents, and the last known valid configuration, which the  *)
(* engine itself writes with foundation::writeFileAtomically.  Files       *)
(* change at any time; the daemon and the machine stop at any step.        *)
(***************************************************************************)
EXTENDS SettingsDocuments

CONSTANTS
    UserFiles,      \* what config.toml may be
    Packaged,       \* the packaged default
    Themes,         \* per layer, the documents its file may hold
    LastGeneration  \* stands for the last value of a 64-bit generation

ASSUME SettingsEngineAssumption ==
    LastGeneration \in Nat \ {0} /\ DOMAIN Themes = {Layers[i] : i \in 1..4}

(* A file is read or it is not; a document has one of the defects that the *)
(* parsers know, or it has every value, of the type that its field has.    *)
ASSUME DocumentsAssumption ==
    /\ \A file \in UserFiles \cup {Packaged} : Holds(file, IsConfigurationDocument)
    /\ \A layer \in DOMAIN Themes : \A file \in Themes[layer] : Holds(file, IsThemeDocument)

VARIABLES
    user,       \* config.toml
    themes,     \* the files of the theme directory
    lkv,        \* last-known-valid-config.toml: what the directory shows,
                \* and what it may show after the power fails
    engine,     \* SettingsEngine, gone while the daemon is down
    step,       \* where a start or a reload is
    published,  \* history: the user documents that were published
    latest      \* history: the last of them, Unkept if it could not be kept

vars == <<user, themes, lkv, engine, step, published, latest>>

Unkept == [kind |-> "none", document |-> <<>>]
Down == [running |-> FALSE]
Idle == [at |-> "idle"]

(* Half a document: it parses, and keys are missing.                       *)
Torn == [defect |-> "shape", values |-> <<>>]

-----------------------------------------------------------------------------
(* Loading.                                                                *)

LoadSource(file, source) ==
    AndThen(AndThen(ReadBoundedFile(file), ParseConfiguration),
            LAMBDA c : Success([configuration |-> c, source |-> source, warnings |-> <<>>,
                                file |-> file]))

LoadPackagedConfiguration == LoadSource(Packaged, "packaged_default")

(* A missing file asks for the defaults; a bad one for what was last good. *)
LoadStartupConfiguration ==
    LET own  == LoadSource(user, "user")
        last == LoadSource(lkv.shown, "last_known_valid")
        Issue(warnings, result) ==
            AndThen(result, LAMBDA c : Success([c EXCEPT !.warnings = warnings]))
    IN  IF Ok(own) THEN own
        ELSE IF own.error = "not_found" THEN LoadPackagedConfiguration
        ELSE IF Ok(last) THEN Issue(<<"invalid_user">>, last)
        ELSE IF last.error = "not_found" THEN Issue(<<"invalid_user">>, LoadPackagedConfiguration)
        ELSE Issue(<<"invalid_user", "invalid_last_known_valid">>, LoadPackagedConfiguration)

LoadReloadConfiguration ==
    LET own == LoadSource(user, "user")
    IN  IF Ok(own) \/ own.error # "not_found" THEN own ELSE LoadPackagedConfiguration

-----------------------------------------------------------------------------
(* Candidates and publications.                                            *)

BuildCandidate(bundle, safeMode, c, source, override, warnings) ==
    LET effective == IF safeMode THEN WithOptionalIntegrationsDisabled(c) ELSE c
    IN  AndThen(ResolveTheme(bundle, effective, safeMode),
            LAMBDA theme : Success([configuration |-> effective, source |-> source,
                                    override |-> override, theme |-> theme,
                                    warnings |-> warnings]))

(* The snapshot after publishing a candidate: the same one if nothing      *)
(* changed, otherwise the next generation.  serialized: whether the text   *)
(* of the new snapshot can be made and is within the transport's limit.    *)
PublishedAfter(current, candidate, serialized) ==
    IF current.generation # 0 /\ current.candidate = candidate THEN Success(current)
    ELSE IF current.generation = LastGeneration THEN Failure("overflow")
    ELSE IF ~serialized THEN Failure("serialization")
    ELSE Success([generation |-> current.generation + 1, candidate |-> candidate])

NoSnapshot == [generation |-> 0, candidate |-> <<>>]

(* Only a user's document is kept, in normal mode, and on a reload only    *)
(* when it changed something.                                              *)
Promotes(loaded, safeMode) == ~safeMode /\ loaded.source = "user"

Promotion(file) == [at |-> "create", file |-> file, existed |-> lkv.shown]

Record(promotes, file) ==
    IF promotes THEN published' = published \cup {file} /\ latest' = file
    ELSE UNCHANGED <<published, latest>>

-----------------------------------------------------------------------------
(* SettingsEngine::start: the themes, the configuration, the publication.  *)

Start(safeMode) ==
    /\ ~engine.running /\ step = Idle
    /\ LET bundle == LoadThemeBundle(themes)
       IN  Ok(bundle) /\ step' = [at |-> "start", bundle |-> bundle.value, safeMode |-> safeMode]
    /\ UNCHANGED <<user, themes, lkv, engine, published, latest>>

FinishStart ==
    /\ step.at = "start"
    /\ \E serialized \in BOOLEAN :
       LET startup   == IF step.safeMode THEN LoadPackagedConfiguration
                        ELSE LoadStartupConfiguration
           candidate == AndThen(startup, LAMBDA s :
                            BuildCandidate(step.bundle, step.safeMode, s.configuration,
                                           s.source, FALSE, s.warnings))
           snapshot  == AndThen(candidate, LAMBDA c : PublishedAfter(NoSnapshot, c, serialized))
       IN  IF Ok(snapshot)
           THEN LET promotes == Promotes(startup.value, step.safeMode)
                IN  /\ engine' = [running |-> TRUE, safeMode |-> step.safeMode,
                                  bundle |-> step.bundle, current |-> snapshot.value]
                    /\ step' = IF promotes THEN Promotion(startup.value.file) ELSE Idle
                    /\ Record(promotes, startup.value.file)
           ELSE step' = Idle /\ UNCHANGED <<engine, published, latest>>
    /\ UNCHANGED <<user, themes, lkv>>

-----------------------------------------------------------------------------
(* SettingsEngine::requestProfileChange and reload.                        *)

(* A request that fails, whichever call fails, changes nothing.            *)
RequestProfileChange(profile) ==
    \E serialized \in BOOLEAN :
    LET now       == engine.current.candidate
        candidate == BuildCandidate(engine.bundle, engine.safeMode,
                        WithProfile(now.configuration, profile), now.source, TRUE, now.warnings)
        snapshot  == AndThen(candidate, LAMBDA c : PublishedAfter(engine.current, c, serialized))
    IN  /\ engine.running /\ step = Idle
        /\ now.configuration.profile # profile
        /\ Ok(snapshot)
        /\ engine' = [engine EXCEPT !.current = snapshot.value]
        /\ UNCHANGED <<user, themes, lkv, step, published, latest>>

Reload ==
    /\ engine.running /\ step = Idle
    /\ LET reloaded == IF engine.safeMode THEN LoadPackagedConfiguration
                       ELSE LoadReloadConfiguration
       IN  Ok(reloaded) /\ step' = [at |-> "reload", reloaded |-> reloaded.value]
    /\ UNCHANGED <<user, themes, lkv, engine, published, latest>>

(* Mutant: the new themes stay when the candidate fails.                   *)
ReloadRefusedKeepingBundle(bundle) ==
    /\ engine' = IF Ok(bundle) THEN [engine EXCEPT !.bundle = bundle.value] ELSE engine
    /\ step' = Idle /\ UNCHANGED <<published, latest>>

ReloadRefused(bundle) == step' = Idle /\ UNCHANGED <<engine, published, latest>>

FinishReload ==
    /\ step.at = "reload"
    /\ \E serialized \in BOOLEAN :
       LET bundle    == LoadThemeBundle(themes)
           candidate == AndThen(bundle, LAMBDA b :
                            BuildCandidate(b, engine.safeMode, step.reloaded.configuration,
                                           step.reloaded.source, FALSE, <<>>))
           snapshot  == AndThen(candidate, LAMBDA c : PublishedAfter(engine.current, c, serialized))
       IN  IF Ok(snapshot)
           THEN LET promotes == /\ Promotes(step.reloaded, engine.safeMode)
                                /\ snapshot.value # engine.current
                IN  /\ engine' = [engine EXCEPT !.bundle = bundle.value,
                                                !.current = snapshot.value]
                    /\ step' = IF promotes THEN Promotion(step.reloaded.file) ELSE Idle
                    /\ Record(promotes, step.reloaded.file)
           ELSE ReloadRefused(bundle)
    /\ UNCHANGED <<user, themes, lkv>>

-----------------------------------------------------------------------------
(* writeFileAtomically, on the last known valid file.  Until it is         *)
(* synchronized, a temporary file may lose its contents with the power;    *)
(* until the directory is, so may the new name.                            *)

At(place) == step.at = place
Unsynced(file) == [file EXCEPT !.document = Torn]

(* Any call may fail; the temporary file goes with it.                     *)
PromotionFails ==
    /\ step.at \in {"create", "synchronize", "rename"}
    /\ step' = Idle /\ latest' = Unkept
    /\ UNCHANGED <<user, themes, lkv, engine, published>>

(* Create, permissions, write.                                             *)
CreateTemporaryFile ==
    /\ At("create")
    /\ step' = [at |-> "synchronize", file |-> step.file, existed |-> step.existed,
                durable |-> Unsynced(step.file)]
    /\ UNCHANGED <<user, themes, lkv, engine, published, latest>>

(* Mutant: the file is not synchronized before it gets its name.           *)
SkipSynchronize ==
    /\ At("synchronize")
    /\ step' = [step EXCEPT !.at = "rename"]
    /\ UNCHANGED <<user, themes, lkv, engine, published, latest>>

Synchronize ==
    /\ At("synchronize")
    /\ step' = [step EXCEPT !.at = "rename", !.durable = step.file]
    /\ UNCHANGED <<user, themes, lkv, engine, published, latest>>

(* verifyDestinationUnchanged, renameat.                                   *)
Rename ==
    /\ At("rename") /\ lkv.shown = step.existed
    /\ lkv' = [shown |-> step.file, durable |-> {lkv.shown, step.durable}]
    /\ step' = [at |-> "directory", durable |-> step.durable]
    /\ UNCHANGED <<user, themes, engine, published, latest>>

SynchronizeDirectory ==
    /\ At("directory")
    /\ \/ lkv' = [lkv EXCEPT !.durable = {IF lkv.shown = Missing THEN Missing
                                             ELSE step.durable}]
          /\ UNCHANGED latest
       \/ latest' = Unkept /\ UNCHANGED lkv   \* durability_uncertain
    /\ step' = Idle
    /\ UNCHANGED <<user, themes, engine, published>>

-----------------------------------------------------------------------------
(* The world: files change, the daemon dies, the power fails.              *)

EditUser ==
    /\ \E file \in UserFiles : user' = file
    /\ UNCHANGED <<themes, lkv, engine, step, published, latest>>

InstallTheme ==
    /\ \E layer \in DOMAIN Themes : \E file \in Themes[layer] :
          themes' = [themes EXCEPT ![layer] = file]
    /\ UNCHANGED <<user, lkv, engine, step, published, latest>>

RemoveState ==
    /\ lkv' = [shown |-> Missing, durable |-> {Missing} \cup lkv.durable]
    /\ latest' = Unkept
    /\ UNCHANGED <<user, themes, engine, step, published>>

InterruptedPromotion ==
    latest' = IF step.at \in {"create", "synchronize", "rename", "directory"}
              THEN Unkept ELSE latest

Die ==
    /\ engine' = Down /\ step' = Idle /\ InterruptedPromotion
    /\ UNCHANGED <<user, themes, lkv, published>>

PowerFails ==
    /\ engine' = Down /\ step' = Idle /\ InterruptedPromotion
    /\ \E file \in lkv.durable : lkv' = [shown |-> file, durable |-> {file}]
    /\ UNCHANGED <<user, themes, published>>

-----------------------------------------------------------------------------
Init ==
    /\ user \in UserFiles
    /\ themes \in {t \in [DOMAIN Themes -> UNION {Themes[l] : l \in DOMAIN Themes}] :
                      \A l \in DOMAIN Themes : t[l] \in Themes[l]}
    /\ lkv = [shown |-> Missing, durable |-> {Missing}]
    /\ engine = Down /\ step = Idle
    /\ published = {} /\ latest = Unkept

Next ==
    \/ \E safeMode \in BOOLEAN : Start(safeMode)
    \/ FinishStart
    \/ \E profile \in Profiles : RequestProfileChange(profile)
    \/ Reload \/ FinishReload
    \/ CreateTemporaryFile \/ Synchronize \/ Rename \/ SynchronizeDirectory \/ PromotionFails
    \/ EditUser \/ InstallTheme \/ RemoveState \/ Die \/ PowerFails

Spec == Init /\ [][Next]_vars

-----------------------------------------------------------------------------
(* The last known valid file is never half a document, nor one that was    *)
(* only loaded: it was published, whatever stopped or failed on the way    *)
(* (AtomicFile.cpp:335).  And it is the user document that was published   *)
(* last, unless keeping that one failed or was cut short: a reload that    *)
(* changes nothing does not try again (SettingsEngine.cpp:172).            *)
LastKnownValidWasPublished ==
    /\ lkv.shown # Missing => lkv.shown \in published
    /\ step = Idle /\ latest # Unkept => lkv.shown = latest

(* Whatever failed, the themes in memory are those that the current        *)
(* snapshot was resolved with, so that a profile switch changes nothing    *)
(* but the profile (SettingsEngine.cpp:160).                               *)
SnapshotHasItsThemes ==
    engine.running =>
        LET now == engine.current.candidate
        IN  ResolveTheme(engine.bundle, now.configuration, engine.safeMode) = Success(now.theme)

(* The shell reads a snapshot that the daemon publishes back as what it    *)
(* was made of: the bounds of the two parsers, scaled by the resolver, are *)
(* within those of the shell's parser, but for one.  Small text, scaled    *)
(* down, is smaller than the shell accepts, and only such a snapshot is    *)
(* refused (RuntimeSnapshotParser.cpp:555, ThemeParser.cpp:751).           *)
Legible(semantic) == semantic.bodySize >= LeastTextSize /\ semantic.titleSize >= LeastTextSize
ShellReadsEverySnapshot ==
    engine.running =>
        LET snapshot == engine.current
            parsed   == ParseRuntimeSnapshot(snapshot.generation,
                            SerializeRuntimeSnapshot(snapshot.generation, snapshot.candidate))
        IN  IF Legible(snapshot.candidate.theme.semantic) THEN parsed = Success(snapshot.candidate)
            ELSE ~Ok(parsed)
=============================================================================
