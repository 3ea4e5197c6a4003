--------------------------- MODULE SettingsDocuments ---------------------------
(***************************************************************************)
(* What the settings service makes of the documents on disk: a bounded     *)
(* read, the two parsers, the resolution of a theme for a configuration,   *)
(* and the snapshot that goes over the bus, with the checks the shell      *)
(* makes before it takes it.  Pure operators; SettingsEngine runs them.    *)
(*                                                                         *)
(* A document is its first defect, or "none", and the values that the      *)
(* later stages compute with; `rest` stands for what is only carried.      *)
(* Scales are in quarters, so that scaled sizes are in quarters of a unit. *)
(***************************************************************************)
EXTENDS Integers, Sequences

CONSTANTS
    BlurAvailable,        \* ThemeCapabilities of the running daemon
    ThumbnailsAvailable,
    DeveloperBuild        \* developer policy and developerOverridesEnabled()

ASSUME SettingsDocumentsAssumption ==
    {BlurAvailable, ThumbnailsAvailable, DeveloperBuild} \subseteq BOOLEAN

Max2(a, b) == IF a >= b THEN a ELSE b

(* foundation::Result *)
Success(value) == [error |-> "none", value |-> value]
Failure(error) == [error |-> error, value |-> <<>>]
Ok(result) == result.error = "none"
AndThen(result, Op(_)) == IF Ok(result) THEN Op(result.value) ELSE Failure(result.error)

(* A file is read whole, or not at all.                                    *)
Missing == [kind |-> "missing", document |-> <<>>]
File(document) == [kind |-> "regular", document |-> document]
ReadErrors == [missing |-> "not_found", unreadable |-> "permission_denied",
               special |-> "unsupported", tooLarge |-> "too_large", broken |-> "io_error"]

Holds(file, Document(_)) ==
    \/ file.kind \in DOMAIN ReadErrors
    \/ file.kind = "regular" /\ Document(file.document)

ReadBoundedFile(file) ==
    IF file.kind = "regular" THEN Success(file.document) ELSE Failure(ReadErrors[file.kind])

-----------------------------------------------------------------------------
(* Configurations.                                                         *)

Profiles == {"lustre", "forge"}

Fields == {"profile", "highContrast", "reducedMotion", "transparency", "blurOff", "strongFocus",
           "textScale", "animationScale", "target", "integrations", "developer", "accent"}
IsConfiguration(values) ==
    values = [field \in Fields |-> values[field]] /\ values.profile \in Profiles

IsConfigurationDocument(document) ==
    \/ document.defect \in {"empty", "toml", "bounds", "shape", "version", "value"}
    \/ document.defect = "none" /\ IsConfiguration(document.values)

ParseConfigurationSyntax(document) ==
    IF document.defect \in {"empty", "toml"} THEN Failure("syntax_error") ELSE Success(document)

(* Depth, entries and items; and a closed set of keys, each of its type.   *)
ValidateNodeBounds(document) == document.defect # "bounds"
ValidateTableShape(document) == document.defect # "shape"

(* Mutant: text may be made smaller than the documented least scale.       *)
ReadAppearanceLoosely(values) == values.textScale \in 2..12

ReadAppearance(values) == values.textScale \in 3..12
ReadAccessibility(values) == values.animationScale \in 0..8 /\ values.target \in 24..96

(* Panel, launcher, notifications, desktop, integration: closed values.    *)
ReadOtherDomains(document) == document.defect # "value"

(* Developer settings exist only in a developer build.                     *)
ReadDeveloper(values) == [values EXCEPT !.developer = @ /\ DeveloperBuild]

ValidateConfiguration(document) ==
    IF ~ValidateNodeBounds(document) THEN Failure("validation_error")
    ELSE IF document.defect = "version" THEN Failure("unsupported")
    ELSE IF /\ ValidateTableShape(document) /\ ReadOtherDomains(document)
            /\ ReadAppearance(document.values) /\ ReadAccessibility(document.values)
    THEN Success(ReadDeveloper(document.values))
    ELSE Failure("validation_error")

ParseConfiguration(document) ==
    AndThen(ParseConfigurationSyntax(document), ValidateConfiguration)

WithProfile(c, profile) == [c EXCEPT !.profile = profile]
WithOptionalIntegrationsDisabled(c) == [c EXCEPT !.integrations = FALSE]

-----------------------------------------------------------------------------
(* Theme documents.                                                        *)

ThemeBounds(document) == document.defect # "bounds"
ValidateTreeBounds(document) == document.defect # "tree"
ValidateObjectShape(document) == document.defect # "shape"

(* A document of a profile layer names its profile; no other does.         *)
ReadIdentity(document) == document.defect # "identity"

ParseMaterials(document) == document.defect # "material"
ParsePrimitive(document) == document.defect # "primitive"

ParseSemantic(values) ==
    /\ values.bodySize \in 8..48 /\ values.titleSize \in 8..64
    /\ values.motion \in 0..2000 /\ values.contrast \in 1..21
    /\ values.focusWidth >= 1 /\ values.target >= 24

ParseAccessibility(values) ==
    /\ values.highContrast.ratio \in 1..21 /\ values.highContrast.focusWidth \in 1..16
    /\ values.minimumTarget \in 24..96

ValidateDocument(document) ==
    IF document.defect = "version" THEN Failure("unsupported")
    ELSE IF /\ ValidateObjectShape(document) /\ ReadIdentity(document)
            /\ ParsePrimitive(document) /\ ParseMaterials(document)
            /\ ParseSemantic(document.values) /\ ParseAccessibility(document.values)
    THEN Success(document.values)
    ELSE Failure("validation_error")

IsThemeDocument(document) ==
    \/ document.defect \in {"empty", "json", "bounds", "tree", "shape", "version", "identity",
                            "material", "primitive"}
    \/ document.defect = "none" /\ {document.values.focusWidth, document.values.target} \subseteq Int

ParseTheme(document) ==
    IF document.defect \in {"empty", "json"} THEN Failure("syntax_error")
    ELSE IF ThemeBounds(document) /\ ValidateTreeBounds(document) THEN ValidateDocument(document)
    ELSE Failure("validation_error")

Layers == <<"base", "lustre", "forge", "accessibility">>

(* The documents are read in this order; the first that fails ends it.     *)
LoadThemeBundle(themes) ==
    LET parsed == [layer \in {Layers[i] : i \in 1..4} |->
                      AndThen(ReadBoundedFile(themes[layer]), ParseTheme)]
        bad == {i \in 1..4 : ~Ok(parsed[Layers[i]])}
    IN  IF bad = {} THEN Success([layer \in DOMAIN parsed |-> parsed[layer].value])
        ELSE LET first == CHOOSE i \in bad : \A j \in bad : i <= j
             IN  Failure(parsed[Layers[first]].error)

-----------------------------------------------------------------------------
(* The theme that a configuration gets.                                    *)

(* Each document has to be the one its file is named for.                  *)
ValidateBundle(bundle) == \A layer \in DOMAIN bundle : bundle[layer].layer = layer

(* The least contrast of an opaque palette; 0 if two states look the same. *)
HighContrastHolds(accessibility) ==
    accessibility.palette >= Max2(accessibility.highContrast.ratio, accessibility.contrast)

DurationScale(c, safeMode) ==
    IF safeMode \/ c.reducedMotion THEN 0 ELSE c.animationScale

ResolvePrimitive(bundle, c) ==
    <<bundle["base"].rest, bundle[c.profile].rest, IF c.highContrast THEN "own" ELSE c.accent>>

ResolveFocus(authored, accessibility, c) ==
    LET width == IF c.highContrast THEN accessibility.focusWidth ELSE authored.focusWidth
    IN  IF c.highContrast \/ c.strongFocus
        THEN Max2(width, accessibility.highContrast.focusWidth) ELSE width

ResolveTarget(authored, accessibility, c) ==
    LET own == Max2(Max2(authored.target, authored.minimumTarget), c.target)
    IN  IF c.highContrast
        THEN Max2(own, Max2(accessibility.target, accessibility.minimumTarget)) ELSE own

ResolveSemantic(bundle, c, safeMode) ==
    LET authored      == bundle[c.profile]
        accessibility == bundle["accessibility"]
        colors        == IF c.highContrast THEN accessibility ELSE authored
    IN  IF c.highContrast /\ ~HighContrastHolds(accessibility) THEN Failure("validation_error")
        ELSE Success([colors |-> colors.rest,
                      selection |-> IF c.highContrast THEN "own" ELSE c.accent,
                      blur |-> colors.blur,
                      contrast |-> IF c.highContrast
                                   THEN Max2(accessibility.contrast, accessibility.highContrast.ratio)
                                   ELSE authored.contrast,
                      bodySize |-> authored.bodySize * c.textScale,
                      titleSize |-> authored.titleSize * c.textScale,
                      focusWidth |-> ResolveFocus(authored, accessibility, c),
                      target |-> ResolveTarget(authored, accessibility, c),
                      motion |-> authored.motion * DurationScale(c, safeMode)])

(* Without blur, or with it turned off, materials are shown by their       *)
(* fallback; opaque where transparency is not wanted.                      *)
ResolveMaterials(semantic, c, safeMode) ==
    LET noTransparency == ~c.transparency \/ safeMode
    IN  IF noTransparency \/ c.blurOff \/ ~BlurAvailable
        THEN IF noTransparency THEN "opaque" ELSE "fallback"
        ELSE IF semantic.blur THEN "blurred" ELSE "tinted"

ThemeSources(c) ==
    <<"base", c.profile>> \o
    IF c.highContrast \/ c.reducedMotion \/ ~c.transparency \/ c.strongFocus
    THEN <<"accessibility">> ELSE <<>>

ThemeWarnings(semantic, c, safeMode) ==
    (IF c.highContrast THEN {"accent_suppressed_high_contrast"} ELSE {})
    \cup (IF ~BlurAvailable /\ semantic.blur THEN {"blur_fallback_active"} ELSE {})
    \cup (IF ThumbnailsAvailable THEN {} ELSE {"thumbnail_fallback_active"})
    \cup (IF safeMode THEN {"safe_mode_active"} ELSE {})

ResolveTheme(bundle, c, safeMode) ==
    IF ~ValidateBundle(bundle) THEN Failure("validation_error")
    ELSE AndThen(ResolveSemantic(bundle, c, safeMode),
        LAMBDA semantic : Success(
            [profile |-> c.profile,
             sources |-> ThemeSources(c),
             primitive |-> ResolvePrimitive(bundle, c),
             semantic |-> semantic,
             component |-> <<bundle[c.profile].rest,
                             IF c.highContrast THEN bundle["accessibility"].rest ELSE "own">>,
             reducedMotion |-> c.reducedMotion \/ safeMode,
             materials |-> ResolveMaterials(semantic, c, safeMode),
             warnings |-> ThemeWarnings(semantic, c, safeMode)]))

-----------------------------------------------------------------------------
(* The snapshot on the bus, and the shell's side of it.                    *)

(* The profile stands beside the settings and not in them.                 *)
ConfigurationJson(c) == [field \in DOMAIN c \ {"profile"} |-> c[field]]

SerializeRuntimeSnapshot(generation, candidate) ==
    [generation |-> generation,
     profile    |-> candidate.configuration.profile,
     source     |-> candidate.source,
     override   |-> candidate.override,
     settings   |-> ConfigurationJson(candidate.configuration),
     theme      |-> candidate.theme,
     warnings   |-> candidate.warnings]

SettingsAccepted(settings) ==
    /\ settings.textScale \in 3..12 /\ settings.animationScale \in 0..8
    /\ settings.target \in 24..96

SettingsFrom(settings, profile) ==
    [field \in DOMAIN settings \cup {"profile"} |->
        IF field = "profile" THEN profile ELSE settings[field]]

LeastTextSize == 4 * 8
BodySizes == LeastTextSize .. 4 * 144
TitleSizes == LeastTextSize .. 4 * 192
Motions == 0 .. 4 * 4000
CoherentSources(sources, profile) ==
    sources \in {<<"base", profile>>, <<"base", profile, "accessibility">>}
ThemeAccepted(theme, profile) ==
    /\ theme.profile = profile /\ CoherentSources(theme.sources, profile)
    /\ theme.semantic.bodySize \in BodySizes /\ theme.semantic.titleSize \in TitleSizes
    /\ theme.semantic.motion \in Motions /\ theme.semantic.contrast \in 1..21
    /\ theme.semantic.focusWidth >= 1 /\ theme.semantic.target >= 24

ParseRuntimeSnapshot(outerGeneration, json) ==
    IF /\ outerGeneration # 0 /\ json.generation = outerGeneration
       /\ json.profile \in Profiles
       /\ SettingsAccepted(json.settings) /\ ThemeAccepted(json.theme, json.profile)
    THEN Success([configuration |-> SettingsFrom(json.settings, json.profile),
                  source |-> json.source, override |-> json.override,
                  theme |-> json.theme, warnings |-> json.warnings])
    ELSE Failure("validation_error")
=============================================================================
