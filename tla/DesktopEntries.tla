---------------------------- MODULE DesktopEntries ----------------------------
(***************************************************************************)
(* What the launcher makes of one desktop-entry file: its identifier, the  *)
(* parser, the visibility on the current desktop, and the look-up of the   *)
(* executables it names.  Pure operators.                                  *)
(*                                                                         *)
(* A document is a sequence of lines, a value the tuple of its items ("\\" *)
(* for an item that does not decode, "\r" for one with a control           *)
(* character).  A locale is its four components, "" for an absent one.  A  *)
(* file name is the tuple of its parts between hyphens, without .desktop.  *)
(***************************************************************************)
EXTENDS Integers, Sequences, FiniteSets, SequencesExt

CONSTANTS
    MessagesLocale,       \* DesktopEntryParseContext
    CurrentDesktop,       \* names of XDG_CURRENT_DESKTOP, in order
    SearchPath,           \* directories of PATH
    AbsolutePrograms,     \* the program names that are absolute paths
    MalformedPrograms,    \* empty, relative with a separator, not printable
    MaxComponents         \* maximumDesktopFilePathComponents

ASSUME DesktopEntriesAssumption ==
    /\ MaxComponents \in Nat \ {0}
    /\ AbsolutePrograms \cap MalformedPrograms = {}

(* foundation::Result, and std::optional *)
Success(value) == [error |-> "none", value |-> value]
Failure(error) == [error |-> error, value |-> <<>>]
Ok(result) == result.error = "none"
Absent == <<>>
Present(value) == <<value>>

-----------------------------------------------------------------------------
(* Identifiers.  Separators become hyphens, so that a/b and a-b collide.   *)

DeriveDesktopFileId(path) ==
    IF path = <<>> \/ Last(path) = <<>> THEN Failure("validation_error")
    ELSE IF Len(path) > MaxComponents THEN Failure("too_large")
    ELSE Success(FlattenSeq(path))

-----------------------------------------------------------------------------
(* The parser.                                                             *)

NoLocale == [language |-> "", country |-> "", encoding |-> "", modifier |-> ""]
CanonicalLocale(locale) == [locale EXCEPT !.encoding = ""]
ValidLocaleTag(locale) == locale.language # ""

LocalizedKeys == {"Name", "Keywords"}
BooleanKeys == {"Terminal", "Hidden", "NoDisplay", "DBusActivatable", "StartupNotify"}
ListKeys == {"Keywords", "OnlyShowIn", "NotShowIn", "Actions"}
PathKeys == {"Exec", "TryExec", "Path"}
IgnoredKeys == {"Version", "Actions", "StartupNotify"}
KnownKeys == {"Type"} \cup LocalizedKeys \cup BooleanKeys \cup ListKeys \cup PathKeys \cup IgnoredKeys

DecodeString(value) == Len(value) = 1 /\ value[1] # "\\"
DecodeList(value) == \A i \in DOMAIN value : value[i] \notin {"", "\\"}
DecodeBoolean(value) == value \in {<<"true">>, <<"false">>}

ValidateIgnoredValue(base, value) ==
    CASE base = "Version" -> value \in {<<"1.0">>, <<"1.5">>}
      [] base \in ListKeys -> DecodeList(value)
      [] base \in BooleanKeys -> DecodeBoolean(value)

ValidateField(base, value) ==
    CASE base \in ListKeys -> DecodeList(value)
      [] base \in BooleanKeys -> DecodeBoolean(value)
      [] OTHER -> DecodeString(value) /\ (base \in PathKeys => value[1] # "\r")

Reject(s, error) == [s EXCEPT !.error = error]

ReadGroup(s, line) ==
    IF line.name = "" THEN Reject(s, "syntax_error")
    ELSE IF (s.groups = {} /\ line.name # "Desktop Entry") \/ line.name \in s.groups
    THEN Reject(s, "validation_error")
    ELSE [s EXCEPT !.group = line.name, !.groups = @ \cup {line.name}, !.seen = {}]

(* Keys that differ only in the encoding of their locale are the same key. *)
ReadEntry(s, line) ==
    LET key   == <<line.base, CanonicalLocale(line.locale)>>
        noted == [s EXCEPT !.seen = @ \cup {key}]
        Value == IF line.base \in IgnoredKeys THEN ValidateIgnoredValue(line.base, line.value)
                 ELSE ValidateField(line.base, line.value)
    IN  IF s.group = "" \/ line.base = ""
           \/ (line.locale # NoLocale /\ ~ValidLocaleTag(line.locale)) THEN Reject(s, "syntax_error")
        ELSE IF key \in s.seen THEN Reject(s, "validation_error")
        ELSE IF s.group # "Desktop Entry" \/ line.base = "X-Extension" THEN noted
        ELSE IF line.base \notin KnownKeys THEN Reject(s, "unsupported")
        ELSE IF (line.locale # NoLocale /\ line.base \notin LocalizedKeys) \/ ~Value
        THEN Reject(s, "validation_error")
        ELSE IF line.base \in IgnoredKeys THEN noted
        ELSE [noted EXCEPT !.fields = [k \in DOMAIN @ \cup {key} |->
                                          IF k = key THEN line.value ELSE @[k]]]

ReadLine(s, line) ==
    IF s.error # "none" \/ line.kind = "comment" THEN s
    ELSE IF line.kind = "control" THEN Reject(s, "syntax_error")
    ELSE IF line.kind = "group" THEN ReadGroup(s, line)
    ELSE ReadEntry(s, line)

ParseLines(document) ==
    FoldLeft(ReadLine, [error |-> "none", group |-> "", groups |-> {}, seen |-> {},
                        fields |-> <<>>], document)

LocaleFallbacks(locale) ==
    LET Fallback(country, modifier) ==
            [NoLocale EXCEPT !.language = locale.language, !.country = country, !.modifier = modifier]
        wanted == << <<locale.country, locale.modifier>>, <<locale.country, "">>,
                     <<"", locale.modifier>>, <<"", "">> >>
    IN  IF locale.language \in {"", "C", "POSIX"} THEN <<>>
        ELSE [i \in 1..4 |-> Fallback(wanted[i][1], wanted[i][2])]

SelectLocalized(fields, base) ==
    LET keys == [i \in 1..Len(LocaleFallbacks(MessagesLocale)) |->
                    <<base, LocaleFallbacks(MessagesLocale)[i]>>]
                \o << <<base, NoLocale>> >>
        found == SelectSeq(keys, LAMBDA k : k \in DOMAIN fields)
    IN  IF found = <<>> THEN Absent ELSE Present(fields[Head(found)])

Field(fields, base) ==
    IF <<base, NoLocale>> \in DOMAIN fields THEN Present(fields[<<base, NoLocale>>]) ELSE Absent
TextField(fields, base) ==
    IF Field(fields, base) = Absent THEN Absent ELSE Present(Field(fields, base)[1][1])
FlagField(fields, base) == TextField(fields, base) = Present("true")
NamesField(fields, base) ==
    IF Field(fields, base) = Absent THEN Absent ELSE Present(ToSet(Field(fields, base)[1]))

EntryOf(fields) ==
    LET name == SelectLocalized(fields, "Name")
        keywords == SelectLocalized(fields, "Keywords")
    IN  [name |-> IF name = Absent THEN Absent ELSE Present(name[1][1]),
         keywords |-> IF keywords = Absent THEN {} ELSE ToSet(keywords[1]),
         exec |-> TextField(fields, "Exec"),
         tryExec |-> TextField(fields, "TryExec"),
         path |-> TextField(fields, "Path"),
         terminal |-> FlagField(fields, "Terminal"),
         hidden |-> FlagField(fields, "Hidden"),
         noDisplay |-> FlagField(fields, "NoDisplay"),
         dbusActivatable |-> FlagField(fields, "DBusActivatable"),
         onlyShowIn |-> NamesField(fields, "OnlyShowIn"),
         notShowIn |-> NamesField(fields, "NotShowIn")]

LocalizedWithoutBase(fields) ==
    \E k \in DOMAIN fields : k[2] # NoLocale /\ <<k[1], NoLocale>> \notin DOMAIN fields

Overlap(e) ==
    e.onlyShowIn # Absent /\ e.notShowIn # Absent /\ e.onlyShowIn[1] \cap e.notShowIn[1] # {}

(* What a file that is not a tombstone has to have.                        *)
Launchable(fields, e) ==
    /\ Field(fields, "Type") # Absent
    /\ TextField(fields, "Name") \notin {Absent, Present("")} /\ e.name # Present("")
    /\ e.exec # Present("")
    /\ e.exec # Absent \/ e.dbusActivatable

ParseDesktopEntry(document) ==
    LET parsed == ParseLines(document)
        e      == EntryOf(parsed.fields)
    IN  IF parsed.error # "none" THEN Failure(parsed.error)
        ELSE IF parsed.groups = {} THEN Failure("validation_error")
        ELSE IF TextField(parsed.fields, "Type") \notin {Absent, Present("Application")}
        THEN Failure("unsupported")
        ELSE IF \/ LocalizedWithoutBase(parsed.fields) \/ Overlap(e)
                \/ ~e.hidden /\ ~Launchable(parsed.fields, e) THEN Failure("validation_error")
        ELSE Success(e)

-----------------------------------------------------------------------------
(* Visibility: the first desktop that either list names decides.           *)

Lists(names, desktop) == names # Absent /\ desktop \in names[1]

EvaluateVisibility(e) ==
    LET deciding == SelectSeq(CurrentDesktop,
                        LAMBDA d : Lists(e.onlyShowIn, d) \/ Lists(e.notShowIn, d))
    IN  IF e.hidden THEN "hiddenTombstone"
        ELSE IF e.noDisplay THEN "hiddenNoDisplay"
        ELSE IF deciding # <<>>
        THEN IF Lists(e.onlyShowIn, Head(deciding)) THEN "visibleForCurrentDesktop"
             ELSE "hiddenForCurrentDesktop"
        ELSE IF e.onlyShowIn # Absent THEN "hiddenWithoutOnlyShowInMatch" ELSE "visibleByDefault"

IsVisible(e) == EvaluateVisibility(e) \in {"visibleForCurrentDesktop", "visibleByDefault"}

-----------------------------------------------------------------------------
(* Executables.  programs says what stat and access find at a candidate.   *)

Candidates(program) ==
    IF program \in AbsolutePrograms THEN << <<"/", program>> >>
    ELSE [i \in DOMAIN SearchPath |-> <<SearchPath[i], program>>]

ProbeExecutable(programs, candidate) ==
    IF candidate \in DOMAIN programs THEN programs[candidate] ELSE "missing"

(* The first executable wins; else an error; else the first obstacle.      *)
LookupDesktopExecutable(programs, program) ==
    LET At(states) == SelectSeq(Candidates(program),
                                LAMBDA c : ProbeExecutable(programs, c) \in states)
    IN  IF program \in MalformedPrograms THEN Failure("invalid_argument")
        ELSE IF At({"executable"}) # <<>> THEN Success(At({"executable"})[1])
        ELSE IF At({"error"}) # <<>> THEN Failure("io_error")
        ELSE IF At({"notRegularFile", "notExecutable"}) # <<>>
        THEN Failure(ProbeExecutable(programs, At({"notRegularFile", "notExecutable"})[1]))
        ELSE Failure("missing")

(* TryExec filters an entry, but a look-up that cannot be made is an error. *)
EvaluateDesktopTryExec(programs, tryExec) ==
    LET lookup == LookupDesktopExecutable(programs, tryExec[1])
    IN  IF tryExec = Absent THEN Success(TRUE)
        ELSE IF Ok(lookup) THEN Success(TRUE)
        ELSE IF lookup.error \in {"missing", "notRegularFile", "notExecutable"} THEN Success(FALSE)
        ELSE Failure(lookup.error)
=============================================================================
