------------------------------- MODULE LaunchPlans -------------------------------
(***************************************************************************)
(* From a desktop entry to what is executed: the Exec value is parsed and  *)
(* expanded, the plan is made, and the process boundary checks it again    *)
(* before it forks.  Pure operators; the launcher passes no file or URL    *)
(* targets.                                                                *)
(*                                                                         *)
(* An Exec value is a sequence of arguments, each with its parts: "%f" and *)
(* the like are field codes, "%" a bad percent sign, "$" a reserved        *)
(* character, "=" an equals sign, and anything else is literal text.  An   *)
(* expanded argument is the tuple of the texts it is made of.              *)
(***************************************************************************)
EXTENDS DesktopEntries

CONSTANTS
    MaxArguments,        \* maximumDesktopExecArguments, ...ProcessLaunchArguments
    MaxEnvironment,      \* maximumProcessLaunchEnvironmentEntries
    MaxEnvelope,         \* maximumProcessLaunchEnvelopeBytes, in entries
    RelativePaths        \* values of Path that are not absolute

TargetCodes == {"%f", "%F", "%u", "%U"}
MultiArgumentCodes == {"%F", "%U", "%i"}
FieldCodes == TargetCodes \cup {"%i", "%c", "%k", "%d"}
IsLetterCode(part) == part \in FieldCodes \cup {"%z"}

-----------------------------------------------------------------------------
(* Exec                                                                    *)

PartError(quoted, part) ==
    CASE part \in {"%", "$"} -> "syntax_error"
      [] IsLetterCode(part) /\ quoted -> "validation_error"
      [] part = "%z" /\ ~quoted -> "unsupported"
      [] OTHER -> "none"

CodesOf(argument) == SelectSeq(argument.parts, LAMBDA p : p \in FieldCodes)
ReadPart(s, quoted, part) ==
    IF s.error # "none" THEN s
    ELSE IF PartError(quoted, part) # "none" THEN [s EXCEPT !.error = PartError(quoted, part)]
    ELSE IF part \notin TargetCodes THEN s
    ELSE IF s.targetSeen THEN [s EXCEPT !.error = "validation_error"]
    ELSE [s EXCEPT !.targetSeen = TRUE]
ReadArgument(s, argument) ==
    FoldLeft(LAMBDA acc, part : ReadPart(acc, argument.quoted, part), s, argument.parts)

(* The program is fixed text, and %F, %U and %i stand alone.               *)
ValidExecutable(argument) ==
    CodesOf(argument) = <<>> /\ argument.parts # <<>> /\ "=" \notin ToSet(argument.parts)
StandsAlone(argument) ==
    ToSet(argument.parts) \cap MultiArgumentCodes # {} => Len(argument.parts) = 1

ParseExec(command) ==
    LET read == FoldLeft(ReadArgument, [error |-> "none", targetSeen |-> FALSE], command)
    IN  IF command = <<>> THEN Failure("validation_error")
        ELSE IF Len(command) > MaxArguments THEN Failure("too_large")
        ELSE IF read.error # "none" THEN Failure(read.error)
        ELSE IF ValidExecutable(command[1]) /\ \A n \in DOMAIN command : StandsAlone(command[n])
        THEN Success(command) ELSE Failure("validation_error")

Replacement(e, location, part) ==
    CASE part = "%c" -> e.name
      [] part = "%k" -> Present(location)
      [] part \in FieldCodes \ {"%c", "%k"} -> <<>>
      [] OTHER -> <<part>>

ExpandArgument(e, location, argument) ==
    LET text == FlattenSeq([n \in DOMAIN argument.parts |->
                               Replacement(e, location, argument.parts[n])])
        kept == argument.quoted \/ "%k" \in ToSet(argument.parts)
    IN  IF argument.parts = <<"%i">>
        THEN IF e.icon \in {Absent, Present("")} THEN <<>> ELSE << <<"--icon">>, e.icon >>
        ELSE IF text = <<>> /\ ~kept THEN <<>> ELSE <<text>>

NeedsName(command) == \E n \in DOMAIN command : "%c" \in ToSet(command[n].parts)

ExpandDesktopExec(e, location) ==
    LET parsed == ParseExec(e.exec[1])
        argv   == FlattenSeq([n \in DOMAIN parsed.value |-> ExpandArgument(e, location, parsed.value[n])])
    IN  IF e.dbusActivatable THEN Failure("unsupported")
        ELSE IF e.exec = Absent THEN Failure("validation_error")
        ELSE IF ~Ok(parsed) THEN parsed
        ELSE IF NeedsName(parsed.value) /\ e.name \in {Absent, Present("")}
        THEN Failure("validation_error")
        ELSE IF Len(argv) > MaxArguments THEN Failure("too_large") ELSE Success(argv)

-----------------------------------------------------------------------------
(* The plan.  A variable of the environment is its name and its value.     *)

WorkingDirectory(e, context) ==
    IF e.path \in {Absent, Present("")} THEN <<context.directory>>
    ELSE IF e.path[1] \in RelativePaths THEN <<context.directory, e.path[1]>> ELSE e.path

ValidEnvironment(environment) ==
    /\ \A n \in DOMAIN environment : environment[n].name # ""
    /\ \A i, j \in DOMAIN environment :
           environment[i].name = environment[j].name /\ environment[i].name # "PWD" => i = j

PwdEntry(directory) == [name |-> "PWD", value |-> directory]

(* Mutant: a PWD of the shell's own environment stays.                     *)
AppendPwd(environment, directory) == Append(environment, PwdEntry(directory))

(* The first PWD is replaced, every other one left out ...                 *)
Copied(environment, directory) ==
    LET copied[n \in 0..Len(environment)] ==
            IF n = 0 THEN [entries |-> <<>>, wrotePwd |-> FALSE]
            ELSE IF environment[n].name # "PWD"
            THEN [copied[n - 1] EXCEPT !.entries = Append(@, environment[n])]
            ELSE IF copied[n - 1].wrotePwd THEN copied[n - 1]
            ELSE [entries |-> Append(copied[n - 1].entries, PwdEntry(directory)), wrotePwd |-> TRUE]
    IN  copied

(* ... or else it is added.                                                *)
WithPwd(environment, directory) ==
    LET read == Copied(environment, directory)[Len(environment)]
    IN  IF read.wrotePwd THEN read.entries ELSE Append(read.entries, PwdEntry(directory))

NormalizedEnvironment(environment, directory) ==
    IF Len(environment) > MaxEnvironment THEN Failure("too_large")
    ELSE IF ~ValidEnvironment(environment) THEN Failure("invalid_environment")
    ELSE IF Len(WithPwd(environment, directory)) > MaxEnvironment THEN Failure("too_large")
    ELSE Success(WithPwd(environment, directory))

FitsEnvelope(plan) ==
    /\ Len(plan.argv) \in 1..MaxArguments
    /\ Len(plan.argv) + Len(plan.environment) + 2 <= MaxEnvelope

(* With a terminal, the application and its arguments follow the prefix.   *)
MakeProcessLaunchPlan(e, argv, context, programs) ==
    LET directory   == WorkingDirectory(e, context)
        environment == NormalizedEnvironment(context.environment, directory)
        program     == LookupDesktopExecutable(programs, argv[1][1])
        terminal    == LookupDesktopExecutable(programs, context.terminal[1].executable)
        application == [argv EXCEPT ![1] = program.value]
        planned     == [executable |-> IF e.terminal THEN terminal.value ELSE program.value,
                        argv |-> IF e.terminal
                                 THEN <<terminal.value>> \o context.terminal[1].arguments \o application
                                 ELSE application,
                        environment |-> environment.value, workingDirectory |-> directory]
    IN  IF e.dbusActivatable \/ (e.terminal /\ context.terminal = Absent) THEN Failure("unsupported")
        ELSE IF argv = <<>> \/ argv[1] = <<>> THEN Failure("invalid_argument")
        ELSE IF Len(argv) > MaxArguments THEN Failure("too_large")
        ELSE IF ~Ok(environment) THEN environment
        ELSE IF ~Ok(program) THEN program
        ELSE IF e.terminal /\ Len(context.terminal[1].arguments) >= MaxArguments THEN Failure("too_large")
        ELSE IF e.terminal /\ ~Ok(terminal) THEN terminal
        ELSE IF ~FitsEnvelope(planned) THEN Failure("too_large") ELSE Success(planned)

(* The check at the process boundary.                                      *)
ValidPlan(plan) ==
    LET names == [n \in DOMAIN plan.environment |-> plan.environment[n].name]
    IN  /\ FitsEnvelope(plan) /\ plan.argv[1] = plan.executable
        /\ Len(plan.environment) \in 1..MaxEnvironment
        /\ IsInjective(names) /\ "" \notin ToSet(names)
        /\ \E n \in DOMAIN names : plan.environment[n] = PwdEntry(plan.workingDirectory)
=============================================================================
