------------------------------- MODULE MCLauncher -------------------------------
(* Two roots.  The user's root may hide, break or replace the application  *)
(* of the system's root that has the same identifier by another path, and  *)
(* may be too large or unreadable itself.                                  *)
EXTENDS LauncherController

Group(name) == [kind |-> "group", name |-> name]
Line(base, value) == [kind |-> "entry", base |-> base, locale |-> NoLocale, value |-> <<value>>]
German(base, value) ==
    [Line(base, value) EXCEPT !.locale = [NoLocale EXCEPT !.language = "de", !.encoding = "UTF-8"]]
Document(lines) == <<Group("Desktop Entry"), Line("Type", "Application")>> \o lines
App(name) == Document(<<Line("Name", name), Line("Exec", name)>>)

DirectoryNode == [AbsentNode EXCEPT !.kind = "directory"]
File(document) == [kind |-> "file", document |-> document]
Dir == <<<<"a">>>>
Deep == <<<<"a">>, <<"b">>>>          \* a/b.desktop
Flat == <<<<"a", "b">>>>              \* a-b.desktop
Other == <<<<"c">>>>                  \* c.desktop

Localized == Document(<<Line("Name", "calc"), German("Name", "rechner"), Line("Exec", "calc"),
                        [kind |-> "comment"], Group("Action x"), Line("Name", "x")>>)
Broken == <<Group("Desktop Entry"), Line("Exec", "calc"), Line("Exec", "calc")>>
Hidden == Document(<<Line("Hidden", "true")>>)
Elsewhere == Document(<<Line("Name", "calc"), Line("Exec", "calc"), Line("NotShowIn", "PD")>>)
Tried(program) == Document(<<Line("Name", "calc"), Line("Exec", "calc"), Line("TryExec", program)>>)

Root(kind, flat, other) ==
    (<<>> :> [AbsentNode EXCEPT !.kind = kind]) @@ (Dir :> AbsentNode)
    @@ (Deep :> AbsentNode) @@ (Flat :> flat) @@ (Other :> other)
System(other) ==
    (<<>> :> DirectoryNode) @@ (Dir :> DirectoryNode) @@ (Deep :> File(App("files")))
    @@ (Flat :> AbsentNode) @@ (Other :> other)

Crowded == [System(File(Hidden)) EXCEPT ![Flat] = File(Broken)]

MCInitialDisks ==
    {<<Root("directory", File(d), AbsentNode), System(File(Localized))>> :
        d \in {App("calc"), Hidden, Broken, Elsewhere}}
    \cup {<<Root(kind, AbsentNode, AbsentNode), System(File(Tried(program)))>> :
             kind \in {"directory", "absent"}, program \in {"there", "gone", "bad"}}
    \cup {<<Root("directory", AbsentNode, File(App("calc"))), System(File(Localized))>>,
          <<Root("unreadable", File(Hidden), AbsentNode), System(AbsentNode)>>,
          <<Root("unsearchable", File(Hidden), AbsentNode), System(AbsentNode)>>,
          <<Root("file", AbsentNode, AbsentNode), System(AbsentNode)>>,
          <<Crowded, System(File(Localized))>>}
MCRejected == {<<1, Other>>}
MCPathOrder == <<Dir, Flat, Deep, Other>>
MCDiskChanges ==
    {<<1, Flat, AbsentNode>>, <<1, <<>>, AbsentNode>>,
     <<1, <<>>, [AbsentNode EXCEPT !.kind = "unreadable"]>>,
     <<2, Deep, File(App("calc"))>>, <<2, Dir, AbsentNode>>}
MCPrograms == <<"/usr/bin", "there">> :> "executable" @@ <<"/bin", "gone">> :> "notExecutable"
MCLimits == [nodes |-> 4, directories |-> 2, candidates |-> 2, entries |-> 2, depth |-> 2]

MCNames == <<"calc", "files", "rechner">>
MCIds == << <<"a", "b">>, <<"c">> >>
MCQueries == {<<"fil">>, <<"\\">>, <<"calc", "calc">>}
MCShape ==
    [name \in ToSet(MCNames) |->
        [token \in {"fil", "calc", "phrase"} |->
            IF token = name THEN 0 ELSE IF token = "fil" /\ name = "files" THEN 1 ELSE 4]]

MCLocale == [NoLocale EXCEPT !.language = "de", !.country = "AT"]
MCDesktop == <<"PD">>
MCSearchPath == <<"/bin", "/usr/bin">>

DBusOnly == Document(<<Line("Name", "files"), Line("DBusActivatable", "true")>>)
MCOneEntryDisks == {<<Root("directory", AbsentNode, File(DBusOnly)), System(File(Localized))>>}
=============================================================================
