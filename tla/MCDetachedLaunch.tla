---------------------------- MODULE MCDetachedLaunch ----------------------------
EXTENDS DetachedLaunch

Argument(parts) == [quoted |-> FALSE, parts |-> parts]
Entry(command, terminal, path) ==
    [name |-> Present("files"), icon |-> Present("folder"), exec |-> Present(command),
     path |-> path, terminal |-> terminal, dbusActivatable |-> FALSE]

Plain == <<Argument(<<"files">>), Argument(<<"%U">>), Argument(<<"%i">>)>>
Named == <<Argument(<<"files">>), Argument(<<"--", "%c", "%k">>)>>
Quoted == <<Argument(<<"files">>), [quoted |-> TRUE, parts |-> <<>>]>>
TwoTargets == <<Argument(<<"files">>), Argument(<<"%f">>), Argument(<<"%u">>)>>
Unknown == <<Argument(<<"gone">>)>>
CodeFirst == <<Argument(<<"%k">>)>>

MCEntries ==
    {Entry(Plain, FALSE, Absent), Entry(Named, TRUE, Present("data")),
     Entry(Quoted, TRUE, Present("/srv")), Entry(TwoTargets, FALSE, Absent),
     Entry(Unknown, FALSE, Absent), Entry(CodeFirst, FALSE, Absent),
     [Entry(Plain, FALSE, Absent) EXCEPT !.dbusActivatable = TRUE]}

Variable(name) == [name |-> name, value |-> <<"old">>]
Terminal == [executable |-> "term", arguments |-> << <<"-e">> >>]
MCContexts ==
    [terminal : {Absent, Present(Terminal)}, directory : {"home"},
     environment : {<<>>, <<Variable("A"), Variable("PWD"), Variable("PWD")>>,
                    <<Variable("A"), Variable("A")>>}]
MCPrograms == <<"/bin", "files">> :> "executable" @@ <<"/bin", "term">> :> "executable"
MCLocale == NoLocale
MCDesktop == <<>>
MCSearchPath == <<"/bin">>
=============================================================================
