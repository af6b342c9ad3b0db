----------------------------- MODULE MCControl -----------------------------
(***************************************************************************)
(* Small instances of Control: a workspace with two directories, two       *)
(* directories outside of the same name, one with a part that is ignored,  *)
(* and a directory of the workspace that is called @external.  One file    *)
(* may not be read, and one is a PDF that is not text.                     *)
(***************************************************************************)
EXTENDS Control, TLC

Ws == <<"/", "ws">>
Docs == <<"/", "ext", "docs">>
Build == <<"/", "ext", "docs", "build">>
OtherDocs == <<"/", "alt", "docs">>

Tree == { Ws \o <<"src", "a">>, Ws \o <<"lib", "b">>, Ws \o <<"@external", "docs", "z">>,
          Ws \o <<"@external", "out", "d">>,
          Docs \o <<"c">>, Build \o <<"d">>, OtherDocs \o <<"c">>,
          Docs \o <<"p">> }

Locked == {OtherDocs \o <<"c">>}
BinaryPdfs == {Docs \o <<"p">>}

Do(do) == [do |-> do]
AddThe(path, alias) == [do |-> "add", path |-> path, alias |-> alias]
RemoveThe(path) == [do |-> "remove", path |-> path]
File(path) == [do |-> "file", path |-> path]

Everything == {<<>>}

Base == <<TextEntry(<<>>)>>
Local(roots) == [roots |-> roots, rest |-> TRUE]

Start(running, roots, settings_) == [running |-> running, base |-> roots, local |-> settings_]
Fresh == Start(FALSE, None, NoSettings)
Plainly == Start(TRUE, Base, Local(None))
WithDocs == Start(TRUE, Base, Local(<<TextEntry(<<>>), RootEntry(Docs, None)>>))
Nested == Start(FALSE, Base, Local(<<TextEntry(<<"src">>), RootEntry(Docs, None),
                                     RootEntry(Build, "out")>>))

Beside == Start(FALSE, Base, Local(<<TextEntry(<<>>), RootEntry(Docs, None),
                                     RootEntry(Build, "out")>>))

Menu(starts, n, together, requests) ==
  [starts |-> starts, requests |-> requests, runs |-> n, together |-> together, notices |-> 0,
   faults |-> 1, taken |-> {FALSE}]

ServiceCommands == {Do("start"), Do("stop"), Do("restart")}

ControlMenus ==
  { [Menu({Fresh, Plainly}, 3, 1, ServiceCommands) EXCEPT !.taken = BOOLEAN],
    Menu({Plainly}, 2, 2, ServiceCommands),
    Menu({Fresh, Plainly, WithDocs}, 3, 1,
         {AddThe(Docs, None), AddThe(OtherDocs, None), AddThe(OtherDocs, "alt"),
          AddThe(Build, "out"), AddThe(<<"src">>, None), AddThe(<<"/", "no*">>, None),
          AddThe(<<"node_modules">>, None),
          RemoveThe(<<"docs">>), RemoveThe(<<"@external", "docs">>), RemoveThe(<<"src">>)}),
    Menu({Fresh, WithDocs}, 2, 2, {AddThe(Ws, None), AddThe(Build, None), RemoveThe(<<"docs">>)}),
    [Menu({WithDocs}, 2, 2, {Do("index"), AddThe(OtherDocs, "alt"), RemoveThe(<<"docs">>)})
       EXCEPT !.notices = 1],
    Menu({Beside}, 2, 1, {Do("index"), AddThe(<<"@external", "docs">>, None)}),
    [Menu({WithDocs}, 4, 1, {Do("index"), AddThe(OtherDocs, None), RemoveThe(<<"docs">>)})
       EXCEPT !.faults = 0],
    [Menu({Nested}, 3, 2, {Do("index"), RemoveThe(<<"docs">>)}) EXCEPT !.faults = 0],
    [Menu({WithDocs, Nested}, 2, 2, {Do("index"), File(<<"lib", "b">>),
                                     File(<<"@external", "docs", "c">>),
                                     File(<<"@external", "docs", "p">>)}) EXCEPT !.notices = 1] }

Symmetry == Permutations(Pids) \cup Permutations(Commands)

=============================================================================
