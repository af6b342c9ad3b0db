---------------------------- MODULE MCMcServers ----------------------------
(***************************************************************************)
(* Small instances of McServers.  A menu keeps to the tools that meet on a *)
(* table or a file.                                                        *)
(***************************************************************************)
EXTENDS McServers

Key(name) == <<name, 0>>

Save == [tool |-> "save_observation"]
Sync == [tool |-> "sync_session_memory"]
Read == [tool |-> "read_memory", key |-> Key("a")]
Search == [tool |-> "search_memory"]
Contract == [tool |-> "create_task_contract", lane |-> "lane"]
WriteKey(name, log) == [tool |-> "write_memory", key |-> Key(name), log |-> log]
Consolidate(names, new) ==
  [tool |-> "consolidate_memory", dry_run |-> FALSE, key |-> Key(new), log |-> None,
   old_keys |-> [i \in 1 .. Len(names) |-> Key(names[i])]]
DryRun == [Consolidate(<<"a">>, "b") EXCEPT !.dry_run = TRUE]
Manage(action, id) == [tool |-> "manage_todo", action |-> action, id |-> id]
Edit(old, new) == [tool |-> "replace_exact_text", old |-> old, new |-> new]

Menu(n, requests) == [calls |-> n, edits |-> 0, faults |-> 1, inbox |-> None, requests |-> requests]

OldInbox == << [kind |-> "call", id |-> 0] >>

McMenus ==
  { Menu(3, {Save}),
    [Menu(2, {Save, Sync}) EXCEPT !.inbox = OldInbox],
    Menu(2, {WriteKey("a", "decisions"), Sync, Read}),
    Menu(2, {Consolidate(<<"a", "b">>, "a"), Consolidate(<<"b">>, ""), WriteKey("b", None), Read,
             DryRun}),
    Menu(3, {Manage("add", 0), Manage("check", 1), Manage("clear", 0), Manage("list", 0)}),
    Menu(2, {Edit("x", "y"), Edit("y", "x"), Contract}),
    [Menu(2, {Search}) EXCEPT !.edits = 2] }

StoredAB == {Key("a"), Key("b")}
CONSTANTS d1, d2, t1, t2
TwoDocs == <<d1, d2>>
Text == <<"w", "x", "x">>

=============================================================================
