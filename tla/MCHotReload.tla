----------------------------- MODULE MCHotReload -----------------------------
(* HotReload with two files.                                               *)
EXTENDS HotReload

MCPaths == {1, 2}
MCEmails == {1, 2}
OwnFile == [p \in MCPaths |-> {p}]
AnyFile == [p \in MCPaths |-> MCEmails]
==============================================================================
