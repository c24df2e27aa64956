------------------------------ MODULE MCMpiWrap -------------------------------
EXTENDS MpiWrap

\* Two checkpoint files (guard name "chk") and a file of the cycle, each with a
\* directory.  The configuration has a prefix of both checkpoints' names and, after
\* it in the map, the name of the second.
MCPaths == <<"/w/chk", "/w/chk2">>
MCDirOf == [f \in {"chk", "chk2", "plot"} |-> "/w"]
MCBegins == {<<"/w/chk", "chk">>, <<"/w/chk", "chk2">>, <<"/w/chk2", "chk2">>}
MCNames == {<<"/w/chk", "chk">>, <<"/w/chk2", "chk2">>}
=============================================================================
