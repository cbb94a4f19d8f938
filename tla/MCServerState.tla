--------------------------- MODULE MCServerState ---------------------------
(* Constant values for checking ServerState on small instances.            *)
EXTENDS ServerState

CONSTANTS k1, o1, o2

OneKey == {k1}
Window == [k \in OneKey |-> "window"]
Calls == {OneKey}
=============================================================================
