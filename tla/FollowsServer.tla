--------------------------- MODULE FollowsServer ---------------------------
(***************************************************************************)
(* What a view of server data promises.  The server changes items one at   *)
(* a time; whoever shows an item shows a state the server was in, moves    *)
(* only to later states of it, and may drop what it shows at any time.     *)
(* A state of an item is a number that grows with each of its changes, 0   *)
(* stands for "nothing shown".                                             *)
(*                                                                         *)
(* ServerState implements this for the keys it reads, LiveComments for the *)
(* threads of a viewer.                                                    *)
(***************************************************************************)
EXTENDS Naturals

CONSTANT Item

VARIABLES latest, shown

vars == <<latest, shown>>

Init ==
  /\ latest \in [Item -> {1}]
  /\ shown = [i \in Item |-> 0]

\* The server commits one change of i.
Change(i) ==
  /\ latest'[i] > latest[i]
  /\ latest' = [latest EXCEPT ![i] = latest'[i]]
  /\ UNCHANGED shown

\* Any items are dropped and any are shown as of a later moment.
Show ==
  /\ shown' \in [Item -> Nat]
  /\ \A i \in Item : shown'[i] = 0 \/ shown'[i] \in shown[i]..latest[i]
  /\ UNCHANGED latest

Next == Show \/ \E i \in Item : Change(i)

Spec == Init /\ [][Next]_vars
=============================================================================
