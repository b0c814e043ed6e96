------------------------------- MODULE Promise -------------------------------
(***************************************************************************)
(* What a client of the gateway may rely on: a request is carried out once  *)
(* at most; who is told "yes" was served, who is told "no" was not and      *)
(* never will be, and who is told nothing certain may be served yet.        *)
(***************************************************************************)
EXTENDS Naturals

CONSTANT Requests

VARIABLES
  told,     \* what the client was told
  carried   \* how often the request was carried out

vars == <<told, carried>>

Init ==
  /\ told = [r \in Requests |-> "unasked"]
  /\ carried = [r \in Requests |-> 0]

Tells(r, before, after) == told[r] = before /\ told' = [told EXCEPT ![r] = after]

Ask(r) == Tells(r, "unasked", "waits") /\ UNCHANGED carried

CarryOut(r) ==
  /\ told[r] \in {"waits", "unknown"}
  /\ carried[r] = 0
  /\ carried' = [carried EXCEPT ![r] = 1]
  /\ UNCHANGED told

SayYes(r) == carried[r] = 1 /\ Tells(r, "waits", "yes") /\ UNCHANGED carried

\* The answer to an earlier request is given again.
Recall(r) == carried[r] = 0 /\ Tells(r, "waits", "recalled") /\ UNCHANGED carried

SayNo(r) == carried[r] = 0 /\ Tells(r, "waits", "no") /\ UNCHANGED carried

SayNothing(r) == Tells(r, "waits", "unknown") /\ UNCHANGED carried

\* Several clients may lose their connections at once.
Drop(lost) ==
  /\ \A r \in lost : told[r] = "waits"
  /\ told' = [r \in Requests |-> IF r \in lost THEN "unknown" ELSE told[r]]
  /\ UNCHANGED carried

Next ==
  \/ \E r \in Requests :
       \/ Ask(r) \/ CarryOut(r)
       \/ SayYes(r) \/ Recall(r) \/ SayNo(r) \/ SayNothing(r)
  \/ \E lost \in SUBSET Requests : Drop(lost)

Spec == Init /\ [][Next]_vars
=============================================================================
