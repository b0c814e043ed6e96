------------------------------ MODULE WatchList ------------------------------
(***************************************************************************)
(* The life of a wallet as those see it who ask the map of watched wallets: *)
(*                                                                         *)
(*   unborn -> due -> watched -> stale -> dead                              *)
(*                                                                         *)
(* with "late" for one deleted before it was announced, "missed" for one    *)
(* the start of the process overlooked, and "asleep" for all that live      *)
(* while the process is not serving.  A live wallet stays watched until the *)
(* process stops, and the dead do not come back.                            *)
(***************************************************************************)
CONSTANT Ids

VARIABLES
  life,  \* of each wallet
  on     \* whether the process takes requests

vars == <<life, on>>

Lives == {"unborn", "due", "watched", "missed", "asleep", "late", "stale", "dead"}

Init ==
  /\ life = [id \in Ids |-> "unborn"]
  /\ on = FALSE

Turns(id, before, after) == life[id] = before /\ life' = [life EXCEPT ![id] = after]

Create(id) == on /\ Turns(id, "unborn", "due") /\ UNCHANGED on

Announce(id) ==
  /\ Turns(id, "due", "watched") \/ Turns(id, "late", "stale")
  /\ UNCHANGED on

\* The rows of wallets are deleted; a start that is under way may have read some.
Delete(gone, read) ==
  /\ \A id \in gone : life[id] \in {"due", "watched", "missed", "asleep"}
  /\ life' = [id \in Ids |->
                CASE id \notin gone -> life[id]
                  [] id \in gone /\ life[id] = "due" -> "late"
                  [] id \in gone /\ life[id] = "watched" -> "stale"
                  [] id \in gone /\ life[id] = "asleep" /\ id \in read -> "stale"
                  [] OTHER -> "dead"]
  /\ UNCHANGED on

Forget(id) == Turns(id, "stale", "dead") /\ UNCHANGED on

Start(missed) ==
  /\ ~on
  /\ on' = TRUE
  /\ life' = [id \in Ids |->
                IF life[id] = "asleep"
                  THEN IF id \in missed THEN "missed" ELSE "watched"
                  ELSE life[id]]

Stop ==
  /\ on' = FALSE
  /\ life' = [id \in Ids |->
                CASE life[id] \in {"due", "watched", "missed", "asleep"} -> "asleep"
                  [] life[id] \in {"late", "stale", "dead"} -> "dead"
                  [] OTHER -> "unborn"]

Next ==
  \/ \E id \in Ids : Create(id) \/ Announce(id) \/ Forget(id)
  \/ \E gone, read \in SUBSET Ids : Delete(gone, read)
  \/ \E missed \in SUBSET Ids : Start(missed)
  \/ Stop

Spec == Init /\ [][Next]_vars
=============================================================================
