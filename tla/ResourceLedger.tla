---------------------------- MODULE ResourceLedger ----------------------------
(***************************************************************************)
(* What a resource of the provider promises about the objects it creates,  *)
(* whatever its handlers do on the way: the Terraform state is a ledger of *)
(* one object, an object is created only while the ledger is empty, it is  *)
(* struck off only when it no longer exists, and an object that exists     *)
(* without being in the ledger is in the hands of the running handler or   *)
(* was disclosed to the user by a run that failed.                         *)
(***************************************************************************)
CONSTANTS Ids, NoId

VARIABLES
  live,       \* the objects that exist
  entry,      \* the object in the Terraform state, or NoId
  held,       \* the object only the running handler knows, or NoId
  disclosed   \* the objects a failed run left behind

ledger == <<live, entry, held, disclosed>>

Init == live = {} /\ entry = NoId /\ held = NoId /\ disclosed = {}

(* A handler creates an object and holds it, or fails to learn of it. *)
Create(i) ==
  /\ entry = NoId /\ held = NoId /\ i \notin live
  /\ live' = live \cup {i}
  /\ \/ held' = i /\ UNCHANGED disclosed
     \/ disclosed' = disclosed \cup {i} /\ UNCHANGED held
  /\ UNCHANGED entry

(* An import takes up an object that was left behind. *)
TakeUp(i) ==
  /\ entry = NoId /\ held = NoId /\ i \in disclosed
  /\ held' = i
  /\ UNCHANGED <<live, entry, disclosed>>

Record ==
  /\ entry = NoId /\ held \in live
  /\ entry' = held /\ held' = NoId /\ disclosed' = disclosed \ {held}
  /\ UNCHANGED live

LetGo ==
  /\ held # NoId
  /\ held' = NoId /\ disclosed' = disclosed \cup ({held} \cap live)
  /\ UNCHANGED <<live, entry>>

Disappear(i) ==
  /\ live' = live \ {i} /\ disclosed' = disclosed \ {i}
  /\ UNCHANGED <<entry, held>>

StrikeOff ==
  /\ entry # NoId /\ entry \notin live
  /\ entry' = NoId
  /\ UNCHANGED <<live, held, disclosed>>

Next ==
  \/ \E i \in Ids : Create(i) \/ TakeUp(i) \/ Disappear(i)
  \/ Record \/ LetGo \/ StrikeOff

Spec == Init /\ [][Next]_ledger
=============================================================================
