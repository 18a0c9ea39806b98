--------------------------- MODULE MCDBaaSInstance ---------------------------
(***************************************************************************)
(* Instances of DBaaSInstance for TLC: configurations small enough to      *)
(* explore, chosen so that each class of attribute is the one that changes.*)
(***************************************************************************)
EXTENDS DBaaSInstance, TLC

a == 1
b == 2
MCDefault == [f \in Fields |-> a]

With(fs, v) ==
  [f \in Fields |-> IF f \in fs THEN v ELSE IF f = "snapshot" THEN Unset ELSE a]
Without(c, fs) == [f \in Fields |-> IF f \in fs THEN Unset ELSE c[f]]
Restored(c) == [c EXCEPT !["snapshot"] = a]

(* A new instance, then one scaled and reconfigured with its backup        *)
(* settings left to the service, then one moved to another zone; and one   *)
(* restored from a snapshot, with a protection that the restoring request  *)
(* does not carry.                                                         *)
NewConfigs ==
  {With({}, a), Without(With({"type", "group"}, b), {"backup"}),
   With({"zone"}, b), Restored(With({"volume", "protect"}, b))}

(* The same with nothing left out. *)
FullConfigs ==
  {With({}, a), With({"type", "group"}, b), Restored(With({"protect"}, b))}

(* A new instance and a larger one, neither with backup settings. *)
NoBackupConfigs ==
  {Without(With({}, a), {"backup"}), Without(With({"volume"}, b), {"backup"})}

(* A restored instance that leaves out what the snapshot decides. *)
RestoreBare ==
  LET left == {"engine", "zone", "group", "protect"}
  IN  {Restored(Without(c, left)) : c \in {With({}, a), With({"type"}, b)}}

Symmetry == Permutations(Ids)
=============================================================================
