--------------------------- MODULE MCSimpleResources ---------------------------
(***************************************************************************)
(* Small instances of SimpleResources.                                     *)
(***************************************************************************)
EXTENDS SimpleResources, TLC

CONSTANTS i1, i2, v1, v2

MCDefault == [f \in Fields |-> IF f \in {"note", "once"} THEN Null ELSE v1]

(* For each resource, all of its attributes configured, and what differs   *)
(* from that in one of them: another value (of those that identify it or   *)
(* that an update can send) or none; and where there are two sources, the  *)
(* other one.                                                              *)
Whole(k) == [f \in Fields |-> IF f \in Table[k].fields THEN v1 ELSE Null]
Sendable(k) == UNION {Table[k].update[n].fields : n \in DOMAIN Table[k].update}
Changing(k) ==
  LET usual == {"name", "edit", "size"}
  IN  (Table[k].fields \cap
         (IF Sendable(k) \cap usual = {} THEN usual \cup Sendable(k) ELSE usual))
      \cup Table[k].pinned
Variants(k) ==
  {[Whole(k) EXCEPT ![f] = Null] : f \in Table[k].optional}
  \cup {[Whole(k) EXCEPT ![f] = v2] : f \in Changing(k)}
  \cup {[f \in Fields |-> IF f \in Table[k].sources
                          THEN (IF f = g THEN v1 ELSE Null) ELSE Whole(k)[f]] :
          g \in Table[k].sources}
MCConfigs == UNION {Variants(k) \cup {Whole(k)} : k \in AllKinds}

Symmetry == Permutations(Ids)

(* A configuration is one of those made for its resource. *)
Own == config.attrs \in Variants(kind) \cup {Whole(kind)}

(* A state without the program of its resource, which the resource decides.*)
View == <<vars, kind, at, failed, tainted>>

(* The resource whose import the documentation shows. *)
OneKind == {"publicIp"}
=============================================================================
