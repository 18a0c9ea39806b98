----------------------------- MODULE PlanModifiers -----------------------------
(***************************************************************************)
(* The plan modifiers of mgc/utils/planmodifiers.go, as functions of what  *)
(* the framework hands to them: the value in the state, the value in the   *)
(* plan, and whether the resource is being destroyed.  A value is Null,    *)
(* Unknown, or known; a known set is a finite set.  Those named for what   *)
(* they require say whether the object is replaced, the others what the    *)
(* planned value becomes.                                                  *)
(***************************************************************************)
EXTENDS FiniteSets

CONSTANTS Null, Unknown

Known(v) == v \notin {Null, Unknown}

(* The string and the boolean form do the same. *)
ReplaceIfChangeAndNotIsNotSetOnPlan(state, plan) ==
  plan # Unknown /\ state # plan

(* Only the sizes are compared: elements that change places are seen by    *)
(* the modifiers of the elements' own attributes.                          *)
SetMembershipChangeRequiresReplace(state, plan) ==
  Known(plan) /\ Known(state) /\ Cardinality(plan) # Cardinality(state)

SetRequiresReplaceOnChange(state, plan, destroyed) ==
  /\ plan # Unknown /\ Known(state)
  /\ \/ plan = Null
     \/ /\ ~destroyed
        /\ \/ Cardinality(state) # Cardinality(plan)
           \/ \E e \in state : e \notin plan
           \/ \E e \in plan : e \notin state

RequireReplace(state, plan, destroyed) ==
  \/ plan = Null /\ state # Null
  \/ ~destroyed /\ Known(plan) /\ Known(state) /\ state # plan
RequireReplacePlans(keep, state, plan, destroyed) ==
  IF keep /\ ~destroyed /\ plan = Unknown /\ Known(state) THEN state ELSE plan

UseStateForInt64AfterCreate(state, plan, destroyed) ==
  IF state = Null \/ destroyed THEN plan ELSE state

StringNullIfEmpty(blank, config, plan) ==
  IF config = blank THEN Null ELSE plan
=============================================================================
