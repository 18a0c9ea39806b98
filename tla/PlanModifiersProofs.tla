-------------------------- MODULE PlanModifiersProofs --------------------------
(***************************************************************************)
(* What the plan modifiers promise, for every value and every finite set.  *)
(***************************************************************************)
EXTENDS PlanModifiers, FiniteSetTheorems, TLAPS

(* SetRequiresReplaceOnChange compares the number of elements and then     *)
(* looks each element up in a map of the other set.  For two known sets of *)
(* a resource that stays that is to compare the sets: each element that is *)
(* added, removed or exchanged is seen, and the order is not.              *)
THEOREM SetChangeExact ==
  ASSUME NEW state, NEW plan, Known(state), Known(plan)
  PROVE  SetRequiresReplaceOnChange(state, plan, FALSE) <=> state # plan
<1>1. ASSUME state # plan
      PROVE  SetRequiresReplaceOnChange(state, plan, FALSE)
  <2>1. (\E e \in state : e \notin plan) \/ (\E e \in plan : e \notin state)
    BY <1>1
  <2> QED BY <2>1 DEF SetRequiresReplaceOnChange, Known
<1>2. ASSUME SetRequiresReplaceOnChange(state, plan, FALSE)
      PROVE  state # plan
  BY <1>2 DEF SetRequiresReplaceOnChange, Known
<1> QED BY <1>1, <1>2

(* SetMembershipChangeRequiresReplace only counts.  That is enough to see  *)
(* that elements were only added, or only removed.                         *)
THEOREM CountSeesGrowth ==
  ASSUME NEW state, NEW plan, Known(state), Known(plan),
         IsFiniteSet(state), IsFiniteSet(plan), state # plan,
         state \subseteq plan \/ plan \subseteq state
  PROVE  SetMembershipChangeRequiresReplace(state, plan)
<1>1. Cardinality(state) # Cardinality(plan)
  <2>1. CASE state \subseteq plan
    BY <2>1, FS_Subset, FS_CardinalityType
  <2>2. CASE plan \subseteq state
    BY <2>2, FS_Subset, FS_CardinalityType
  <2> QED BY <2>1, <2>2
<1> QED BY <1>1 DEF SetMembershipChangeRequiresReplace

(* No modifier destroys an object whose planned value is the recorded one, *)
(* or is not known yet.                                                    *)
THEOREM ReplacedOnlyIfChanged ==
  ASSUME NEW state, NEW plan, NEW destroyed \in BOOLEAN,
         \/ ReplaceIfChangeAndNotIsNotSetOnPlan(state, plan)
         \/ SetMembershipChangeRequiresReplace(state, plan)
         \/ SetRequiresReplaceOnChange(state, plan, destroyed)
         \/ RequireReplace(state, plan, destroyed)
  PROVE  plan # state /\ (Null # Unknown => plan # Unknown)
BY DEF ReplaceIfChangeAndNotIsNotSetOnPlan, SetMembershipChangeRequiresReplace,
       SetRequiresReplaceOnChange, RequireReplace, Known
=============================================================================
