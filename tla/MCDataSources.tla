----------------------------- MODULE MCDataSources -----------------------------
(***************************************************************************)
(* Small instances of DataSources: every data source with the provider as  *)
(* it is when nothing is configured, and those whose record names a region *)
(* with all that the provider's schema accepts; what moves during the Read *)
(* does so with the former, and twice only where there is more than one    *)
(* request.  Where one object is asked for, there is no other.             *)
(***************************************************************************)
EXTENDS DataSources, TLC

CONSTANTS i1, i2, v1

Regional == {k \in AllKinds : Table[k].zoned # "none" \/ Table[k].storage}
DefaultProvider == Configured([env |-> Unset, region |-> Unset])
MCSetups ==
  {<<k, DefaultProvider>> : k \in AllKinds}
  \cup {<<k, Configured(plan)>> : k \in Regional, plan \in ProviderModel}

Still ==
  /\ R.one => Cardinality({i \in Ids : cloud[i] # Gone}) <= 1
  /\ IF provider = DefaultProvider THEN changes <= Len(R.asks)
     ELSE changes = 0 /\ faults = 0

Symmetry == Permutations(Ids)
=============================================================================
