---------------------------- MODULE MCLoadBalancer ----------------------------
(***************************************************************************)
(* Instances of LoadBalancer for TLC.                                      *)
(***************************************************************************)
EXTENDS LoadBalancer, TLC

MCDefault == [k \in Keys |-> IF k \in OptionalKeys THEN Empty ELSE 1]

With(ks, v) == [k \in Keys |-> IF k \in ks THEN v ELSE 1]
Without(c, ks) == [k \in Keys |-> IF k \in ks THEN Unset ELSE c[k]]
Groups(fs) == {k \in Keys : k[2] \in fs}

(* A balancer, the same with everything that can be updated changed, and   *)
(* one that has to be replaced.                                            *)
FullConfigs ==
  {With({}, 1),
   With(Groups({"name", "acl", "probe", "timing", "close", "panic", "targets"}), 2),
   With({Fixed}, 2)}

(* The same with, in place of the replacement, changes in some stages only *)
(* and the fields of the backends left to the service; one without ACLs;   *)
(* and one that changes a health check and the backends beside fields that *)
(* it leaves to the service.                                               *)
MixedConfigs ==
  {c \in FullConfigs : c[Fixed] = 1}
    \cup {Without(With(Groups({"acl", "targets"}), 2), Groups({"close", "panic"})),
          Without(With(Groups({"name"}), 2), {Acl}),
          Without(With(Groups({"probe", "close"}), 2), Groups({"timing", "panic"}))}

(* Another certificate. *)
CertConfigs == {With({}, 1), With({Cert}, 2)}
=============================================================================
