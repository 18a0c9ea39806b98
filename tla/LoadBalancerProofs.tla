-------------------------- MODULE LoadBalancerProofs --------------------------
(***************************************************************************)
(* Proofs about LoadBalancer, for any set of identifiers, health checks,   *)
(* backends, values and configurations and any bounds: the types, that no  *)
(* serving balancer is lost without an error, what the record and the      *)
(* stages of an update may claim, and that no request is repeated.         *)
(***************************************************************************)
EXTENDS LoadBalancer, TLAPS

-----------------------------------------------------------------------------
(* The inductive invariant.                                                *)

(* Each handler runs on what it needs.                                     *)
HandlersWellPlaced ==
  /\ pc \in EntryPCs => entry # NoId
  /\ pc \in {"create", "createWait", "import"} => entry = NoId
  /\ made # NoId <=> pc \in {"createWait", "import"}

(* What only a handler holds was disclosed by the run that lost it, or is  *)
(* new; what Delete waits for is on its way out.                           *)
HeldOrLeaving ==
  /\ pc = "import" /\ Exists(made) => made \in disclosed
  /\ pc = "deleteWait" => cloud[entry].status \in {"DELETING", "DELETED", "FAILED", "GONE"}

(* No change of the balancer is under way.                                 *)
Steady(i) == cloud[i].attrs = cloud[i].goal

(* A success is known only between two runs, and only while it is fresh.   *)
SettledIdle == settled => pc = "idle" /\ ~stale

(* What is known of a balancer that nobody touched behind the provider's   *)
(* back: when its creation is waited for, after a refresh, after a run.    *)
RefreshedAgrees ==
  /\ pc = "createWait" /\ ~stale => Steady(made)
  /\ pc = "plan" /\ entry # NoId /\ ~stale =>
       Steady(entry) /\ known = ToTerraformNetworkResource(cloud[entry].attrs)
  /\ settled /\ entry # NoId => Steady(entry)

(* The attributes that the update has sent so far, and what the balancer   *)
(* will have then: those as planned, the others as they were recorded.     *)
Earlier ==
  [name |-> {}, acl |-> {"name"}, check |-> {"name", "acl"},
   field |-> {"name", "acl", "check"},
   target |-> {"name", "acl", "check", "field"}]
Done(k) ==
  \/ \E s \in Earlier[stage] : \E e \in Work[s] : k \in Carried(s, e)
  \/ \E e \in sent : k \in Carried(stage, e)
GoalAsSent ==
  \A k \in Keys :
     IF Done(k) THEN cloud[entry].goal[k] = Sent(k)
     ELSE known[k] = ToTerraformNetworkResource(cloud[entry].goal)[k]
(* The record was read: only the secrets, and the health checks where      *)
(* there are none, are absent.                                             *)
WasRead ==
  \A k \in Keys : known[k] = Unset =>
     k = Cert \/ (k \in CheckKeys \cup {Members} /\ NoChecks(known))
UpdatesInOrder ==
  pc \in {"update", "updateWait"} =>
    /\ sent \subseteq Work[stage] /\ ~Replaces /\ config.want
    /\ ~stale => WasRead
    /\ pc = "update" /\ ~stale => Steady(entry) /\ GoalAsSent
    /\ pc = "updateWait" /\ ~stale =>
         /\ cloud[entry].status \in {"BUSY", "RUNNING"} => GoalAsSent
         /\ cloud[entry].status = "RUNNING" => Steady(entry)

Placed ==
  TypeOK /\ HandlersWellPlaced /\ NoServingOrphan /\ HeldOrLeaving
Recorded ==
  /\ SettledIdle /\ RefreshedAgrees /\ UpdatesInOrder
  /\ RecordAgrees /\ SuccessMeansConfigured
Inv == Placed /\ Recorded

-----------------------------------------------------------------------------
(* The keys, and what the stages carry.                                    *)

PlanValues == Values \cup {Empty, Unset, Unknown}

(* The keys by their two components.                                       *)
LEMMA KeyCases ==
  ASSUME NEW k \in Keys
  PROVE  \/ k \in {Fixed, Members, Name, Acl, Cert}
         \/ \E c \in Checks : k = <<c, "probe">> \/ k = <<c, "timing">>
         \/ \E b \in Backends : k \in {<<b, "close">>, <<b, "panic">>, <<b, "targets">>}
BY DEF Keys, CheckKeys

LEMMA WorkIsIn ==
  ASSUME NEW s \in Stages, NEW e \in Work[s]
  PROVE  /\ s \in {"name", "acl"} => e = "lb"
         /\ s = "check" => e \in Checks
         /\ s \in {"field", "target"} => e \in Backends
         /\ e \in {"lb"} \cup Checks \cup Backends
BY DEF Stages, Work

(* A key is carried by one stage and for one element; those of the schema  *)
(* that can only be replaced, and the certificates, by none.               *)
LEMMA CarriedCases ==
  ASSUME NEW s \in Stages, NEW e, NEW k \in Carried(s, e)
  PROVE  /\ s = "name" => k = Name
         /\ s = "acl" => k = Acl
         /\ s = "check" => k = <<e, "probe">> \/ k = <<e, "timing">>
         /\ s = "field" => k = <<e, "close">> \/ k = <<e, "panic">>
         /\ s = "target" => k = <<e, "targets">>
BY DEF Stages, Carried

LEMMA CarriedOnce ==
  ASSUME NEW s \in Stages, NEW e \in Work[s], NEW k \in Carried(s, e)
  PROVE  /\ k \in Keys /\ k \notin {Fixed, Members, Cert}
         /\ \A s2 \in Stages : \A e2 \in Work[s2] :
               k \in Carried(s2, e2) => s2 = s /\ e2 = e
<1>1. k \in Keys
  BY CarriedCases, WorkIsIn DEF Keys, CheckKeys, Stages
<1>2. k \notin {Fixed, Members, Cert}
  BY CarriedCases, WorkIsIn, NamesAssumption DEF Fixed, Members, Cert, Name, Acl, Stages
<1>3. ASSUME NEW s2 \in Stages, NEW e2 \in Work[s2], k \in Carried(s2, e2)
      PROVE  s2 = s /\ e2 = e
  <2>1. /\ s2 = "name" => k = Name
        /\ s2 = "acl" => k = Acl
        /\ s2 = "check" => k = <<e2, "probe">> \/ k = <<e2, "timing">>
        /\ s2 = "field" => k = <<e2, "close">> \/ k = <<e2, "panic">>
        /\ s2 = "target" => k = <<e2, "targets">>
    BY <1>3, CarriedCases
  <2> QED BY <2>1, <1>3, CarriedCases, WorkIsIn, NamesAssumption DEF Name, Acl, Stages
<1> QED BY <1>1, <1>2, <1>3

-----------------------------------------------------------------------------
(* The types of the derived quantities.                                    *)

LEMMA PlannedType ==
  ASSUME TypeOK
  PROVE  /\ Planned \in [Keys -> PlanValues]
         /\ \A k \in Keys \ ComputedKeys : Planned[k] = Configured(k)
         /\ \A k \in Keys : Configured(k) \in Values \cup {Unset}
<1>1. ASSUME NEW k \in Keys PROVE Configured(k) \in Values \cup {Unset}
  BY ConfigAssumption DEF TypeOK, Configured
<1>2. \A k \in Keys : known[k] \in Values \cup {Empty, Unset}
  BY DEF TypeOK
<1>3. Planned \in [Keys -> PlanValues]
  BY <1>1, <1>2 DEF Planned, PlanValues
<1>4. \A k \in Keys \ ComputedKeys : Planned[k] = Configured(k)
  BY DEF Planned
<1> QED BY <1>1, <1>3, <1>4

LEMMA NoObjectType == NoObject \in Balancer
BY ConfigAssumption DEF NoObject, Balancer, Status, Attrs

LEMMA NewBalancerType ==
  ASSUME TypeOK
  PROVE  NewBalancer \in Balancer /\ NewBalancer.status = "BUSY"
<1> DEFINE a == [k \in Keys |->
              IF config.attrs[k] # Unset /\ (k \in CheckKeys => ~NoChecks(config.attrs))
              THEN config.attrs[k]
              ELSE IF k \in OptionalKeys THEN Empty ELSE Default[k]]
<1>1. a \in Attrs
  BY ConfigAssumption DEF TypeOK, Attrs
<1>2. NewBalancer = [status |-> "BUSY", attrs |-> a, goal |-> a]
  BY DEF NewBalancer
<1> HIDE DEF a
<1> QED BY <1>1, <1>2 DEF Balancer, Status

LEMMA ReadType ==
  ASSUME NEW attrs \in Attrs
  PROVE  ToTerraformNetworkResource(attrs) \in [Keys -> Values \cup {Empty, Unset}]
BY DEF ToTerraformNetworkResource, Attrs

LEMMA UpdateRecordType ==
  ASSUME TypeOK PROVE UpdateRecord \in [Keys -> Values \cup {Empty, Unset}]
<1>1. \A k \in Keys : known[k] \in Values \cup {Empty, Unset}
  BY DEF TypeOK
<1> QED BY <1>1, PlannedType DEF UpdateRecord, PlanValues

(* What is sent is a value.                                                *)
LEMMA SentType ==
  ASSUME TypeOK, NEW s \in Stages, NEW e \in Work[s], NEW k \in Carried(s, e)
  PROVE  Planned[k] # Unknown /\ Sent(k) \in Values \cup {Empty}
<1>1. k \in Keys
  BY CarriedOnce
<1>2. Planned[k] # Unknown
  <2>1. CASE s \in {"name", "acl", "target"}
    <3>1. k \notin ComputedKeys
      BY <2>1, CarriedCases DEF ComputedKeys, Name, Acl
    <3>2. Configured(k) # Unknown
      BY <1>1, PlannedType, MarksAssumption
    <3> QED BY <1>1, <3>1, <3>2, PlannedType
  <2>2. CASE s = "check"
    BY <2>2, CarriedCases, MarksAssumption DEF Work, hasHealthCheckChanges
  <2>3. CASE s = "field"
    BY <2>3, CarriedCases, MarksAssumption DEF Work, hasBackendFieldChanges
  <2> QED BY <2>1, <2>2, <2>3 DEF Stages
<1> QED BY <1>1, <1>2, PlannedType DEF Sent, PlanValues

LEMMA RequestType ==
  ASSUME TypeOK, entry \in Ids, stage \in Stages, Request
  PROVE  /\ cloud' \in [Ids -> Balancer]
         /\ \A i \in Ids : Exists(i)' <=> Exists(i)
         /\ \A i \in Ids \ {entry} : cloud'[i] = cloud[i]
         /\ sent' \subseteq {"lb"} \cup Checks \cup Backends
<1>0. PICK e \in Work[stage] \ sent :
      /\ cloud' = [cloud EXCEPT
                     ![entry].status = "BUSY",
                     ![entry].goal = [k \in Keys |->
                        IF k \in Carried(stage, e) THEN Sent(k)
                        ELSE cloud[entry].goal[k]]]
      /\ sent' = sent \cup {e}
  BY DEF Request
<1> DEFINE g == [k \in Keys |-> IF k \in Carried(stage, e) THEN Sent(k)
                                ELSE cloud[entry].goal[k]]
<1>1. cloud[entry] \in Balancer /\ DOMAIN cloud = Ids
  BY DEF TypeOK
<1>2. g \in Attrs
  <2>1. \A k \in Keys : cloud[entry].goal[k] \in Values \cup {Empty}
    BY <1>1 DEF Balancer, Attrs
  <2>2. \A k \in Carried(stage, e) : Sent(k) \in Values \cup {Empty}
    BY <1>0, SentType
  <2> QED BY <2>1, <2>2 DEF Attrs
<1>3. cloud' = [cloud EXCEPT ![entry].status = "BUSY", ![entry].goal = g]
  BY <1>0
<1> HIDE DEF g
<1>4. cloud' \in [Ids -> Balancer]
  <2>1. PICK st \in Status :
          cloud' = [cloud EXCEPT ![entry].status = st, ![entry].goal = g]
    BY <1>3 DEF Status
  <2> QED BY <1>1, <1>2, <2>1 DEF TypeOK, Balancer
<1>5. ASSUME NEW i \in Ids PROVE Exists(i)' <=> Exists(i)
  BY <1>1, <1>3 DEF Exists, Request, Balancer
<1>6. \A i \in Ids \ {entry} : cloud'[i] = cloud[i]
  BY <1>1, <1>3
<1>7. sent' \subseteq {"lb"} \cup Checks \cup Backends
  BY <1>0, WorkIsIn DEF TypeOK
<1> QED BY <1>4, <1>5, <1>6, <1>7

-----------------------------------------------------------------------------
(* The placement of handlers and objects: the steps by their shape.        *)

LEMMA FaultType ==
  ASSUME TypeOK, Fault \/ NoFault PROVE faults' \in 0 .. MaxFaults
BY BoundsAssumption DEF TypeOK, Fault, NoFault

(* The service changes nothing, or only the recorded balancer, which stays.*)
OnlyEntryMoves ==
  /\ cloud' \in [Ids -> Balancer]
  /\ \A i \in Ids : Exists(i)' <=> Exists(i)
  /\ \A i \in Ids \ {entry} : cloud'[i] = cloud[i]

BalancerTypes ==
  /\ tainted' \in BOOLEAN /\ stage' \in Stages
  /\ sent' \subseteq {"lb"} \cup Checks \cup Backends

LEMMA SameCloud == ASSUME TypeOK, UNCHANGED cloud PROVE OnlyEntryMoves
BY DEF TypeOK, OnlyEntryMoves, Exists

LEMMA SameBalancer == ASSUME TypeOK, UNCHANGED balancer PROVE BalancerTypes
BY DEF TypeOK, BalancerTypes, balancer

LEMMA EntryKnown ==
  ASSUME Placed, pc \in EntryPCs PROVE entry \in Ids /\ entry # NoId
BY DEF Placed, TypeOK, HandlersWellPlaced

LEMMA FailPlaced ==
  ASSUME Placed, Fail, Fault \/ NoFault, OnlyEntryMoves, BalancerTypes
  PROVE  Placed'
<1>1. TypeOK'
  BY FaultType
  DEF Placed, TypeOK, Fail, PCs, env, OnlyEntryMoves, BalancerTypes
<1>2. HandlersWellPlaced' /\ HeldOrLeaving'
  BY DEF Placed, HandlersWellPlaced, HeldOrLeaving, Fail, EntryPCs
<1>3. NoServingOrphan'
  <2> SUFFICES ASSUME NEW i \in Ids, Exists(i)', i \notin disclosed' \cup {entry', made'}
               PROVE  cloud'[i].status \in {"DELETING", "DELETED", "FAILED"}
    BY DEF NoServingOrphan
  <2>1. Exists(i) /\ i # entry /\ cloud'[i] = cloud[i]
    BY DEF OnlyEntryMoves, Fail
  <2>2. i \notin disclosed \cup {entry, made}
    BY <2>1, IdsAssumption DEF Fail
  <2> QED BY <2>1, <2>2 DEF Placed, NoServingOrphan
<1> QED BY <1>1, <1>2, <1>3 DEF Placed

LEMMA GotoPlaced ==
  ASSUME Placed, NEW l \in PCs \ {"idle", "import", "createWait"}, Goto(l),
         Fault \/ NoFault, OnlyEntryMoves, BalancerTypes,
         pc \notin {"import", "createWait"},
         l \in EntryPCs => entry # NoId,
         l = "create" => entry = NoId,
         l = "deleteWait" => cloud'[entry].status = "DELETING"
  PROVE  Placed'
<1>1. TypeOK'
  BY FaultType
  DEF Placed, TypeOK, Goto, env, OnlyEntryMoves, BalancerTypes
<1>2. HandlersWellPlaced'
  BY DEF Placed, HandlersWellPlaced, Goto
<1>3. HeldOrLeaving'
  BY DEF HeldOrLeaving, Goto
<1>4. NoServingOrphan'
  <2> SUFFICES ASSUME NEW i \in Ids, Exists(i)', i \notin disclosed' \cup {entry', made'}
               PROVE  cloud'[i].status \in {"DELETING", "DELETED", "FAILED"}
    BY DEF NoServingOrphan
  <2>1. Exists(i) /\ i \notin disclosed \cup {entry, made} /\ cloud'[i] = cloud[i]
    BY DEF OnlyEntryMoves, Goto
  <2> QED BY <2>1 DEF Placed, NoServingOrphan
<1> QED BY <1>1, <1>2, <1>3, <1>4 DEF Placed

-----------------------------------------------------------------------------
(* The plan, Create, Read and ImportState.                                 *)

LEMMA PlanPlaced ==
  ASSUME Placed, PlanNothing \/ PlanCreate \/ PlanUpdate \/ PlanDelete
  PROVE  Placed'
<1>1. CASE PlanNothing
  <2>1. TypeOK'
    BY <1>1 DEF Placed, TypeOK, PlanNothing, NothingPlanned, env, PCs, balancer
  <2>2. HandlersWellPlaced' /\ HeldOrLeaving'
    BY <1>1 DEF Placed, HandlersWellPlaced, HeldOrLeaving, PlanNothing,
                NothingPlanned, EntryPCs
  <2>3. NoServingOrphan'
    BY <1>1 DEF Placed, NoServingOrphan, PlanNothing, NothingPlanned, Exists
  <2> QED BY <2>1, <2>2, <2>3 DEF Placed
<1>2. CASE PlanCreate
  BY <1>2, GotoPlaced, SameCloud, SameBalancer
  DEF Placed, PlanCreate, CreatePlanned, PCs, EntryPCs
<1>3. CASE PlanUpdate
  BY <1>3, GotoPlaced, SameCloud
  DEF Placed, TypeOK, PlanUpdate, UpdatePlanned, PCs, EntryPCs, BalancerTypes, Stages
<1>4. CASE PlanDelete
  BY <1>4, GotoPlaced, SameCloud, SameBalancer
  DEF Placed, PlanDelete, DeletePlanned, PCs, EntryPCs
<1> QED BY <1>1, <1>2, <1>3, <1>4

LEMMA CreatePlaced ==
  ASSUME Placed, CreateRejected \/ CreateDone \/ \E i \in Ids :
                   CreateAccepted(i) \/ CreateReplyLost(i)
  PROVE  Placed'
<1>1. CASE CreateRejected
  BY <1>1, FailPlaced, SameCloud, SameBalancer DEF Placed, CreateRejected
<1>2. ASSUME NEW i \in Ids, CreateAccepted(i) \/ CreateReplyLost(i) PROVE Placed'
  <2>1. cloud' = [cloud EXCEPT ![i] = NewBalancer] /\ pc = "create" /\ made = NoId
        /\ entry = NoId /\ i # NoId /\ DOMAIN cloud = Ids
    BY <1>2, IdsAssumption DEF CreateAccepted, CreateReplyLost, MayCreate,
                               Placed, HandlersWellPlaced, TypeOK
  <2>2. TypeOK'
    BY <1>2, <2>1, NewBalancerType, FaultType
    DEF Placed, TypeOK, CreateAccepted, CreateReplyLost, env, PCs, balancer
  <2>3. HandlersWellPlaced' /\ HeldOrLeaving'
    BY <1>2, <2>1 DEF Placed, HandlersWellPlaced, HeldOrLeaving, CreateAccepted,
                      CreateReplyLost, EntryPCs
  <2>4. NoServingOrphan'
    <3> SUFFICES ASSUME NEW j \in Ids, Exists(j)', j \notin disclosed' \cup {entry', made'}
                 PROVE  cloud'[j].status \in {"DELETING", "DELETED", "FAILED"}
      BY DEF NoServingOrphan
    <3>1. j # i /\ j \notin disclosed \cup {entry, made}
      BY <1>2, <2>1, IdsAssumption DEF CreateAccepted, CreateReplyLost
    <3>2. cloud'[j] = cloud[j] /\ Exists(j)
      BY <2>1, <3>1 DEF Exists
    <3> QED BY <3>1, <3>2 DEF Placed, NoServingOrphan
  <2> QED BY <2>2, <2>3, <2>4 DEF Placed
<1>3. CASE CreateDone
  <2>1. made \in Ids /\ entry = NoId
    BY <1>3 DEF Placed, TypeOK, HandlersWellPlaced, CreateDone
  <2>2. TypeOK'
    <3>1. known' \in [Keys -> Values \cup {Empty, Unset}]
      BY <1>3, <2>1, ReadType DEF Placed, TypeOK, CreateDone, Balancer
    <3> QED BY <1>3, <2>1, <3>1 DEF Placed, TypeOK, CreateDone, env, PCs
  <2>3. HandlersWellPlaced' /\ HeldOrLeaving'
    BY <1>3 DEF Placed, HandlersWellPlaced, HeldOrLeaving, CreateDone, EntryPCs
  <2>4. NoServingOrphan'
    BY <1>3, <2>1, IdsAssumption DEF Placed, NoServingOrphan, CreateDone, Exists
  <2> QED BY <2>2, <2>3, <2>4 DEF Placed
<1> QED BY <1>1, <1>2, <1>3

LEMMA ReadPlaced ==
  ASSUME Placed, ReadOk \/ ReadFails \/ ImportOk \/ ImportFails
  PROVE  Placed'
<1>1. CASE ReadOk
  <2>1. known' \in [Keys -> Values \cup {Empty, Unset}]
    BY <1>1, EntryKnown, ReadType DEF Placed, TypeOK, ReadOk, Balancer, EntryPCs
  <2>2. TypeOK'
    BY <1>1, <2>1 DEF Placed, TypeOK, ReadOk, MidChange, env, PCs, balancer
  <2>3. HandlersWellPlaced' /\ HeldOrLeaving'
    BY <1>1 DEF Placed, HandlersWellPlaced, HeldOrLeaving, ReadOk, EntryPCs
  <2>4. NoServingOrphan'
    BY <1>1 DEF Placed, NoServingOrphan, ReadOk, Exists
  <2> QED BY <2>2, <2>3, <2>4 DEF Placed
<1>2. CASE ReadFails
  BY <1>2, FailPlaced, SameCloud, SameBalancer DEF Placed, ReadFails
<1>3. CASE ImportOk
  <2>1. made \in Ids /\ entry = NoId
    BY <1>3 DEF Placed, TypeOK, HandlersWellPlaced, ImportOk
  <2>2. known' \in [Keys -> Values \cup {Empty, Unset}]
    BY <1>3, <2>1, ReadType DEF Placed, TypeOK, ImportOk, Balancer
  <2>3. TypeOK'
    BY <1>3, <2>1, <2>2 DEF Placed, TypeOK, ImportOk, MidChange, env, PCs
  <2>4. HandlersWellPlaced' /\ HeldOrLeaving'
    BY <1>3 DEF Placed, HandlersWellPlaced, HeldOrLeaving, ImportOk, EntryPCs
  <2>5. NoServingOrphan'
    BY <1>3, <2>1, IdsAssumption DEF Placed, NoServingOrphan, ImportOk, Exists
  <2> QED BY <2>3, <2>4, <2>5 DEF Placed
<1>4. CASE ImportFails
  <2>1. TypeOK'
    BY <1>4, FaultType DEF Placed, TypeOK, ImportFails, env, PCs, balancer
  <2>2. HandlersWellPlaced' /\ HeldOrLeaving'
    BY <1>4 DEF Placed, HandlersWellPlaced, HeldOrLeaving, ImportFails, EntryPCs
  <2>3. NoServingOrphan'
    BY <1>4 DEF Placed, NoServingOrphan, HeldOrLeaving, ImportFails, Exists
  <2> QED BY <2>1, <2>2, <2>3 DEF Placed
<1> QED BY <1>1, <1>2, <1>3, <1>4

-----------------------------------------------------------------------------
(* Update and Delete.                                                      *)

LEMMA UpdatePlaced ==
  ASSUME Placed, \/ Send \/ SendReplyLost \/ SendRejected
                 \/ SendDone \/ StageDone \/ Commit
  PROVE  Placed'
<1>1. CASE Send \/ SendReplyLost
  <2>1. entry \in Ids /\ entry # NoId /\ TypeOK /\ stage \in Stages
    BY <1>1, EntryKnown DEF Placed, TypeOK, Send, SendReplyLost, EntryPCs
  <2>2. OnlyEntryMoves /\ BalancerTypes
    BY <1>1, <2>1, RequestType
    DEF Send, SendReplyLost, OnlyEntryMoves, BalancerTypes, TypeOK
  <2>3. CASE Send
    BY <2>1, <2>2, <2>3, GotoPlaced DEF Send, PCs, EntryPCs
  <2>4. CASE SendReplyLost
    BY <2>2, <2>4, FailPlaced DEF SendReplyLost
  <2> QED BY <1>1, <2>3, <2>4
<1>2. CASE SendRejected
  BY <1>2, FailPlaced, SameCloud, SameBalancer DEF Placed, SendRejected
<1>3. CASE SendDone
  BY <1>3, GotoPlaced, SameCloud, SameBalancer, EntryKnown
  DEF Placed, SendDone, PCs, EntryPCs
<1>4. CASE StageDone
  <2>1. BalancerTypes
    BY <1>4 DEF Placed, TypeOK, StageDone, BalancerTypes, NextStage, Stages
  <2> QED BY <1>4, <2>1, GotoPlaced, SameCloud, EntryKnown
          DEF Placed, StageDone, PCs, EntryPCs
<1>5. CASE Commit
  <2>1. TypeOK'
    BY <1>5, UpdateRecordType
    DEF Placed, TypeOK, Commit, NoFault, env, PCs, balancer
  <2>2. HandlersWellPlaced' /\ HeldOrLeaving'
    BY <1>5 DEF Placed, HandlersWellPlaced, HeldOrLeaving, Commit, EntryPCs
  <2>3. NoServingOrphan'
    BY <1>5 DEF Placed, NoServingOrphan, Commit, Exists
  <2> QED BY <2>1, <2>2, <2>3 DEF Placed
<1> QED BY <1>1, <1>2, <1>3, <1>4, <1>5

LEMMA DeletePlaced ==
  ASSUME Placed, \/ DeleteRejected \/ DeleteAccepted
                 \/ DeleteDone \/ DeletePollHTTPError
  PROVE  Placed'
<1>1. CASE DeleteRejected
  BY <1>1, FailPlaced, SameCloud, SameBalancer DEF Placed, DeleteRejected
<1>2. CASE DeleteAccepted
  <2>1. entry \in Ids /\ entry # NoId
    BY <1>2, EntryKnown DEF DeleteAccepted, EntryPCs
  <2>2. OnlyEntryMoves /\ cloud'[entry].status = "DELETING"
    <3>1. PICK st \in Status \ {"GONE"} :
            st = "DELETING" /\ cloud' = [cloud EXCEPT ![entry].status = st]
      BY <1>2 DEF DeleteAccepted, Status
    <3>2. DOMAIN cloud = Ids /\ cloud[entry] \in Balancer /\ Exists(entry)
      BY <1>2, <2>1 DEF Placed, TypeOK, DeleteAccepted, Exists
    <3>3. cloud' \in [Ids -> Balancer]
      BY <3>1, <3>2 DEF Placed, TypeOK, Balancer
    <3>4. \A i \in Ids : Exists(i)' <=> Exists(i)
      BY <3>1, <3>2 DEF Balancer, Exists
    <3>5. \A i \in Ids \ {entry} : cloud'[i] = cloud[i]
      BY <3>1, <3>2
    <3>6. cloud'[entry].status = "DELETING"
      BY <2>1, <3>1, <3>2 DEF Balancer
    <3> QED BY <3>3, <3>4, <3>5, <3>6 DEF OnlyEntryMoves
  <2>3. CASE Goto("deleteWait") /\ NoFault
    BY <1>2, <2>1, <2>2, <2>3, GotoPlaced, SameBalancer
    DEF Placed, DeleteAccepted, PCs, EntryPCs
  <2>4. CASE Fault /\ Fail
    BY <1>2, <2>2, <2>4, FailPlaced, SameBalancer DEF Placed, DeleteAccepted
  <2> QED BY <1>2, <2>3, <2>4 DEF DeleteAccepted
<1>3. CASE DeleteDone \/ DeletePollHTTPError
  <2>1. TypeOK'
    <3>1. Default \in [Keys -> Values \cup {Empty, Unset}]
      BY ConfigAssumption
    <3>2. faults' \in 0 .. MaxFaults
      BY <1>3, BoundsAssumption
      DEF Placed, TypeOK, DeleteDone, DeletePollHTTPError, Deleted
    <3> QED BY <1>3, <3>1, <3>2
            DEF Placed, TypeOK, DeleteDone, DeletePollHTTPError, Deleted, env, PCs
  <2>2. HandlersWellPlaced' /\ HeldOrLeaving'
    BY <1>3 DEF Placed, HandlersWellPlaced, HeldOrLeaving, DeleteDone,
                DeletePollHTTPError, Deleted, EntryPCs
  <2>3. NoServingOrphan'
    <3> SUFFICES ASSUME NEW i \in Ids, Exists(i), i \notin disclosed \cup {made}
                 PROVE  cloud[i].status \in {"DELETING", "DELETED", "FAILED"}
      BY <1>3 DEF NoServingOrphan, DeleteDone, DeletePollHTTPError, Deleted, Exists
    <3>1. CASE i = entry
      BY <1>3, <3>1 DEF Placed, HeldOrLeaving, DeleteDone, DeletePollHTTPError, Exists
    <3>2. CASE i # entry
      BY <3>2 DEF Placed, NoServingOrphan
    <3> QED BY <3>1, <3>2
  <2> QED BY <2>1, <2>2, <2>3 DEF Placed
<1> QED BY <1>1, <1>2, <1>3

-----------------------------------------------------------------------------
(* The user and the service.                                               *)

LEMMA UserPlaced == ASSUME Placed, User PROVE Placed'
<1>1. CASE EditConfig
  <2>1. TypeOK'
    <3>1. edits' \in 0 .. MaxEdits /\ config' \in [want : BOOLEAN, attrs : Configs]
      BY <1>1, BoundsAssumption DEF Placed, TypeOK, EditConfig
    <3> QED BY <1>1, <3>1 DEF Placed, TypeOK, EditConfig, User, balancer
  <2>2. HandlersWellPlaced' /\ HeldOrLeaving'
    BY <1>1 DEF Placed, HandlersWellPlaced, HeldOrLeaving, EditConfig, EntryPCs
  <2>3. NoServingOrphan'
    BY <1>1 DEF Placed, NoServingOrphan, EditConfig, Exists
  <2> QED BY <2>1, <2>2, <2>3 DEF Placed
<1>2. CASE StartRun
  BY <1>2, GotoPlaced, SameCloud, SameBalancer
  DEF Placed, StartRun, PCs, EntryPCs, User
<1>3. ASSUME NEW i \in Ids, StartImport(i) PROVE Placed'
  <2>1. TypeOK'
    BY <1>3 DEF Placed, TypeOK, StartImport, env, PCs, User, balancer
  <2>2. HandlersWellPlaced' /\ HeldOrLeaving'
    BY <1>3, IdsAssumption
    DEF Placed, HandlersWellPlaced, HeldOrLeaving, StartImport, EntryPCs
  <2>3. NoServingOrphan'
    BY <1>3, IdsAssumption
    DEF Placed, NoServingOrphan, HandlersWellPlaced, StartImport, Exists
  <2> QED BY <2>1, <2>2, <2>3 DEF Placed
<1> QED BY <1>1, <1>2, <1>3 DEF User

(* A change of one object by the service itself.                           *)
Moves(i, st, at, gl) ==
  /\ cloud' \in [Ids -> Balancer]
  /\ \A j \in Ids \ {i} : cloud'[j] = cloud[j]
  /\ cloud'[i].status = st /\ cloud'[i].attrs = at /\ cloud'[i].goal = gl

(* It completes or fails, another client changes it or asks for its        *)
(* deletion: the object stays.                                             *)
LEMMA ServiceMoves ==
  ASSUME TypeOK, NEW i \in Ids
  PROVE  /\ Settle(i) => Moves(i, "RUNNING", cloud[i].goal, cloud[i].goal)
         /\ Break(i) => Moves(i, "FAILED", cloud[i].attrs, cloud[i].attrs)
         /\ ExternalDelete(i) => Moves(i, "DELETING", cloud[i].attrs, cloud[i].goal)
         /\ Linger(i) => Moves(i, "DELETED", cloud[i].attrs, cloud[i].goal)
         /\ \A k \in Keys, v \in Values : Drift(i, k, v) =>
              \E at, gl \in Attrs : Moves(i, "RUNNING", at, gl)
<1>1. DOMAIN cloud = Ids /\ cloud[i] \in Balancer
  BY DEF TypeOK
<1>2. cloud[i].attrs \in Attrs /\ cloud[i].goal \in Attrs
  BY <1>1 DEF Balancer
<1>3. {"RUNNING", "FAILED", "DELETING", "DELETED"} \subseteq Status
  BY DEF Status
<1>4. ASSUME NEW st \in Status, NEW at \in Attrs,
             cloud' = [cloud EXCEPT ![i].status = st, ![i].attrs = at]
      PROVE  Moves(i, st, at, cloud[i].goal)
  <2>1. cloud' \in [Ids -> Balancer]
    BY <1>1, <1>4 DEF TypeOK, Balancer
  <2>2. \A j \in Ids \ {i} : cloud'[j] = cloud[j]
    BY <1>1, <1>4
  <2>3. cloud'[i].status = st /\ cloud'[i].attrs = at /\ cloud'[i].goal = cloud[i].goal
    BY <1>1, <1>4 DEF Balancer
  <2> QED BY <2>1, <2>2, <2>3 DEF Moves
<1>5. ASSUME NEW st \in Status, NEW gl \in Attrs,
             cloud' = [cloud EXCEPT ![i].status = st, ![i].goal = gl]
      PROVE  Moves(i, st, cloud[i].attrs, gl)
  <2>1. cloud' \in [Ids -> Balancer]
    BY <1>1, <1>5 DEF TypeOK, Balancer
  <2>2. \A j \in Ids \ {i} : cloud'[j] = cloud[j]
    BY <1>1, <1>5
  <2>3. cloud'[i].status = st /\ cloud'[i].attrs = cloud[i].attrs /\ cloud'[i].goal = gl
    BY <1>1, <1>5 DEF Balancer
  <2> QED BY <2>1, <2>2, <2>3 DEF Moves
<1>6. ASSUME NEW st \in Status, cloud' = [cloud EXCEPT ![i].status = st]
      PROVE  Moves(i, st, cloud[i].attrs, cloud[i].goal)
  <2>1. cloud' \in [Ids -> Balancer]
    BY <1>1, <1>6 DEF TypeOK, Balancer
  <2>2. \A j \in Ids \ {i} : cloud'[j] = cloud[j]
    BY <1>1, <1>6
  <2>3. /\ cloud'[i].status = st /\ cloud'[i].attrs = cloud[i].attrs
        /\ cloud'[i].goal = cloud[i].goal
    BY <1>1, <1>6 DEF Balancer
  <2> QED BY <2>1, <2>2, <2>3 DEF Moves
<1>7. ASSUME NEW at \in Attrs, NEW gl \in Attrs,
             cloud' = [cloud EXCEPT ![i].attrs = at, ![i].goal = gl]
      PROVE  Moves(i, cloud[i].status, at, gl)
  <2>1. cloud' \in [Ids -> Balancer]
    BY <1>1, <1>7 DEF TypeOK, Balancer
  <2>2. \A j \in Ids \ {i} : cloud'[j] = cloud[j]
    BY <1>1, <1>7
  <2>3. /\ cloud'[i].status = cloud[i].status /\ cloud'[i].attrs = at
        /\ cloud'[i].goal = gl
    BY <1>1, <1>7 DEF Balancer
  <2> QED BY <2>1, <2>2, <2>3 DEF Moves
<1>8. ASSUME NEW k \in Keys, NEW v \in Values, Drift(i, k, v)
      PROVE  \E at, gl \in Attrs : Moves(i, "RUNNING", at, gl)
  <2>1. PICK at, gl \in Attrs : cloud' = [cloud EXCEPT ![i].attrs = at, ![i].goal = gl]
    <3>1. /\ [cloud[i].attrs EXCEPT ![k] = v] \in Attrs
          /\ [cloud[i].goal EXCEPT ![k] = v] \in Attrs
      BY <1>2 DEF Attrs
    <3>2. cloud' = [cloud EXCEPT ![i].attrs = [cloud[i].attrs EXCEPT ![k] = v],
                                 ![i].goal = [cloud[i].goal EXCEPT ![k] = v]]
      BY <1>8 DEF Drift, Drifts
    <3> QED BY <3>1, <3>2
  <2>2. cloud[i].status = "RUNNING"
    BY <1>8 DEF Drift
  <2> QED BY <2>1, <2>2, <1>7
<1>9. Settle(i) => Moves(i, "RUNNING", cloud[i].goal, cloud[i].goal)
  BY <1>2, <1>3, <1>4 DEF Settle, Completes
<1>10. Break(i) => Moves(i, "FAILED", cloud[i].attrs, cloud[i].attrs)
  BY <1>2, <1>3, <1>5 DEF Break, Breaks
<1>11. ExternalDelete(i) => Moves(i, "DELETING", cloud[i].attrs, cloud[i].goal)
  BY <1>3, <1>6 DEF ExternalDelete, DeletedElsewhere
<1>12. Linger(i) => Moves(i, "DELETED", cloud[i].attrs, cloud[i].goal)
  BY <1>3, <1>6 DEF Linger
<1> QED BY <1>8, <1>9, <1>10, <1>11, <1>12

(* A move keeps an object in existence and one that is on its way out      *)
(* there, and is nobody else's business.                                   *)
LEMMA MovedPlaced ==
  ASSUME Placed, NEW i \in Ids, NEW st, NEW at, NEW gl, Moves(i, st, at, gl),
         st # "GONE", cloud[i].status # "GONE",
         cloud[i].status \in {"DELETING", "DELETED", "FAILED"} => st \in {"DELETING", "DELETED", "FAILED"},
         UNCHANGED <<entry, known, pc, made, disclosed, env, balancer>>,
         Fault \/ NoFault, stale' \in BOOLEAN, settled' \in BOOLEAN
  PROVE  Placed'
<1>1. TypeOK'
  BY FaultType DEF Placed, TypeOK, Moves, env, balancer
<1>2. HandlersWellPlaced'
  BY DEF Placed, HandlersWellPlaced
<1>3. \A j \in Ids : /\ Exists(j)' <=> Exists(j)
                     /\ cloud[j].status \in {"DELETING", "DELETED", "FAILED"}
                          => cloud'[j].status \in {"DELETING", "DELETED", "FAILED"}
  BY DEF Exists, Moves
<1>4. HeldOrLeaving'
  <2>1. CASE pc = "deleteWait"
    <3>1. entry \in Ids
      BY <2>1, EntryKnown DEF EntryPCs
    <3> QED BY <1>3, <2>1, <3>1 DEF Placed, HeldOrLeaving, Exists
  <2>2. CASE pc = "import"
    <3>1. made \in Ids
      BY <2>2 DEF Placed, TypeOK, HandlersWellPlaced
    <3> QED BY <1>3, <2>2, <3>1 DEF Placed, HeldOrLeaving
  <2> QED BY <2>1, <2>2 DEF HeldOrLeaving
<1>5. NoServingOrphan'
  BY <1>3 DEF Placed, NoServingOrphan
<1> QED BY <1>1, <1>2, <1>4, <1>5 DEF Placed

LEMMA ServicePlaced == ASSUME Placed, Service PROVE Placed'
<1>1. ASSUME NEW i \in Ids, \/ Settle(i) \/ Break(i)
                           \/ ExternalDelete(i) \/ Linger(i)
                           \/ \E k \in Keys, v \in Values : Drift(i, k, v)
      PROVE  Placed'
  <2>1. PICK st, at, gl : /\ Moves(i, st, at, gl)
                          /\ st # "GONE" /\ cloud[i].status # "GONE"
                          /\ (cloud[i].status \in {"DELETING", "DELETED", "FAILED"}
                               => st \in {"DELETING", "DELETED", "FAILED"})
    <3>1. CASE Settle(i)
      BY <3>1, ServiceMoves DEF Placed, Settle, Completes
    <3>2. CASE Break(i)
      BY <3>2, ServiceMoves DEF Placed, Break
    <3>3. CASE ExternalDelete(i)
      BY <3>3, ServiceMoves DEF Placed, ExternalDelete
    <3>4. ASSUME NEW k \in Keys, NEW v \in Values, Drift(i, k, v)
          PROVE  \E at, gl : /\ Moves(i, "RUNNING", at, gl)
                             /\ cloud[i].status = "RUNNING"
      BY <3>4, ServiceMoves DEF Placed, Drift
    <3>5. CASE Linger(i)
      BY <3>5, ServiceMoves DEF Placed, Linger
    <3> QED BY <1>1, <3>1, <3>2, <3>3, <3>4, <3>5
  <2>2. /\ UNCHANGED <<entry, known, pc, made, disclosed, env, balancer>>
        /\ (Fault \/ NoFault) /\ stale' \in BOOLEAN /\ settled' \in BOOLEAN
    BY <1>1 DEF Placed, TypeOK, Settle, Completes, Break, Breaks, ExternalDelete,
                DeletedElsewhere, Drift, Drifts, Linger, ServiceOnly, Behind
  <2> QED BY <2>1, <2>2, MovedPlaced
<1>2. ASSUME NEW i \in Ids, Vanish(i) PROVE Placed'
  <2>1. /\ cloud' = [cloud EXCEPT ![i] = NoObject] /\ DOMAIN cloud = Ids
        /\ disclosed' = disclosed \ {i}
        /\ UNCHANGED <<entry, known, pc, made, env, balancer>>
    BY <1>2 DEF Placed, TypeOK, Vanish, Disappears, ServiceOnly
  <2>2. TypeOK'
    BY <1>2, <2>1, NoObjectType
    DEF Placed, TypeOK, Vanish, Disappears, Behind, NoFault, env, balancer
  <2>3. HandlersWellPlaced'
    BY <2>1 DEF Placed, HandlersWellPlaced
  <2>4. HeldOrLeaving'
    <3>1. pc = "deleteWait" => entry \in Ids
      BY EntryKnown DEF EntryPCs
    <3>2. pc = "import" => made \in Ids
      BY DEF Placed, TypeOK, HandlersWellPlaced
    <3> QED BY <2>1, <3>1, <3>2 DEF Placed, HeldOrLeaving, Exists, NoObject
  <2>5. NoServingOrphan'
    BY <2>1 DEF Placed, NoServingOrphan, Exists, NoObject
  <2> QED BY <2>2, <2>3, <2>4, <2>5 DEF Placed
<1> QED BY <1>1, <1>2 DEF Service

LEMMA InitPlaced == LBInit => Placed
<1> SUFFICES ASSUME LBInit PROVE Placed
  OBVIOUS
<1>1. TypeOK
  <2>1. Default \in [Keys -> Values \cup {Empty, Unset}]
    BY ConfigAssumption
  <2>2. 0 \in 0 .. MaxFaults /\ 0 \in 0 .. MaxEdits
    BY BoundsAssumption
  <2>3. cloud \in [Ids -> Balancer]
    BY NoObjectType DEF LBInit, Init
  <2> QED BY <2>1, <2>2, <2>3 DEF LBInit, Init, TypeOK, PCs, Stages
<1>2. HandlersWellPlaced /\ HeldOrLeaving /\ NoServingOrphan
  BY DEF LBInit, Init, HandlersWellPlaced, HeldOrLeaving, NoServingOrphan,
         Exists, NoObject, EntryPCs
<1> QED BY <1>1, <1>2 DEF Placed

LEMMA NextPlaced == Placed /\ [Next]_allVars => Placed'
<1> SUFFICES ASSUME Placed, [Next]_allVars PROVE Placed'
  OBVIOUS
<1>1. CASE UNCHANGED allVars
  <2>1. TypeOK'
    BY <1>1 DEF Placed, TypeOK, allVars, vars, balancer
  <2>2. HandlersWellPlaced' /\ HeldOrLeaving' /\ NoServingOrphan'
    BY <1>1 DEF Placed, HandlersWellPlaced, HeldOrLeaving, NoServingOrphan,
                Exists, allVars, vars
  <2> QED BY <2>1, <2>2 DEF Placed
<1>2. CASE Handler
  <2>1. CASE PollFails \/ PollSeesFailed
    BY <2>1, FailPlaced, SameCloud, SameBalancer DEF Placed, PollFails, PollSeesFailed
  <2> QED BY <1>2, <2>1, PlanPlaced, CreatePlaced, ReadPlaced, UpdatePlaced,
             DeletePlaced DEF Handler
<1>3. CASE Timeout \/ Stopped
  BY <1>3, FailPlaced, SameCloud, SameBalancer DEF Placed, Timeout, Stopped, Crash
<1>4. CASE User \/ Service
  BY <1>4, UserPlaced, ServicePlaced
<1> QED BY <1>1, <1>2, <1>3, <1>4 DEF Next

-----------------------------------------------------------------------------
(* What the record may claim.                                              *)

(* A plan is what the configuration and the record make it.                *)
LEMMA SamePlan ==
  ASSUME UNCHANGED <<config, known>>
  PROVE  /\ Planned' = Planned /\ Work' = Work
         /\ \A k : Configured(k)' = Configured(k) /\ Sent(k)' = Sent(k)
         /\ UNCHANGED tainted => (Replaces' <=> Replaces)
<1>1. \A k : Configured(k)' = Configured(k)
  BY DEF Configured, NoChecks
<1>2. HasDiff' <=> HasDiff
  BY <1>1 DEF HasDiff
<1>3. Planned' = Planned
  BY <1>1, <1>2 DEF Planned, NoChecks
<1>4. \A k : Differs(k)' <=> Differs(k)
  BY <1>3 DEF Differs
<1>5. ASSUME NEW c
      PROVE  /\ hasHealthCheckChanges(c)' <=> hasHealthCheckChanges(c)
             /\ hasBackendFieldChanges(c)' <=> hasBackendFieldChanges(c)
             /\ hasTargetChanges(c)' <=> hasTargetChanges(c)
  <2>1. hasHealthCheckChanges(c)' <=> hasHealthCheckChanges(c)
    BY <1>3, <1>4 DEF hasHealthCheckChanges
  <2>2. hasBackendFieldChanges(c)' <=> hasBackendFieldChanges(c)
    BY <1>3, <1>4 DEF hasBackendFieldChanges
  <2>3. hasTargetChanges(c)' <=> hasTargetChanges(c)
    BY <1>4 DEF hasTargetChanges
  <2> QED BY <2>1, <2>2, <2>3
<1>6. /\ NoChecks(Planned)' <=> NoChecks(Planned)
      /\ NoChecks(known)' <=> NoChecks(known)
  BY <1>3 DEF NoChecks
<1>7. Work' = Work
  <2>1. /\ {e \in {"lb"} : Differs(Name)}' = {e \in {"lb"} : Differs(Name)}
        /\ {e \in {"lb"} : Differs(Acl)}' = {e \in {"lb"} : Differs(Acl)}
        /\ {c \in Checks : /\ ~NoChecks(Planned) /\ ~NoChecks(known)
                           /\ hasHealthCheckChanges(c)}'
             = {c \in Checks : /\ ~NoChecks(Planned) /\ ~NoChecks(known)
                              /\ hasHealthCheckChanges(c)}
        /\ {b \in Backends : hasBackendFieldChanges(b)}'
             = {b \in Backends : hasBackendFieldChanges(b)}
        /\ {b \in Backends : hasTargetChanges(b)}' = {b \in Backends : hasTargetChanges(b)}
    BY <1>4, <1>5, <1>6 DEF Name, Acl
  <2> QED BY <2>1 DEF Work
<1>8. \A k : Sent(k)' = Sent(k)
  BY <1>3 DEF Sent
<1>9. UNCHANGED tainted => (Replaces' <=> Replaces)
  BY <1>3 DEF Replaces
<1> QED BY <1>1, <1>3, <1>7, <1>8, <1>9

(* What Read records of a balancer.                                        *)
LEMMA ReadOf ==
  ASSUME NEW attrs \in Attrs, NEW k \in Keys
  PROVE  LET r == ToTerraformNetworkResource(attrs)
         IN  /\ NoChecks(r) <=> NoChecks(attrs)
             /\ IF k = Cert \/ (k \in CheckKeys \cup {Members} /\ NoChecks(attrs))
                THEN r[k] = Unset ELSE r[k] = attrs[k] /\ r[k] # Unset
<1> DEFINE r == ToTerraformNetworkResource(attrs)
<1>1. attrs[k] # Unset /\ attrs[Members] # Unset /\ Members \in Keys /\ Members # Cert
  BY MarksAssumption DEF Attrs, Keys, Members, Cert
<1>2. IF k = Cert \/ (k \in CheckKeys \cup {Members} /\ NoChecks(attrs))
      THEN r[k] = Unset ELSE r[k] = attrs[k] /\ r[k] # Unset
  BY <1>1 DEF ToTerraformNetworkResource
<1>3. r[Members] = IF NoChecks(attrs) THEN Unset ELSE attrs[Members]
  BY <1>1 DEF ToTerraformNetworkResource
<1>4. NoChecks(r) <=> NoChecks(attrs)
  BY <1>1, <1>3 DEF NoChecks
<1> QED BY <1>2, <1>4

(* What is done was for an element that differs.                           *)
LEMMA DoneCases ==
  ASSUME stage \in Stages, sent \subseteq Work[stage], NEW k, Done(k)
  PROVE  /\ \E s \in Stages : \E e \in Work[s] : k \in Carried(s, e)
         /\ k \in Keys /\ k \notin {Fixed, Members, Cert}
<1>1. Earlier[stage] \subseteq Stages
  BY DEF Earlier, Stages
<1>2. PICK s \in Stages : \E e \in Work[s] : k \in Carried(s, e)
  BY <1>1 DEF Done
<1> QED BY <1>2, CarriedOnce

LEMMA LastStageDone ==
  ASSUME stage = "target", NEW s \in Stages, NEW e \in Work[s], NEW k \in Carried(s, e),
         s = "target" => e \in sent
  PROVE  Done(k)
<1>1. s # "target" => s \in Earlier[stage]
  BY DEF Earlier, Stages
<1> QED BY <1>1 DEF Done

LEMMA SameDone ==
  ASSUME UNCHANGED <<config, known, stage, sent>>, NEW k PROVE Done(k)' <=> Done(k)
BY SamePlan DEF Done, Earlier

(* A null is sent only for ACLs.                                           *)
LEMMA NullsSent ==
  ASSUME TypeOK, WasRead, NEW s \in Stages, NEW e \in Work[s], NEW k \in Carried(s, e),
         Planned[k] = Unset
  PROVE  k = Acl /\ config.attrs[Acl] = Unset
<1>1. k \in Keys /\ k \notin {Fixed, Members, Cert}
  BY CarriedOnce
<1>2. config.attrs \in Configs
  BY DEF TypeOK
<1>3. CASE s = "acl"
  <2>1. k = Acl /\ Acl \notin ComputedKeys /\ Acl \notin CheckKeys
    BY <1>3, CarriedCases, NamesAssumption DEF Acl, ComputedKeys, CheckKeys
  <2> QED BY <1>1, <2>1, PlannedType DEF Configured
<1>4. CASE s \in {"name", "target"}
  <2>1. k \notin ComputedKeys /\ k \notin CheckKeys /\ k \notin OptionalKeys
    BY <1>4, CarriedCases, WorkIsIn, NamesAssumption
    DEF Name, Acl, Members, ComputedKeys, CheckKeys, OptionalKeys
  <2>2. config.attrs[k] # Unset
    BY <1>1, <1>2, <2>1, ConfigAssumption
  <2> QED BY <1>1, <2>1, <2>2, PlannedType DEF Configured
<1>5. CASE s = "field"
  <2>1. k \notin CheckKeys /\ k # Members /\ known[k] # Unset
    <3>1. k \notin CheckKeys /\ k # Members
      BY <1>5, CarriedCases, WorkIsIn, NamesAssumption DEF Members, CheckKeys
    <3> QED BY <1>1, <3>1 DEF WasRead
  <2>2. Planned[k] \in {known[k], Unknown} \/ Planned[k] = Configured(k)
    BY <1>1 DEF Planned
  <2>3. k \in ComputedKeys
    BY <1>1, <1>5, CarriedCases DEF ComputedKeys
  <2>4. Configured(k) = Unset => Planned[k] \in {known[k], Unknown}
    BY <1>1, <2>1, <2>3 DEF Planned
  <2> QED BY <1>1, <2>1, <2>2, <2>4, MarksAssumption
<1>6. CASE s = "check"
  <2>1. ~NoChecks(Planned) /\ ~NoChecks(known)
    BY <1>6 DEF Work
  <2>2. ~NoChecks(config.attrs)
    <3>1. Members \in Keys /\ Members \notin ComputedKeys /\ Members # Cert
          /\ Members \notin CheckKeys
      BY NamesAssumption DEF Members, Keys, ComputedKeys, Cert, CheckKeys
    <3> QED BY <2>1, <3>1, PlannedType DEF NoChecks, Configured
  <2>3. known[k] # Unset
    BY <1>1, <2>1 DEF WasRead
  <2>4. Configured(k) = config.attrs[k]
    BY <1>1, <2>2 DEF Configured
  <2>5. Configured(k) = Unset => k \in ComputedKeys
    <3>1. k \notin OptionalKeys
      BY <1>6, CarriedCases, WorkIsIn, NamesAssumption DEF Members, Acl, OptionalKeys
    <3> QED BY <1>1, <1>2, <2>2, <2>4, <3>1, ConfigAssumption
  <2>6. Configured(k) = Unset => Planned[k] \in {known[k], Unknown}
    BY <1>1, <2>2, <2>5 DEF Planned
  <2>7. Configured(k) # Unset => Planned[k] = Configured(k)
    BY <1>1 DEF Planned
  <2> QED BY <2>3, <2>6, <2>7, MarksAssumption
<1> QED BY <1>3, <1>4, <1>5, <1>6 DEF Stages

(* What an update leaves behind.  The assumptions of the next three lemmas *)
(* are what the invariant says of its last stage.                          *)
LEMMA DoneAttrs ==
  ASSUME Placed, entry \in Ids, Steady(entry), GoalAsSent, WasRead,
         sent \subseteq Work[stage], NEW k \in Keys
  PROVE  /\ Done(k) =>
              /\ k \notin {Fixed, Members, Cert}
              /\ Planned[k] # Unset => cloud[entry].attrs[k] = Planned[k]
              /\ Planned[k] = Unset => /\ k = Acl /\ config.attrs[Acl] = Unset
                                       /\ cloud[entry].attrs[k] = Empty
         /\ ~Done(k) => known[k] = ToTerraformNetworkResource(cloud[entry].attrs)[k]
         /\ NoChecks(known) <=> NoChecks(cloud[entry].attrs)
<1>1. cloud[entry].attrs = cloud[entry].goal /\ cloud[entry].attrs \in Attrs
      /\ stage \in Stages /\ TypeOK
  BY DEF Placed, TypeOK, Steady, Balancer
<1>2. ASSUME Done(k)
      PROVE  /\ k \notin {Fixed, Members, Cert}
             /\ Planned[k] # Unset => cloud[entry].attrs[k] = Planned[k]
             /\ Planned[k] = Unset => /\ k = Acl /\ config.attrs[Acl] = Unset
                                      /\ cloud[entry].attrs[k] = Empty
  <2>1. k \notin {Fixed, Members, Cert}
    BY <1>1, <1>2, DoneCases
  <2>2. cloud[entry].attrs[k] = Sent(k)
    BY <1>1, <1>2 DEF GoalAsSent
  <2>3. Planned[k] = Unset => k = Acl /\ config.attrs[Acl] = Unset
    BY <1>1, <1>2, DoneCases, NullsSent
  <2> QED BY <2>1, <2>2, <2>3 DEF Sent
<1>3. ASSUME ~Done(k)
      PROVE  known[k] = ToTerraformNetworkResource(cloud[entry].attrs)[k]
  BY <1>1, <1>3 DEF GoalAsSent
<1>4. NoChecks(known) <=> NoChecks(cloud[entry].attrs)
  <2>1. Members \in Keys /\ ~Done(Members)
    BY <1>1, DoneCases DEF Keys
  <2>2. known[Members] = ToTerraformNetworkResource(cloud[entry].attrs)[Members]
    BY <1>1, <2>1 DEF GoalAsSent
  <2> QED BY <1>1, <2>1, <2>2, ReadOf DEF NoChecks
<1> QED BY <1>2, <1>3, <1>4

(* Where nothing was sent, nothing differs, if the copies are consistent.  *)
LEMMA NotDone ==
  ASSUME TypeOK, stage = "target", Work.target \subseteq sent, ~Replaces, ~Inconsistent,
         NEW k \in Keys, ~Done(k), Copied(k), k # Cert
  PROVE  Planned[k] = known[k]
<1>1. Work = [name |-> Work.name, acl |-> Work.acl, check |-> Work.check,
              field |-> Work.field, target |-> Work.target]
  BY DEF Work
<1>2. ASSUME NEW s \in Stages, NEW e \in Work[s] PROVE k \notin Carried(s, e)
  <2>1. s = "target" => e \in sent
    BY <1>1, <1>2
  <2> QED BY <1>2, <2>1, LastStageDone
<1>3. Planned[k] # Unknown
  BY DEF Inconsistent
<1>4. CASE k = Fixed
  BY <1>4 DEF Replaces
<1>5. CASE k = Members
  <2>1. Planned[Members] # Unset
    BY <1>5, NamesAssumption DEF Copied, NoChecks, Members
  <2> QED BY <1>5, <2>1 DEF Replaces
<1>6. CASE k \in {Name, Acl}
  <2>1. CASE k = Name /\ Differs(Name)
    BY <1>2, <2>1 DEF Work, Carried, Stages
  <2>2. CASE k = Acl /\ Differs(Acl)
    BY <1>2, <2>2 DEF Work, Carried, Stages
  <2> QED BY <1>6, <2>1, <2>2 DEF Differs
<1>7. ASSUME NEW c \in Checks, k \in {<<c, "probe">>, <<c, "timing">>}
      PROVE  Planned[k] = known[k]
  <2>1. {<<c, "probe">>, <<c, "timing">>} \subseteq Keys \cap CheckKeys
    BY DEF Keys, CheckKeys
  <2>2. ~NoChecks(Planned) /\ ~NoChecks(known)
    BY <1>7, <2>1, NamesAssumption DEF Copied
  <2>3. Planned[<<c, "probe">>] # Unknown /\ Planned[<<c, "timing">>] # Unknown
    <3>1. Copied(<<c, "probe">>) /\ Copied(<<c, "timing">>)
      BY <2>1, <2>2, NamesAssumption DEF Copied
    <3> QED BY <2>1, <3>1 DEF Inconsistent
  <2>4. c \notin Work.check
    <3>1. c \in Work["check"] => k \notin Carried("check", c)
      BY <1>2 DEF Stages
    <3> QED BY <1>1, <1>7, <3>1 DEF Carried
  <2>5. ~hasHealthCheckChanges(c)
    BY <2>2, <2>4 DEF Work
  <2> QED BY <1>7, <2>3, <2>5 DEF hasHealthCheckChanges, Differs
<1>8. ASSUME NEW b \in Backends, k \in {<<b, "close">>, <<b, "panic">>}
      PROVE  FALSE
  <2>1. b \in Work.field
    BY <1>8 DEF Copied
  <2>2. b \in Work["field"] => k \notin Carried("field", b)
    BY <1>2 DEF Stages
  <2> QED BY <1>1, <1>8, <2>1, <2>2 DEF Carried
<1>9. ASSUME NEW b \in Backends, k = <<b, "targets">>
      PROVE  Planned[k] = known[k]
  <2>1. b \in Work["target"] => k \notin Carried("target", b)
    BY <1>2 DEF Stages
  <2>2. b \notin Work.target
    BY <1>1, <1>9, <2>1 DEF Carried
  <2> QED BY <1>9, <2>2 DEF Work, hasTargetChanges, Differs
<1> QED BY <1>4, <1>5, <1>6, <1>7, <1>8, <1>9, KeyCases

(* What Commit records is what the balancer has.                           *)
LEMMA CommitKey ==
  ASSUME Placed, entry \in Ids, Steady(entry), GoalAsSent, WasRead,
         sent \subseteq Work[stage], stage = "target", Work.target \subseteq sent,
         ~Replaces, ~Inconsistent, NEW k \in Keys
  PROVE  \/ UpdateRecord[k] = ToTerraformNetworkResource(cloud[entry].attrs)[k]
         \/ k = Acl /\ UpdateRecord[k] = Unset /\ cloud[entry].attrs[k] = Empty
<1> DEFINE a == cloud[entry].attrs
<1> DEFINE r == ToTerraformNetworkResource(a)
<1>1. a \in Attrs /\ TypeOK /\ stage \in Stages
  BY DEF Placed, TypeOK, Balancer
<1>2. UpdateRecord[k] = IF Copied(k) /\ Planned[k] # Unknown THEN Planned[k]
                        ELSE IF Copied(k) THEN Unset ELSE known[k]
  BY DEF UpdateRecord
<1>3. Copied(k) => Planned[k] # Unknown
  BY DEF Inconsistent
<1>4. CASE ~Done(k)
  <2>1. known[k] = r[k]
    BY <1>4, DoneAttrs
  <2>2. CASE k = Cert
    <3>1. r[k] = Unset
      BY <1>1, <2>2, ReadOf
    <3>2. Planned[k] = Unset
      BY <1>1, <2>2, PlannedType DEF Configured, Cert, ComputedKeys
    <3> QED BY <1>2, <1>3, <2>1, <3>1, <3>2
  <2>3. CASE k # Cert
    BY <1>1, <1>2, <1>3, <1>4, <2>1, <2>3, NotDone
  <2> QED BY <2>2, <2>3
<1>5. CASE Done(k)
  <2>1. PICK s \in Stages : \E e \in Work[s] : k \in Carried(s, e)
    BY <1>1, <1>5, DoneCases
  <2>2. PICK e \in Work[s] : k \in Carried(s, e)
    BY <2>1
  <2>3. /\ k \in CheckKeys => s = "check"
        /\ s = "check" => k \in CheckKeys /\ ~NoChecks(Planned) /\ ~NoChecks(known)
    BY <2>2, CarriedCases, WorkIsIn, NamesAssumption
    DEF Work, CheckKeys, Name, Acl, Stages
  <2>4. k \notin {Fixed, Members, Cert} /\ (k \in CheckKeys => ~NoChecks(a))
    BY <1>5, <2>3, DoneAttrs
  <2>5. Copied(k)
    <3>1. CASE s = "field"
      <4>1. k[1] \in Work.field /\ k[1] \in Backends /\ k[2] # "targets"
        <5>1. e \in Work.field /\ k[1] = e
          BY <2>2, <3>1, CarriedCases
        <5> QED BY <2>2, <3>1, <5>1, CarriedCases, WorkIsIn
      <4> QED BY <4>1 DEF Copied
    <3>2. CASE s # "field"
      <4>1. ~(k[1] \in Backends /\ k[2] # "targets")
        BY <2>2, <3>2, CarriedCases, WorkIsIn, NamesAssumption DEF Name, Acl, Stages
      <4> QED BY <2>3, <2>4, <4>1 DEF Copied
    <3> QED BY <3>1, <3>2
  <2>6. r[k] = a[k]
    BY <1>1, <2>4, ReadOf
  <2> QED BY <1>2, <1>3, <1>5, <2>5, <2>6, DoneAttrs
<1> QED BY <1>4, <1>5

-----------------------------------------------------------------------------
(* The steps and the record.                                               *)

(* A step that ends a run with an error, or goes where nothing is claimed. *)
LEMMA QuietRecorded ==
  ASSUME settled' = FALSE, pc' \notin {"createWait", "update", "updateWait"},
         pc' = "plan" => entry' = NoId
  PROVE  Recorded'
BY DEF Recorded, SettledIdle, RefreshedAgrees, UpdatesInOrder, RecordAgrees,
       SuccessMeansConfigured

LEMMA FailRecorded ==
  ASSUME Inv, pc # "idle", pc' = "idle", UNCHANGED settled PROVE Recorded'
BY QuietRecorded DEF Inv, Recorded, SettledIdle, Placed, TypeOK

LEMMA PlanRecorded ==
  ASSUME Inv, PlanNothing \/ PlanCreate \/ PlanUpdate \/ PlanDelete
  PROVE  Recorded'
<1>1. CASE PlanCreate \/ PlanDelete
  BY <1>1, QuietRecorded DEF PlanCreate, PlanDelete, CreatePlanned, DeletePlanned, Goto
<1>2. CASE PlanNothing
  <2>1. /\ UNCHANGED <<cloud, entry, known, stale, config>> /\ pc' = "idle" /\ pc = "plan"
        /\ settled' = ~stale
        /\ IF entry = NoId THEN ~config.want ELSE config.want /\ Planned = known
    BY <1>2 DEF PlanNothing, NothingPlanned, env
  <2>2. stale = FALSE \/ stale = TRUE
    BY DEF Inv, Placed, TypeOK
  <2>3. CASE stale
    BY <2>1, <2>3, QuietRecorded
  <2>4. CASE ~stale /\ entry = NoId
    BY <2>1, <2>4 DEF Recorded, SettledIdle, RefreshedAgrees, UpdatesInOrder,
                      RecordAgrees, SuccessMeansConfigured
  <2>5. CASE ~stale /\ entry # NoId
    <3>1. /\ Steady(entry) /\ known = ToTerraformNetworkResource(cloud[entry].attrs)
          /\ cloud[entry].attrs \in Attrs
      BY <2>1, <2>5 DEF Inv, Placed, TypeOK, Recorded, RefreshedAgrees, Balancer
    <3>2. ASSUME NEW k \in Keys \ {Cert}
          PROVE  Configured(k) \in {Unset, cloud[entry].attrs[k]}
      <4>1. SUFFICES ASSUME Configured(k) # Unset PROVE Configured(k) = cloud[entry].attrs[k]
        OBVIOUS
      <4>2. known[k] = Configured(k)
        BY <2>1, <2>5, <4>1 DEF Planned
      <4> QED BY <3>1, <4>1, <4>2, ReadOf
    <3>3. \A k : Configured(k)' = Configured(k)
      BY <2>1, SamePlan
    <3>4. Steady(entry)'
      BY <2>1, <3>1 DEF Steady
    <3>5. RecordAgrees'
      BY <2>1, <3>1 DEF RecordAgrees
    <3>6. SuccessMeansConfigured'
      BY <2>1, <2>5, <3>2, <3>3 DEF SuccessMeansConfigured
    <3> QED BY <2>1, <2>5, <3>4, <3>5, <3>6
            DEF Recorded, SettledIdle, RefreshedAgrees, UpdatesInOrder
  <2> QED BY <2>2, <2>3, <2>4, <2>5
<1>3. CASE PlanUpdate
  <2>1. /\ pc = "plan" /\ entry # NoId /\ config.want /\ ~Replaces
        /\ pc' = "update" /\ settled' = FALSE /\ stage' = "name" /\ sent' = {}
        /\ UNCHANGED <<cloud, entry, known, config, stale, tainted>>
    BY <1>3 DEF PlanUpdate, UpdatePlanned, Goto, env
  <2>2. ~Replaces'
    BY <2>1, SamePlan
  <2>3. ASSUME ~stale PROVE WasRead' /\ Steady(entry)' /\ GoalAsSent'
    <3>1. /\ Steady(entry) /\ known = ToTerraformNetworkResource(cloud[entry].attrs)
          /\ cloud[entry].attrs \in Attrs
      BY <2>1, <2>3 DEF Inv, Placed, TypeOK, Recorded, RefreshedAgrees, Balancer
    <3>2. WasRead
      BY <3>1, ReadOf DEF WasRead
    <3>3. WasRead'
      BY <2>1, <3>2 DEF WasRead, NoChecks
    <3>4. Steady(entry)'
      BY <2>1, <3>1 DEF Steady
    <3>5. \A k : ~Done(k)'
      BY <2>1 DEF Done, Earlier
    <3>6. \A k \in Keys : known'[k] = ToTerraformNetworkResource(cloud'[entry'].goal)[k]
      BY <2>1, <3>1 DEF Steady
    <3> QED BY <3>3, <3>4, <3>5, <3>6 DEF GoalAsSent
  <2>4. UpdatesInOrder'
    BY <2>1, <2>2, <2>3 DEF UpdatesInOrder
  <2> QED BY <2>1, <2>4 DEF Recorded, SettledIdle, RefreshedAgrees, RecordAgrees,
                            SuccessMeansConfigured
<1> QED BY <1>1, <1>2, <1>3

LEMMA CreateRecorded ==
  ASSUME Inv, CreateRejected \/ CreateDone \/ \E i \in Ids :
                CreateAccepted(i) \/ CreateReplyLost(i)
  PROVE  Recorded'
<1>1. CASE CreateRejected
  BY <1>1, FailRecorded DEF CreateRejected, Fail
<1>2. ASSUME NEW i \in Ids, CreateReplyLost(i) PROVE Recorded'
  BY <1>2, FailRecorded DEF CreateReplyLost, MayCreate
<1>3. ASSUME NEW i \in Ids, CreateAccepted(i) PROVE Recorded'
  <2>1. /\ cloud' = [cloud EXCEPT ![i] = NewBalancer] /\ DOMAIN cloud = Ids
        /\ made' = i /\ pc' = "createWait" /\ settled' = FALSE
    BY <1>3 DEF CreateAccepted, MayCreate, Inv, Placed, Recorded, SettledIdle, TypeOK
  <2>2. NewBalancer.attrs = NewBalancer.goal
    BY DEF NewBalancer
  <2>3. Steady(made)'
    BY <2>1, <2>2 DEF Steady
  <2> QED BY <2>1, <2>3 DEF Recorded, SettledIdle, RefreshedAgrees, UpdatesInOrder,
                            RecordAgrees, SuccessMeansConfigured
<1>4. CASE CreateDone
  <2>1. /\ pc = "createWait" /\ entry' = made /\ pc' = "idle"
        /\ known' = ToTerraformNetworkResource(cloud[made].attrs)
        /\ settled' = (~stale /\ ~tainted') /\ UNCHANGED <<cloud, stale, config>>
        /\ made \in Ids /\ cloud[made].attrs \in Attrs
    BY <1>4 DEF CreateDone, env, Inv, Placed, TypeOK, HandlersWellPlaced, Balancer
  <2>2. SettledIdle' /\ UpdatesInOrder'
    BY <2>1 DEF SettledIdle, UpdatesInOrder
  <2>3. RefreshedAgrees'
    BY <2>1 DEF Inv, Recorded, RefreshedAgrees, Steady
  <2>4. RecordAgrees'
    BY <2>1 DEF RecordAgrees
  <2>5. SuccessMeansConfigured'
    <3> SUFFICES ASSUME settled', NEW k \in Keys \ {Cert}, Configured(k) # Unset
                 PROVE  Configured(k) = cloud[made].attrs[k]
      BY <2>1, IdsAssumption DEF SuccessMeansConfigured, Configured, NoChecks
    <3>1. known'[k] = Configured(k)
      BY <1>4, <2>1 DEF CreateDone
    <3> QED BY <2>1, <3>1, ReadOf
  <2> QED BY <2>2, <2>3, <2>4, <2>5 DEF Recorded
<1> QED BY <1>1, <1>2, <1>3, <1>4

LEMMA ReadRecorded ==
  ASSUME Inv, ReadOk \/ ReadFails \/ ImportOk \/ ImportFails
  PROVE  Recorded'
<1>1. CASE ReadOk
  <2>1. /\ pc = "read" /\ pc' = "plan" /\ UNCHANGED <<cloud, entry, settled>>
        /\ known' = ToTerraformNetworkResource(cloud[entry].attrs)
        /\ stale' = MidChange(entry)
    BY <1>1 DEF ReadOk
  <2>2. settled' = FALSE
    BY <2>1 DEF Inv, Placed, TypeOK, Recorded, SettledIdle
  <2>3. ~stale' => Steady(entry)'
    BY <2>1 DEF Steady, MidChange
  <2> QED BY <2>1, <2>2, <2>3 DEF Recorded, SettledIdle, RefreshedAgrees, UpdatesInOrder,
                                  RecordAgrees, SuccessMeansConfigured
<1>2. CASE ReadFails \/ ImportOk \/ ImportFails
  BY <1>2, FailRecorded DEF ReadFails, ImportOk, ImportFails, Fail
<1> QED BY <1>1, <1>2

(* One more element of the stage is done.                                  *)
LEMMA SendGoal ==
  ASSUME Placed, pc = "update", sent \subseteq Work[stage], GoalAsSent,
         Request, UNCHANGED <<config, known, entry, stage>>
  PROVE  sent' \subseteq Work[stage] /\ GoalAsSent'
<1>1. PICK e \in Work[stage] \ sent :
      /\ cloud' = [cloud EXCEPT
                     ![entry].status = "BUSY",
                     ![entry].goal = [k \in Keys |->
                        IF k \in Carried(stage, e) THEN Sent(k)
                        ELSE cloud[entry].goal[k]]]
      /\ sent' = sent \cup {e}
  BY DEF Request
<1> DEFINE g == [k \in Keys |-> IF k \in Carried(stage, e) THEN Sent(k)
                                ELSE cloud[entry].goal[k]]
<1>2. /\ cloud[entry].goal \in Attrs /\ cloud[entry] \in Balancer /\ DOMAIN cloud = Ids
      /\ entry \in Ids /\ stage \in Stages /\ TypeOK
  BY EntryKnown DEF Placed, TypeOK, Balancer, EntryPCs
<1>3. cloud'[entry].goal = g
  <2> HIDE DEF g
  <2>1. cloud' = [cloud EXCEPT ![entry].status = "BUSY", ![entry].goal = g]
    BY <1>1 DEF g
  <2> QED BY <1>2, <2>1 DEF Balancer
<1>4. ASSUME NEW k PROVE Done(k)' <=> (Done(k) \/ k \in Carried(stage, e))
  BY <1>1, SamePlan DEF Done, Earlier
<1>5. \A k : Sent(k)' = Sent(k)
  BY SamePlan
<1>6. ASSUME NEW k \in Keys
      PROVE  IF Done(k)' THEN cloud'[entry].goal[k] = Sent(k)
             ELSE known[k] = ToTerraformNetworkResource(cloud'[entry].goal)[k]
  <2>1. CASE k \in Carried(stage, e)
    BY <1>3, <1>4, <2>1
  <2>2. CASE k \notin Carried(stage, e)
    <3>1. g[k] = cloud[entry].goal[k]
      BY <2>2
    <3>2. NoChecks(g) <=> NoChecks(cloud[entry].goal)
      <4>1. Members \in Keys /\ Members \notin Carried(stage, e)
        BY <1>1, <1>2, CarriedOnce DEF Keys
      <4> QED BY <4>1 DEF NoChecks
    <3>3. ToTerraformNetworkResource(g)[k] = ToTerraformNetworkResource(cloud[entry].goal)[k]
      BY <3>1, <3>2 DEF ToTerraformNetworkResource
    <3> HIDE DEF g
    <3> QED BY <1>3, <1>4, <2>2, <3>1, <3>3 DEF GoalAsSent
  <2> QED BY <2>1, <2>2
<1>7. GoalAsSent'
  BY <1>5, <1>6 DEF GoalAsSent
<1> QED BY <1>1, <1>7

LEMMA UpdateRecorded ==
  ASSUME Inv, \/ Send \/ SendReplyLost \/ SendRejected
              \/ SendDone \/ StageDone \/ Commit
  PROVE  Recorded'
<1>1. CASE SendReplyLost \/ SendRejected
  BY <1>1, FailRecorded DEF SendReplyLost, SendRejected, Fail
<1>2. CASE Send
  <2>1. /\ pc = "update" /\ pc' = "updateWait" /\ settled' = FALSE
        /\ UNCHANGED <<entry, known, config, stale, stage, tainted>> /\ Request
    BY <1>2 DEF Send, Goto, env
  <2>2. /\ sent \subseteq Work[stage] /\ ~Replaces /\ config.want
        /\ ~stale => WasRead /\ Steady(entry) /\ GoalAsSent
    BY <2>1 DEF Inv, Recorded, UpdatesInOrder
  <2>3. sent' \subseteq Work[stage]
    BY <2>1, <2>2, WorkIsIn DEF Request
  <2>4. ~stale => GoalAsSent'
    BY <2>1, <2>2, SendGoal DEF Inv
  <2>5. ~stale => WasRead'
    BY <2>1, <2>2 DEF WasRead, NoChecks
  <2>6. cloud'[entry].status = "BUSY"
    <3>1. entry \in Ids /\ cloud[entry] \in Balancer /\ DOMAIN cloud = Ids
      BY <2>1, EntryKnown DEF Inv, Placed, TypeOK, EntryPCs
    <3>2. PICK st, g : st = "BUSY" /\
            cloud' = [cloud EXCEPT ![entry].status = st, ![entry].goal = g]
      BY <2>1 DEF Request
    <3> QED BY <3>1, <3>2 DEF Balancer
  <2>7. Work' = Work /\ ~Replaces'
    BY <2>1, <2>2, SamePlan
  <2>8. UpdatesInOrder'
    BY <2>1, <2>2, <2>3, <2>4, <2>5, <2>6, <2>7 DEF UpdatesInOrder
  <2> QED BY <2>1, <2>8 DEF Recorded, SettledIdle, RefreshedAgrees, RecordAgrees,
                            SuccessMeansConfigured
<1>3. CASE SendDone \/ StageDone
  <2>1. /\ pc' = "update" /\ settled' = FALSE
        /\ UNCHANGED <<cloud, entry, known, config, stale, tainted>>
    BY <1>3 DEF SendDone, StageDone, Goto, env, balancer
  <2>2. /\ sent \subseteq Work[stage] /\ ~Replaces /\ config.want
        /\ ~stale => WasRead /\ Steady(entry) /\ GoalAsSent
    BY <1>3 DEF SendDone, StageDone, Inv, Recorded, UpdatesInOrder
  <2>3. Work' = Work /\ ~Replaces'
    BY <2>1, <2>2, SamePlan
  <2>4. sent' \subseteq Work[stage'] /\ \A k : Done(k)' <=> Done(k)
    <3>1. CASE SendDone
      BY <2>1, <2>2, <3>1, SameDone DEF SendDone, balancer
    <3>2. CASE StageDone
      <4>1. Work[stage] = sent /\ sent' = {} /\ stage' = NextStage[stage]
            /\ stage \in Stages \ {"target"}
        BY <2>2, <3>2 DEF StageDone, Inv, Placed, TypeOK
      <4>2. Earlier[stage'] = Earlier[stage] \cup {stage}
        BY <4>1 DEF Earlier, NextStage, Stages
      <4>3. \A k : Done(k)' <=>
                     \E s \in Earlier[stage'] : \E e \in Work[s] : k \in Carried(s, e)
        BY <2>3, <4>1 DEF Done, Earlier, Carried
      <4>4. \A k : Done(k) <=>
                     \E s \in Earlier[stage] \cup {stage} : \E e \in Work[s] : k \in Carried(s, e)
        BY <4>1 DEF Done
      <4> QED BY <4>1, <4>2, <4>3, <4>4
    <3> QED BY <1>3, <3>1, <3>2
  <2>5. ~stale => WasRead' /\ Steady(entry)' /\ GoalAsSent'
    <3>1. \A k : Sent(k)' = Sent(k)
      BY <2>1, SamePlan
    <3>2. ~stale => WasRead' /\ Steady(entry)'
      BY <2>1, <2>2 DEF WasRead, NoChecks, Steady
    <3>3. ~stale => GoalAsSent'
      BY <2>1, <2>2, <2>4, <3>1 DEF GoalAsSent
    <3> QED BY <3>2, <3>3
  <2>6. UpdatesInOrder'
    BY <2>1, <2>2, <2>3, <2>4, <2>5 DEF UpdatesInOrder
  <2> QED BY <2>1, <2>6 DEF Recorded, SettledIdle, RefreshedAgrees, RecordAgrees,
                            SuccessMeansConfigured
<1>4. CASE Commit
  <2>1. /\ pc = "update" /\ stage = "target" /\ Work.target \subseteq sent
        /\ pc' = "idle" /\ known' = UpdateRecord /\ settled' = (~stale /\ ~Inconsistent)
        /\ UNCHANGED <<cloud, entry, stale, config>>
    BY <1>4 DEF Commit, env
  <2>2. /\ sent \subseteq Work[stage] /\ ~Replaces
        /\ ~stale => WasRead /\ Steady(entry) /\ GoalAsSent
    BY <2>1 DEF Inv, Recorded, UpdatesInOrder
  <2>3. entry \in Ids /\ entry # NoId /\ cloud[entry].attrs \in Attrs
    BY <2>1, EntryKnown DEF Inv, Placed, TypeOK, Balancer, EntryPCs
  <2>4. ASSUME settled', NEW k \in Keys
        PROVE  \/ UpdateRecord[k] = ToTerraformNetworkResource(cloud[entry].attrs)[k]
               \/ k = Acl /\ UpdateRecord[k] = Unset /\ cloud[entry].attrs[k] = Empty
    BY <2>1, <2>2, <2>3, <2>4, CommitKey DEF Inv
  <2>5. SettledIdle' /\ UpdatesInOrder'
    BY <2>1 DEF SettledIdle, UpdatesInOrder
  <2>6. RefreshedAgrees'
    BY <2>1, <2>2 DEF RefreshedAgrees, Steady
  <2>7. RecordAgrees'
    BY <2>1, <2>4 DEF RecordAgrees
  <2>8. SuccessMeansConfigured'
    <3> SUFFICES ASSUME settled', NEW k \in Keys \ {Cert}, Configured(k) # Unset
                 PROVE  Configured(k) = cloud[entry].attrs[k]
      BY <2>1, <2>3 DEF SuccessMeansConfigured, Configured, NoChecks
    <3>1. Planned[k] = Configured(k) /\ Planned[k] # Unknown
      BY PlannedType, MarksAssumption DEF Planned, Inv, Placed
    <3>2. UpdateRecord[k] = Planned[k]
      BY <2>1, <3>1 DEF Inconsistent
    <3> QED BY <2>3, <2>4, <3>1, <3>2, ReadOf
  <2> QED BY <2>5, <2>6, <2>7, <2>8 DEF Recorded
<1> QED BY <1>1, <1>2, <1>3, <1>4

LEMMA DeleteRecorded ==
  ASSUME Inv, \/ DeleteRejected \/ DeleteAccepted
              \/ DeleteDone \/ DeletePollHTTPError
  PROVE  Recorded'
<1>1. CASE DeleteRejected \/ DeleteAccepted
  <2>1. CASE pc' = "idle"
    BY <1>1, <2>1, FailRecorded DEF DeleteRejected, DeleteAccepted, Fail, Goto
  <2>2. CASE pc' = "deleteWait"
    BY <1>1, <2>2, QuietRecorded DEF DeleteRejected, DeleteAccepted, Fail, Goto
  <2> QED BY <1>1, <2>1, <2>2 DEF DeleteRejected, DeleteAccepted, Fail, Goto
<1>2. CASE DeleteDone \/ DeletePollHTTPError
  <2>1. /\ entry' = NoId /\ stale' = FALSE /\ settled' = ~config.want /\ UNCHANGED config
        /\ pc' = IF config.want THEN "create" ELSE "idle"
    BY <1>2 DEF DeleteDone, DeletePollHTTPError, Deleted, env
  <2>2. CASE config.want
    BY <2>1, <2>2, QuietRecorded
  <2>3. CASE ~config.want
    BY <2>1, <2>3 DEF Recorded, SettledIdle, RefreshedAgrees, UpdatesInOrder,
                      RecordAgrees, SuccessMeansConfigured
  <2> QED BY <2>2, <2>3
<1> QED BY <1>1, <1>2

LEMMA UserRecorded == ASSUME Inv, User PROVE Recorded'
<1>1. CASE EditConfig
  BY <1>1, QuietRecorded DEF EditConfig
<1>2. CASE StartRun
  BY <1>2, QuietRecorded DEF StartRun, Goto
<1>3. ASSUME NEW i \in Ids, StartImport(i) PROVE Recorded'
  BY <1>3, QuietRecorded DEF StartImport
<1> QED BY <1>1, <1>2, <1>3 DEF User

(* What the service does to an object that the provider need not know of:  *)
(* nothing, the completion of a change, its failure, the end of a deletion.*)
Calm(j) ==
  \/ cloud'[j] = cloud[j]
  \/ /\ cloud[j].status = "BUSY" /\ cloud'[j].status = "RUNNING"
     /\ cloud'[j].attrs = cloud[j].goal /\ cloud'[j].goal = cloud[j].goal
  \/ /\ cloud'[j].status = "FAILED"
     /\ cloud'[j].attrs = cloud[j].attrs /\ cloud'[j].goal = cloud[j].attrs
  \/ /\ cloud'[j].status = "DELETED"
     /\ cloud'[j].attrs = cloud[j].attrs /\ cloud'[j].goal = cloud[j].goal

LEMMA CalmSteady ==
  ASSUME NEW j, Calm(j), Steady(j)
  PROVE  /\ cloud'[j].attrs = cloud[j].attrs /\ cloud'[j].goal = cloud[j].goal
         /\ cloud'[j].attrs = cloud'[j].goal
BY DEF Calm, Steady

LEMMA CalmRecorded ==
  ASSUME Inv, UNCHANGED <<entry, known, pc, made, env, balancer>>,
         stale => stale', stale' \in BOOLEAN, settled' \in BOOLEAN,
         settled' => settled /\ ~stale',
         \A j \in {entry, made} \cap Ids : stale' \/ Calm(j)
  PROVE  Recorded'
<1>1. entry # NoId => entry \in Ids
  BY DEF Inv, Placed, TypeOK
<1>2. SettledIdle'
  BY DEF Inv, Recorded, SettledIdle
<1>3. RefreshedAgrees'
  <2>1. ASSUME pc = "createWait", ~stale' PROVE Steady(made)'
    <3>1. Steady(made) /\ made \in Ids
      BY <2>1 DEF Inv, Placed, TypeOK, HandlersWellPlaced, Recorded, RefreshedAgrees
    <3> QED BY <2>1, <3>1, CalmSteady DEF Steady
  <2>2. ASSUME pc = "plan", entry # NoId, ~stale'
        PROVE  Steady(entry)' /\ known' = ToTerraformNetworkResource(cloud'[entry].attrs)
    <3>1. Steady(entry) /\ known = ToTerraformNetworkResource(cloud[entry].attrs)
      BY <2>2 DEF Inv, Recorded, RefreshedAgrees
    <3> QED BY <1>1, <2>2, <3>1, CalmSteady DEF Steady
  <2>3. ASSUME settled', entry # NoId PROVE Steady(entry)'
    <3>1. Steady(entry)
      BY <2>3 DEF Inv, Recorded, RefreshedAgrees
    <3> QED BY <1>1, <2>3, <3>1, CalmSteady DEF Steady
  <2> QED BY <2>1, <2>2, <2>3 DEF RefreshedAgrees
<1>4. UpdatesInOrder'
  <2> SUFFICES ASSUME pc \in {"update", "updateWait"} PROVE UpdatesInOrder'
    BY DEF UpdatesInOrder
  <2>1. UNCHANGED <<config, known, stage, sent, tainted>> /\ entry \in Ids
    BY EntryKnown DEF env, balancer, Inv, EntryPCs
  <2>2. /\ sent \subseteq Work[stage] /\ ~Replaces /\ config.want
        /\ ~stale => WasRead
        /\ pc = "update" /\ ~stale => Steady(entry) /\ GoalAsSent
        /\ pc = "updateWait" /\ ~stale =>
             /\ cloud[entry].status \in {"BUSY", "RUNNING"} => GoalAsSent
             /\ cloud[entry].status = "RUNNING" => Steady(entry)
    BY DEF Inv, Recorded, UpdatesInOrder
  <2>3. sent' \subseteq Work'[stage'] /\ ~Replaces' /\ config'.want
    BY <2>1, <2>2, SamePlan
  <2>4. ~stale' => WasRead'
    BY <2>1, <2>2 DEF WasRead, NoChecks
  <2>5. cloud'[entry].goal = cloud[entry].goal /\ GoalAsSent => GoalAsSent'
    <3>1. \A k : /\ Done(k)' <=> Done(k)
                 /\ Sent(k)' = Sent(k)
      BY <2>1, SamePlan, SameDone
    <3> QED BY <2>1, <3>1 DEF GoalAsSent
  <2>6. ASSUME ~stale', pc = "update" PROVE Steady(entry)' /\ GoalAsSent'
    <3>1. cloud'[entry].attrs = cloud'[entry].goal /\ cloud'[entry].goal = cloud[entry].goal
      BY <2>1, <2>2, <2>6, CalmSteady
    <3> QED BY <2>2, <2>5, <2>6, <3>1 DEF Steady
  <2>7. ASSUME ~stale', pc = "updateWait"
        PROVE  /\ cloud'[entry].status \in {"BUSY", "RUNNING"} => GoalAsSent'
               /\ cloud'[entry].status = "RUNNING" => Steady(entry)'
    <3>1. Calm(entry)
      BY <2>1, <2>7
    <3>2. CASE cloud'[entry] = cloud[entry]
      BY <2>2, <2>5, <2>7, <3>2 DEF Steady
    <3>3. CASE cloud'[entry] # cloud[entry]
      BY <2>2, <2>5, <2>7, <3>1, <3>3 DEF Steady, Calm
    <3> QED BY <3>2, <3>3
  <2> QED BY <2>3, <2>4, <2>6, <2>7 DEF UpdatesInOrder
<1>5. ASSUME settled', entry # NoId PROVE cloud'[entry].attrs = cloud[entry].attrs
  <2>1. Steady(entry)
    BY <1>5 DEF Inv, Recorded, RefreshedAgrees
  <2> QED BY <1>1, <1>5, <2>1, CalmSteady
<1>6. RecordAgrees'
  BY <1>5 DEF Inv, Recorded, RecordAgrees
<1>7. SuccessMeansConfigured'
  BY <1>5 DEF Inv, Recorded, SuccessMeansConfigured, Configured, NoChecks, env
<1> QED BY <1>2, <1>3, <1>4, <1>6, <1>7 DEF Recorded

LEMMA ServiceRecorded == ASSUME Inv, Service PROVE Recorded'
<1>1. ASSUME NEW i \in Ids, Settle(i) PROVE Recorded'
  <2>1. cloud[i].status = "BUSY" /\ Moves(i, "RUNNING", cloud[i].goal, cloud[i].goal)
    BY <1>1, ServiceMoves DEF Settle, Completes, Inv, Placed
  <2>2. \A j \in Ids : Calm(j)
    BY <2>1 DEF Moves, Calm
  <2> QED BY <1>1, <2>2, CalmRecorded DEF Settle, Completes, ServiceOnly, Inv, Placed,
                                          TypeOK, Recorded, SettledIdle
<1>2. ASSUME NEW i \in Ids, Break(i) PROVE Recorded'
  <2>1. Moves(i, "FAILED", cloud[i].attrs, cloud[i].attrs)
    BY <1>2, ServiceMoves DEF Inv, Placed
  <2>2. \A j \in Ids : Calm(j)
    BY <2>1 DEF Moves, Calm
  <2> QED BY <1>2, <2>2, CalmRecorded DEF Break, Breaks, ServiceOnly, Inv, Placed,
                                          TypeOK, Recorded, SettledIdle
<1>4. ASSUME NEW i \in Ids, Linger(i) PROVE Recorded'
  <2>1. Moves(i, "DELETED", cloud[i].attrs, cloud[i].goal)
    BY <1>4, ServiceMoves DEF Inv, Placed
  <2>2. \A j \in Ids : Calm(j)
    BY <2>1 DEF Moves, Calm
  <2> QED BY <1>4, <2>2, CalmRecorded DEF Linger, ServiceOnly, Inv, Placed,
                                          TypeOK, Recorded, SettledIdle
<1>3. ASSUME NEW i \in Ids, \/ Vanish(i) \/ ExternalDelete(i)
                            \/ \E k \in Keys, v \in Values : Drift(i, k, v)
      PROVE  Recorded'
  <2>1. /\ UNCHANGED <<entry, known, pc, made, env, balancer>>
        /\ stale' = (stale \/ i \in {entry, made}) /\ settled' = (settled /\ ~stale')
    BY <1>3 DEF Vanish, Disappears, ExternalDelete, DeletedElsewhere, Drift, Drifts,
                ServiceOnly, Behind
  <2>2. \A j \in Ids \ {i} : Calm(j)
    <3>1. \A j \in Ids \ {i} : cloud'[j] = cloud[j]
      <4>1. CASE Vanish(i)
        BY <4>1 DEF Vanish, Disappears, Inv, Placed, TypeOK
      <4>2. CASE ~Vanish(i)
        BY <1>3, <4>2, ServiceMoves DEF Moves, Inv, Placed
      <4> QED BY <4>1, <4>2
    <3> QED BY <3>1 DEF Calm
  <2> QED BY <2>1, <2>2, CalmRecorded DEF Inv, Placed, TypeOK
<1> QED BY <1>1, <1>2, <1>3, <1>4 DEF Service

(* There is work for an element when something that it carries differs.    *)
LEMMA WorkDiffers ==
  ASSUME NEW s \in Stages, NEW e \in Work[s]
  PROVE  \E k \in Carried(s, e) : Planned[k] # known[k]
<1>1. CASE s \in {"name", "acl"}
  BY <1>1 DEF Work, Carried, Differs
<1>2. CASE s = "check"
  <2>1. hasHealthCheckChanges(e)
    BY <1>2 DEF Work
  <2>2. Carried(s, e) = {<<e, "probe">>, <<e, "timing">>}
    BY <1>2 DEF Carried
  <2> QED BY <2>1, <2>2 DEF hasHealthCheckChanges, Differs
<1>3. CASE s = "field"
  <2>1. hasBackendFieldChanges(e)
    BY <1>3 DEF Work
  <2>2. Carried(s, e) = {<<e, "close">>, <<e, "panic">>}
    BY <1>3 DEF Carried
  <2> QED BY <2>1, <2>2 DEF hasBackendFieldChanges, Differs
<1>4. CASE s = "target"
  BY <1>4 DEF Work, Carried, hasTargetChanges, Differs
<1> QED BY <1>1, <1>2, <1>3, <1>4 DEF Stages

LEMMA NextRecorded == ASSUME Inv, [Next]_allVars PROVE Recorded'
<1>1. CASE UNCHANGED allVars
  <2>1. UNCHANGED <<cloud, entry, known, pc, made, env, balancer, stale, settled>>
    BY <1>1 DEF allVars, vars, env
  <2>2. \A j : Calm(j)
    BY <2>1 DEF Calm
  <2> QED BY <2>1, <2>2, CalmRecorded DEF Inv, Placed, TypeOK, Recorded, SettledIdle
<1>2. CASE Handler
  <2>1. CASE PollFails \/ PollSeesFailed
    BY <2>1, FailRecorded DEF PollFails, PollSeesFailed, Fail, StatusWaits
  <2> QED BY <1>2, <2>1, PlanRecorded, CreateRecorded, ReadRecorded, UpdateRecorded,
             DeleteRecorded DEF Handler
<1>3. CASE Timeout \/ Stopped
  BY <1>3, FailRecorded DEF Timeout, Stopped, Crash, Fail, StatusWaits
<1>4. CASE User \/ Service
  BY <1>4, UserRecorded, ServiceRecorded
<1> QED BY <1>1, <1>2, <1>3, <1>4 DEF Next

-----------------------------------------------------------------------------
(* The theorems.                                                           *)

LEMMA Invariant == Spec => []Inv
<1>1. LBInit => Inv
  <2> SUFFICES ASSUME LBInit PROVE Recorded
    BY InitPlaced DEF Inv
  <2> QED BY DEF LBInit, Init, Recorded, SettledIdle, RefreshedAgrees, UpdatesInOrder,
                 RecordAgrees, SuccessMeansConfigured
<1>2. Inv /\ [Next]_allVars => Inv'
  BY NextPlaced, NextRecorded DEF Inv
<1> QED BY <1>1, <1>2, PTL DEF Spec

(* Every variable keeps its type, whatever the service does and however    *)
(* often it fails (the handlers of mgc_lbaas_network and what Terraform    *)
(* does around them); no request carries an unknown value.                 *)
THEOREM BalancerTypesKept == Spec => []TypeOK
<1>1. Inv => TypeOK
  BY DEF Inv, Placed
<1> QED BY Invariant, <1>1, PTL

(* A balancer that can still serve is in the state, in the hands of the    *)
(* running handler, or was disclosed by a run that failed (Create's reply, *)
(* Delete and its wait).                                                   *)
THEOREM NoneServesUnseen == Spec => []NoServingOrphan
<1>1. Inv => NoServingOrphan
  BY DEF Inv, Placed
<1> QED BY Invariant, <1>1, PTL

(* A run that was not reported as failed leaves in the state what the      *)
(* balancer has, whichever stages its update went through (the copies of   *)
(* the plan in Update, what Create and Read convert).                      *)
THEOREM RecordIsTrue == Spec => []RecordAgrees
<1>1. Inv => RecordAgrees
  BY DEF Inv, Recorded
<1> QED BY Invariant, <1>1, PTL

(* A run that ended without an error leaves the balancer as configured.    *)
THEOREM SuccessIsConfigured == Spec => []SuccessMeansConfigured
<1>1. Inv => SuccessMeansConfigured
  BY DEF Inv, Recorded
<1> QED BY Invariant, <1>1, PTL

(* The targets of the backends are sent when everything else is as planned *)
(* (the order of Update's stages, and the wait after each request).        *)
THEOREM TargetsComeLast == Spec => []TargetsLast
<1>1. Inv => TargetsLast
  <2> SUFFICES ASSUME Inv, pc = "update", stage = "target", ~stale,
                      NEW s \in Stages \ {"target"}, NEW e \in Work[s], NEW k \in Keys,
                      k \in Carried(s, e)
               PROVE  cloud[entry].attrs[k] = Sent(k)
    BY DEF TargetsLast
  <2>1. Steady(entry) /\ GoalAsSent
    BY DEF Inv, Recorded, UpdatesInOrder
  <2>2. Done(k)
    BY LastStageDone
  <2> QED BY <2>1, <2>2 DEF Steady, GoalAsSent
<1> QED BY Invariant, <1>1, PTL

(* An update that starts over sends a request only for an element of which *)
(* the service has something else than planned (the comparisons before     *)
(* each request of Update).                                                *)
THEOREM NothingSentTwice == Spec => OnlyNeededRequests
<1> DEFINE Needed ==
      Send /\ ~stale =>
        \E e \in sent' \ sent : \E k \in Carried(stage, e) :
           \/ cloud[entry].attrs[k] # Sent(k)
           \/ k = Acl /\ config.attrs[Acl] = Unset
<1>1. Inv /\ [Next]_allVars => [Needed]_allVars
  <2> SUFFICES ASSUME Inv, Send, ~stale
               PROVE  \E e \in sent' \ sent : \E k \in Carried(stage, e) :
                        \/ cloud[entry].attrs[k] # Sent(k)
                        \/ k = Acl /\ config.attrs[Acl] = Unset
    OBVIOUS
  <2>1. PICK e \in Work[stage] \ sent : sent' = sent \cup {e}
    BY DEF Send, Request
  <2>2. /\ sent \subseteq Work[stage] /\ WasRead /\ Steady(entry) /\ GoalAsSent
        /\ stage \in Stages /\ TypeOK /\ entry \in Ids /\ cloud[entry].attrs \in Attrs
    BY EntryKnown DEF Send, Inv, Placed, TypeOK, Balancer, EntryPCs, Recorded, UpdatesInOrder
  <2>3. PICK k \in Carried(stage, e) : Planned[k] # known[k]
    BY <2>1, <2>2, WorkDiffers
  <2>4. k \in Keys /\ k \notin {Fixed, Members, Cert}
    BY <2>1, <2>2, CarriedOnce
  <2>5. ~Done(k)
    <3>1. Earlier[stage] \subseteq Stages \ {stage}
      BY <2>2 DEF Earlier, Stages
    <3> QED BY <2>1, <2>2, <2>3, <3>1, CarriedOnce DEF Done
  <2>6. known[k] = ToTerraformNetworkResource(cloud[entry].attrs)[k]
    BY <2>2, <2>4, <2>5, DoneAttrs DEF Inv
  <2>7. CASE Planned[k] = Unset
    BY <2>1, <2>2, <2>3, <2>7, NullsSent
  <2>8. CASE Planned[k] # Unset
    <3>1. k \in CheckKeys => ~NoChecks(cloud[entry].attrs)
      <4>1. k \in CheckKeys => ~NoChecks(known)
        <5>1. k \in CheckKeys => stage = "check"
          BY <2>1, <2>2, <2>3, CarriedCases, WorkIsIn, NamesAssumption
          DEF CheckKeys, Name, Acl, Stages
        <5> QED BY <2>1, <5>1 DEF Work
      <4> QED BY <2>2, <2>4, <4>1, DoneAttrs DEF Inv
    <3>2. known[k] = cloud[entry].attrs[k]
      BY <2>2, <2>4, <2>6, <3>1, ReadOf
    <3> QED BY <2>1, <2>3, <2>8, <3>2 DEF Sent
  <2> QED BY <2>7, <2>8
<1>2. Spec => [][Needed]_allVars
  BY <1>1, Invariant, PTL DEF Spec
<1> QED BY <1>2 DEF OnlyNeededRequests
=============================================================================
