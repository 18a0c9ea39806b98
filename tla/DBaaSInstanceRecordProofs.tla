----------------------- MODULE DBaaSInstanceRecordProofs -----------------------
(***************************************************************************)
(* Proofs about DBaaSInstance, for any set of identifiers, values and      *)
(* configurations and any bounds: what the state records of an instance,   *)
(* what holds between the two calls of Update, and what a run that ended   *)
(* without an error has achieved.                                          *)
(***************************************************************************)
EXTENDS DBaaSInstanceProofs

-----------------------------------------------------------------------------
(* The inductive invariant.                                                *)

(* No change of the instance is under way.                                 *)
Steady(i) == cloud[i].attrs = cloud[i].goal

(* A success is known only between two runs, and only while it is fresh.   *)
SettledIdle == settled => pc = "idle" /\ ~stale

(* Only what is wanted is created, and it has what the request carried.    *)
CreatedAsSent ==
  /\ pc \in {"create", "createWait"} => config.want
  /\ pc = "createWait" /\ ~stale =>
       /\ Steady(made)
       /\ \A f \in SentFields :
            config.attrs[f] \in {Unset, cloud[made].attrs[f]}

(* Where RecordAgrees speaks, nothing is about to change.                  *)
RefreshedSteady ==
  pc \in {"idle", "plan", "resize", "delete"} /\ entry # NoId /\ ~stale =>
    Steady(entry)

(* What Update has sent so far; what the instance will have then: that as  *)
(* planned, the rest as it is recorded.                                    *)
SentSoFar ==
  (IF pc = "resize" THEN {} ELSE ResizeRequest)
    \cup (IF pc = "confWait" THEN UpdateRequest ELSE {})
AsRecorded(f, value) ==
  known[f] \in {Unset, value} \/ (Restores(known) /\ f \notin RestoreFields)
GoalAsSent ==
  \A f \in Shown :
    IF f \in SentSoFar THEN cloud[entry].goal[f] = GoValue(Planned[f])
    ELSE AsRecorded(f, cloud[entry].goal[f])
UpdatesInOrder ==
  pc \in {"resize", "resizeWait", "conf", "confWait"} =>
    /\ ~Replaces /\ config.want /\ (pc = "confWait" => NeedsUpdate)
    /\ pc \in {"resize", "conf"} /\ ~stale => Steady(entry) /\ GoalAsSent
    /\ pc = "conf" /\ NeedsResize /\ ~stale => cloud[entry].status = "ACTIVE"
    /\ pc \in {"resizeWait", "confWait"} /\ ~stale =>
         /\ cloud[entry].status \in Busy \cup {"ACTIVE"} => GoalAsSent
         /\ cloud[entry].status = "ACTIVE" => Steady(entry)

Recorded ==
  /\ SettledIdle /\ CreatedAsSent /\ RefreshedSteady /\ UpdatesInOrder
  /\ RecordAgrees /\ SuccessMeansConfigured

-----------------------------------------------------------------------------
(* The plan and what Update records.                                       *)

(* A plan is what the configuration and the record make it.                *)
LEMMA SamePlan ==
  ASSUME UNCHANGED <<config, known>>
  PROVE  /\ Planned' = Planned /\ (Replaces' <=> Replaces)
         /\ (NeedsResize' <=> NeedsResize) /\ (NeedsUpdate' <=> NeedsUpdate)
         /\ ResizeRequest' = ResizeRequest /\ UpdateRequest' = UpdateRequest
<1>1. Planned' = Planned
  BY DEF Planned, HasDiff
<1>2. \A f : Differs(f)' <=> Differs(f)
  BY <1>1 DEF Differs, GoValue
<1>3. (Replaces' <=> Replaces) /\ ResizeRequest' = ResizeRequest
  BY <1>1, <1>2 DEF Replaces, ResizeRequest
<1>4. NeedsResize' <=> NeedsResize
  BY <1>2 DEF NeedsResize
<1>5. NeedsUpdate' <=> NeedsUpdate
  BY <1>2 DEF NeedsUpdate
<1>6. UpdateRequest' = UpdateRequest
  BY <1>1 DEF UpdateRequest
<1> QED BY <1>1, <1>3, <1>4, <1>5, <1>6

(* What is configured is planned; the size always is.                      *)
LEMMA PlannedConfigured ==
  ASSUME TypeOK, NEW f \in Fields
  PROVE  /\ config.attrs[f] \in Values \cup {Unset}
         /\ config.attrs[f] # Unset => Planned[f] = config.attrs[f]
         /\ f = "snapshot" => Planned[f] = config.attrs[f]
         /\ f \in ResizeFields => Planned[f] = config.attrs[f] /\ Planned[f] \in Values
<1>1. config.attrs \in Configs /\ config.attrs[f] \in Values \cup {Unset}
  BY ConfigAssumption DEF TypeOK
<1>2. f \in ResizeFields => config.attrs[f] # Unset
  BY <1>1, ConfigAssumption DEF ResizeFields, ComputedFields
<1>3. f = "snapshot" => f \notin ComputedFields
  BY DEF ComputedFields
<1> QED BY <1>1, <1>2, <1>3 DEF Planned

(* A value that does not differ is the same value, unless both are null,   *)
(* unknown or zero.                                                        *)
LEMMA SameValue ==
  ASSUME TypeOK, NEW f \in Fields, ~Differs(f), Planned[f] \in Values
  PROVE  known[f] = Planned[f]
BY MarksAssumption DEF TypeOK, Differs, GoValue

(* What Commit records of a field agrees with an instance that has what    *)
(* was sent and is as recorded otherwise; so does the configuration, where *)
(* no null is recorded.                                                    *)
LEMMA CommitField ==
  ASSUME TypeOK, ~Replaces, NEW f \in Shown, NEW v,
         IF f \in ResizeRequest \/ (NeedsUpdate /\ f \in UpdateRequest)
         THEN v = GoValue(Planned[f]) ELSE AsRecorded(f, v)
  PROVE  \/ /\ UpdateRecord[f] \in {Unset, v}
            /\ UpdateRecord[f] # Unset => config.attrs[f] \in {Unset, v}
         \/ Restores(known) /\ f \notin RestoreFields
<1>1. f \in Fields /\ Planned[f] \in PlanValues
  BY PlannedType DEF Fields
<1>2. config.attrs[f] # Unset => Planned[f] = config.attrs[f] /\ Planned[f] \in Values
  BY <1>1, PlannedConfigured
<1>3. UpdateRecord[f] =
        IF f \notin ResizeFields \cup UpdateFields THEN known[f]
        ELSE IF f \in UpdateFields /\ ~NeedsUpdate THEN known[f]
        ELSE IF Planned[f] = Unknown THEN Unset ELSE Planned[f]
  BY <1>1 DEF UpdateRecord
<1>4. ~Differs(f) /\ config.attrs[f] # Unset => known[f] = config.attrs[f]
  BY <1>1, <1>2, SameValue
<1>5. CASE f \in ResizeFields
  <2>1. /\ Planned[f] \in Values /\ Planned[f] = config.attrs[f]
        /\ f \notin UpdateFields /\ f \in RestoreFields
    BY <1>1, <1>5, PlannedConfigured DEF ResizeFields, UpdateFields, RestoreFields
  <2>2. UpdateRecord[f] = Planned[f]
    BY <1>3, <1>5, <2>1, MarksAssumption
  <2>3. CASE Differs(f)
    BY <1>5, <2>1, <2>2, <2>3, MarksAssumption DEF ResizeRequest, GoValue
  <2>4. CASE ~Differs(f)
    <3>1. AsRecorded(f, v)
      BY <2>1, <2>4 DEF ResizeRequest, UpdateRequest
    <3>2. known[f] = Planned[f]
      BY <1>1, <2>1, <2>4, SameValue
    <3> QED BY <2>1, <2>2, <3>1, <3>2, MarksAssumption DEF AsRecorded
  <2> QED BY <2>3, <2>4
<1>6. CASE f \in UpdateFields /\ NeedsUpdate
  <2>1. f \notin ResizeFields
    BY <1>6 DEF ResizeFields, UpdateFields
  <2>2. UpdateRecord[f] = IF Planned[f] = Unknown THEN Unset ELSE Planned[f]
    BY <1>3, <1>6, <2>1
  <2>3. Planned[f] \notin {Unset, Unknown} => v = Planned[f]
    BY <1>6 DEF UpdateRequest, GoValue
  <2> QED BY <1>2, <2>2, <2>3, MarksAssumption
<1>7. CASE f \in UpdateFields /\ ~NeedsUpdate
  <2>1. f \notin ResizeFields /\ ~Differs(f)
    BY <1>7 DEF ResizeFields, UpdateFields, NeedsUpdate
  <2>2. UpdateRecord[f] = known[f] /\ AsRecorded(f, v)
    BY <1>3, <1>7, <2>1 DEF ResizeRequest
  <2> QED BY <1>4, <2>1, <2>2 DEF AsRecorded
<1>8. CASE f \notin ResizeFields \cup UpdateFields
  <2>1. UpdateRecord[f] = known[f] /\ AsRecorded(f, v)
    BY <1>3, <1>8 DEF ResizeRequest, UpdateRequest
  <2>2. f \in ReplaceFields
    BY <1>8 DEF Shown, ResizeFields, UpdateFields, ReplaceFields,
                ComputedFields
  <2> QED BY <1>2, <2>1, <2>2 DEF AsRecorded, Replaces
<1> QED BY <1>5, <1>6, <1>7, <1>8

-----------------------------------------------------------------------------
(* The steps of Terraform, Create and Read.                                *)

(* A step that ends a run with an error, or goes where nothing is claimed. *)
LEMMA QuietRecorded ==
  ASSUME settled' = FALSE,
         pc' \notin {"createWait", "resize", "resizeWait", "conf", "confWait"},
         pc' \in {"idle", "plan", "delete"} => entry' = NoId \/ stale',
         pc' = "create" => config'.want
  PROVE  Recorded'
BY DEF Recorded, SettledIdle, CreatedAsSent, RefreshedSteady, UpdatesInOrder,
       RecordAgrees, SuccessMeansConfigured

LEMMA FailRecorded ==
  ASSUME Inv, Recorded, pc # "idle", Fail PROVE Recorded'
BY QuietRecorded DEF Inv, Recorded, SettledIdle, TypeOK, Fail

LEMMA TerraformRecorded == ASSUME Inv, Recorded, Terraform PROVE Recorded'
<1>1. CASE PlanCreate
  BY <1>1, QuietRecorded DEF PlanCreate, CreatePlanned, Goto, env
<1>2. CASE PlanNothing
  <2>1. /\ UNCHANGED <<cloud, entry, known, disclosed, stale, config>>
        /\ pc' = "idle" /\ pc = "plan" /\ settled' = ~stale
        /\ IF entry = NoId THEN ~config.want ELSE config.want /\ Planned = known
    BY <1>2 DEF PlanNothing, NothingPlanned, env
  <2>2. SettledIdle' /\ CreatedAsSent' /\ UpdatesInOrder'
    BY <2>1 DEF SettledIdle, CreatedAsSent, UpdatesInOrder
  <2>3. RefreshedSteady' /\ RecordAgrees'
    BY <2>1 DEF Recorded, RefreshedSteady, RecordAgrees, Steady
  <2>4. SuccessMeansConfigured'
    <3>1. CASE entry = NoId
      <4>1. made = NoId
        BY <2>1 DEF Inv, HandlersWellPlaced
      <4> QED BY <2>1, <3>1, <4>1, IdsAssumption
              DEF SuccessMeansConfigured, Exists, Inv, NoSilentOrphan
    <3>2. CASE entry # NoId
      <4> SUFFICES ASSUME ~stale
                   PROVE  /\ known["snapshot"] = config.attrs["snapshot"]
                          /\ \A f \in Shown :
                                \/ config.attrs[f] \in {Unset, cloud[entry].attrs[f]}
                                \/ Restores(known) /\ f \notin RestoreFields
        BY <2>1, <3>2 DEF SuccessMeansConfigured
      <4>1. Shown \subseteq Fields /\ "snapshot" \in Fields
        BY DEF Fields
      <4>2. known["snapshot"] = config.attrs["snapshot"]
        BY <2>1, <3>2, <4>1, PlannedConfigured DEF Inv
      <4>3. ASSUME NEW f \in Shown, config.attrs[f] # Unset
            PROVE  known[f] = config.attrs[f]
        BY <2>1, <3>2, <4>1, <4>3, PlannedConfigured DEF Inv
      <4> QED BY <2>1, <3>2, <4>2, <4>3 DEF Recorded, RecordAgrees
    <3> QED BY <3>1, <3>2
  <2> QED BY <2>2, <2>3, <2>4 DEF Recorded
<1>3. CASE PlanUpdate
  <2>1. /\ pc = "plan" /\ entry # NoId /\ config.want /\ ~Replaces
        /\ pc' = "resize" /\ settled' = FALSE
        /\ UNCHANGED <<cloud, entry, known, config, stale>>
    BY <1>3 DEF PlanUpdate, UpdatePlanned, Goto, env
  <2>2. ~stale => Steady(entry) /\ \A f \in Shown : AsRecorded(f, cloud[entry].attrs[f])
    BY <2>1 DEF Recorded, RefreshedSteady, RecordAgrees, AsRecorded
  <2>3. ~stale => Steady(entry)' /\ GoalAsSent'
    <3>1. SentSoFar' = {}
      BY <2>1 DEF SentSoFar
    <3> QED BY <2>1, <2>2, <3>1 DEF GoalAsSent, AsRecorded, Steady
  <2>4. ~Replaces' /\ UpdatesInOrder'
    BY <2>1, <2>3, SamePlan DEF UpdatesInOrder
  <2>5. RefreshedSteady' /\ RecordAgrees'
    BY <2>1, <2>2 DEF RefreshedSteady, RecordAgrees, AsRecorded, Steady
  <2> QED BY <2>1, <2>4, <2>5
          DEF Recorded, SettledIdle, CreatedAsSent, SuccessMeansConfigured
<1>4. CASE PlanDelete
  <2>1. /\ pc = "plan" /\ pc' = "delete" /\ settled' = FALSE
        /\ UNCHANGED <<cloud, entry, known, config, stale>>
    BY <1>4 DEF PlanDelete, DeletePlanned, Goto, env
  <2>2. RefreshedSteady' /\ RecordAgrees'
    BY <2>1 DEF Recorded, RefreshedSteady, RecordAgrees, Steady
  <2> QED BY <2>1, <2>2
          DEF Recorded, SettledIdle, CreatedAsSent, UpdatesInOrder, SuccessMeansConfigured
<1> QED BY <1>1, <1>2, <1>3, <1>4 DEF Terraform

LEMMA CreateRecorded == ASSUME Inv, Recorded, Create PROVE Recorded'
<1>1. CASE CreateRejected
  BY <1>1, FailRecorded DEF CreateRejected
<1>2. ASSUME NEW i \in Ids, CreateReplyLost(i) PROVE Recorded'
  BY <1>2, QuietRecorded
  DEF CreateReplyLost, MayCreate, Inv, Recorded, SettledIdle, TypeOK
<1>3. ASSUME NEW i \in Ids, CreateAccepted(i) PROVE Recorded'
  <2>1. /\ cloud' = [cloud EXCEPT ![i] = NewInstance] /\ DOMAIN cloud = Ids
        /\ made' = i /\ pc' = "createWait" /\ settled' = FALSE /\ UNCHANGED config
        /\ config.want
    BY <1>3 DEF CreateAccepted, MayCreate, env, Inv, Recorded, SettledIdle, TypeOK,
                CreatedAsSent
  <2>2. NewInstance.attrs = NewInstance.goal
    BY DEF NewInstance
  <2>3. \A f \in SentFields : config.attrs[f] \in {Unset, NewInstance.attrs[f]}
    BY DEF NewInstance, SentFields, RestoreFields, Shown, Fields
  <2>4. CreatedAsSent'
    BY <2>1, <2>2, <2>3 DEF CreatedAsSent, Steady, SentFields, Restores
  <2> QED BY <2>1, <2>4 DEF Recorded, SettledIdle, RefreshedSteady, UpdatesInOrder,
                            RecordAgrees, SuccessMeansConfigured
<1>4. CASE CreateDone
  <2>1. /\ pc = "createWait" /\ entry' = made /\ pc' = "idle" /\ known' = CreateRecord
        /\ settled' = ~stale /\ UNCHANGED <<cloud, stale, config>>
        /\ made \in Ids /\ made # NoId
    BY <1>4, IdsAssumption DEF CreateDone, env, Inv, TypeOK, HandlersWellPlaced
  <2>2. /\ config.want
        /\ ~stale => /\ Steady(made)
                     /\ \A f \in SentFields :
                          config.attrs[f] \in {Unset, cloud[made].attrs[f]}
    BY <2>1 DEF Recorded, CreatedAsSent
  <2>3. /\ known'["snapshot"] = config.attrs["snapshot"]
        /\ \A f \in Shown : known'[f] \in {config.attrs[f], cloud[made].attrs[f]}
    <3>1. DOMAIN config.attrs = Fields
      BY ConfigAssumption DEF Inv, TypeOK
    <3> QED BY <2>1, <3>1 DEF CreateRecord, Shown, Fields
  <2>4. ASSUME NEW f \in Shown, f \notin SentFields
        PROVE  Restores(known') /\ f \notin RestoreFields
    BY <2>3, <2>4 DEF SentFields, Restores
  <2>5. SettledIdle' /\ CreatedAsSent' /\ UpdatesInOrder'
    BY <2>1 DEF SettledIdle, CreatedAsSent, UpdatesInOrder
  <2>6. RefreshedSteady'
    BY <2>1, <2>2 DEF RefreshedSteady, Steady
  <2>7. RecordAgrees'
    BY <2>1, <2>2, <2>3, <2>4 DEF RecordAgrees
  <2>8. SuccessMeansConfigured'
    BY <2>1, <2>2, <2>3, <2>4 DEF SuccessMeansConfigured
  <2> QED BY <2>5, <2>6, <2>7, <2>8 DEF Recorded
<1> QED BY <1>1, <1>2, <1>3, <1>4 DEF Create

LEMMA ReadRecorded == ASSUME Inv, Recorded, Read PROVE Recorded'
<1>1. CASE ReadFails
  BY <1>1, FailRecorded DEF ReadFails
<1>2. CASE ReadOk
  <2>1. /\ pc = "read" /\ pc' = "plan" /\ UNCHANGED <<cloud, entry>> /\ settled' = FALSE
        /\ known' = ReadRecord(entry, known["snapshot"]) /\ stale' = MidChange(entry)
        /\ cloud[entry].attrs \in Attrs
    BY <1>2, EntryKnown
    DEF ReadOk, Inv, Recorded, SettledIdle, TypeOK, Instance, EntryPCs
  <2>2. \A f \in Shown : known'[f] = cloud[entry].attrs[f]
    BY <2>1 DEF ReadRecord, Attrs, Shown, Fields
  <2>3. RefreshedSteady'
    BY <2>1 DEF RefreshedSteady, Steady, MidChange
  <2>4. RecordAgrees'
    BY <2>1, <2>2 DEF RecordAgrees
  <2> QED BY <2>1, <2>3, <2>4
          DEF Recorded, SettledIdle, CreatedAsSent, UpdatesInOrder, SuccessMeansConfigured
<1>3. CASE ImportOk
  <2>1. /\ pc = "import" /\ pc' = "idle" /\ UNCHANGED cloud /\ settled' = FALSE
        /\ entry' = made /\ known' = ReadRecord(made, Unset) /\ stale' = MidChange(made)
        /\ cloud[made].attrs \in Attrs
    BY <1>3 DEF ImportOk, Inv, Recorded, SettledIdle, TypeOK, HandlersWellPlaced, Instance
  <2>2. \A f \in Shown : known'[f] = cloud[made].attrs[f]
    BY <2>1 DEF ReadRecord, Attrs, Shown, Fields
  <2>3. RefreshedSteady'
    BY <2>1 DEF RefreshedSteady, Steady, MidChange
  <2>4. RecordAgrees'
    BY <2>1, <2>2 DEF RecordAgrees
  <2> QED BY <2>1, <2>3, <2>4
          DEF Recorded, SettledIdle, CreatedAsSent, UpdatesInOrder, SuccessMeansConfigured
<1>4. CASE ImportFails
  BY <1>4, QuietRecorded
  DEF ImportFails, Inv, TypeOK, HandlersWellPlaced, Recorded, SettledIdle
<1> QED BY <1>1, <1>2, <1>3, <1>4 DEF Read

-----------------------------------------------------------------------------
(* The steps of Update and Delete.                                         *)

(* What a request does to the instance it is for.                          *)
LEMMA RequestGoal ==
  ASSUME TypeOK, NEW i \in Ids, NEW fs, NEW s, Request(i, fs, s)
  PROVE  /\ cloud'[i].status = s
         /\ \A f \in Shown : cloud'[i].goal[f] =
              IF f \in fs THEN GoValue(Planned[f]) ELSE cloud[i].goal[f]
<1> DEFINE g == [f \in Fields |-> IF f \in fs THEN GoValue(Planned[f])
                                  ELSE cloud[i].goal[f]]
<1>1. cloud[i] \in Instance /\ DOMAIN cloud = Ids
  BY DEF TypeOK
<1>2. cloud' = [cloud EXCEPT ![i].status = s, ![i].goal = g]
  BY DEF Request
<1>3. \A f \in Shown : g[f] = IF f \in fs THEN GoValue(Planned[f])
                              ELSE cloud[i].goal[f]
  BY DEF Shown, Fields
<1> HIDE DEF g
<1>4. cloud'[i].status = s /\ cloud'[i].goal = g
  BY <1>1, <1>2 DEF Instance
<1> QED BY <1>3, <1>4

(* The two waits, once their request is sent.                              *)
LEMMA WaitRecorded ==
  ASSUME Inv, Recorded, pc = "resize" \/ pc = "conf",
         NEW l \in {"resizeWait", "confWait"}, Goto(l), pc = "resize" <=> l = "resizeWait",
         NEW fs, NEW s \in Busy, Request(entry, fs, s),
         fs = IF pc = "resize" THEN ResizeRequest ELSE UpdateRequest,
         pc = "conf" => NeedsUpdate
  PROVE  Recorded'
<1>1. entry \in Ids /\ entry # NoId /\ TypeOK
  BY EntryKnown DEF EntryPCs, Inv
<1>2. /\ UNCHANGED <<entry, known, config, stale>> /\ pc' = l /\ settled' = FALSE
  BY DEF Goto, env
<1>3. /\ ~Replaces /\ config.want
      /\ ~stale => GoalAsSent
  BY DEF Recorded, UpdatesInOrder
<1>4. /\ ~Replaces' /\ (NeedsUpdate' <=> NeedsUpdate) /\ Planned' = Planned
      /\ SentSoFar' = SentSoFar \cup fs
  <2>1. /\ ~Replaces' /\ (NeedsUpdate' <=> NeedsUpdate) /\ Planned' = Planned
        /\ ResizeRequest' = ResizeRequest /\ UpdateRequest' = UpdateRequest
    BY <1>2, <1>3, SamePlan
  <2>2. SentSoFar' = SentSoFar \cup fs
    BY <1>2, <2>1 DEF SentSoFar
  <2> QED BY <2>1, <2>2
<1>5. cloud'[entry].status = s /\ s # "ACTIVE"
  BY <1>1, RequestGoal DEF Busy
<1>6. ~stale => GoalAsSent'
  <2>1. \A f \in Shown : cloud'[entry].goal[f] =
          IF f \in fs THEN GoValue(Planned[f]) ELSE cloud[entry].goal[f]
    BY <1>1, RequestGoal
  <2> QED BY <1>2, <1>3, <1>4, <2>1 DEF GoalAsSent, AsRecorded, GoValue
<1>7. UpdatesInOrder'
  BY <1>2, <1>3, <1>4, <1>5, <1>6 DEF UpdatesInOrder
<1> QED BY <1>2, <1>7 DEF Recorded, SettledIdle, CreatedAsSent, RefreshedSteady,
                          RecordAgrees, SuccessMeansConfigured

LEMMA CommitRecorded ==
  ASSUME Inv, Recorded, Commit, UNCHANGED cloud,
         \/ pc = "conf" /\ ~NeedsUpdate
         \/ pc = "confWait" /\ cloud[entry].status = "ACTIVE"
  PROVE  Recorded'
<1>1. entry \in Ids /\ entry # NoId /\ TypeOK
  BY EntryKnown DEF EntryPCs, Inv
<1>2. /\ UNCHANGED <<entry, stale, config>> /\ pc' = "idle" /\ known' = UpdateRecord
      /\ settled' = (~stale /\ Unset \notin {known'[f] : f \in Shown})
  BY DEF Commit, env
<1>3. /\ ~Replaces /\ config.want /\ (pc = "confWait" <=> NeedsUpdate)
      /\ ~stale => Steady(entry) /\ GoalAsSent
  BY DEF Recorded, UpdatesInOrder
<1>4. known'["snapshot"] = known["snapshot"] /\ (Restores(known') <=> Restores(known))
  BY <1>2 DEF UpdateRecord, ResizeFields, UpdateFields, Fields, Restores
<1>5. ASSUME ~stale, NEW f \in Shown
      PROVE  \/ /\ known'[f] \in {Unset, cloud[entry].attrs[f]}
                /\ known'[f] # Unset => config.attrs[f] \in {Unset, cloud[entry].attrs[f]}
             \/ Restores(known') /\ f \notin RestoreFields
  <2>1. f \in SentSoFar <=> f \in ResizeRequest \/ (NeedsUpdate /\ f \in UpdateRequest)
    BY <1>3 DEF SentSoFar
  <2>2. IF f \in SentSoFar THEN cloud[entry].attrs[f] = GoValue(Planned[f])
        ELSE AsRecorded(f, cloud[entry].attrs[f])
    BY <1>3, <1>5 DEF GoalAsSent, Steady
  <2> QED BY <1>1, <1>2, <1>3, <1>4, <2>1, <2>2, CommitField
<1>6. SettledIdle' /\ CreatedAsSent' /\ UpdatesInOrder'
  BY <1>2 DEF SettledIdle, CreatedAsSent, UpdatesInOrder
<1>7. RefreshedSteady'
  BY <1>2, <1>3 DEF RefreshedSteady, Steady
<1>8. RecordAgrees'
  BY <1>2, <1>5 DEF RecordAgrees
<1>9. SuccessMeansConfigured'
  <2>1. known["snapshot"] = config.attrs["snapshot"]
    BY <1>1, <1>3, PlannedConfigured DEF Replaces, ReplaceFields, Fields
  <2>2. ASSUME settled', NEW f \in Shown
        PROVE  \/ config.attrs[f] \in {Unset, cloud[entry].attrs[f]}
               \/ Restores(known') /\ f \notin RestoreFields
    BY <1>2, <1>5, <2>2
  <2> QED BY <1>1, <1>2, <1>3, <1>4, <2>1, <2>2 DEF SuccessMeansConfigured
<1> QED BY <1>6, <1>7, <1>8, <1>9 DEF Recorded

LEMMA UpdateRecorded == ASSUME Inv, Recorded, Update PROVE Recorded'
<1>1. CASE ResizeRejected \/ ResizeReplyLost \/ ConfRejected \/ ConfReplyLost
  BY <1>1, FailRecorded DEF ResizeRejected, ResizeReplyLost, ConfRejected, ConfReplyLost
<1>2. CASE ResizeAccepted
  BY <1>2, WaitRecorded DEF ResizeAccepted, Busy
<1>3. CASE ConfAccepted
  BY <1>3, WaitRecorded DEF ConfAccepted, Busy
<1>4. CASE ConfSkipped \/ ConfDone
  BY <1>4, CommitRecorded DEF ConfSkipped, ConfDone
<1>5. CASE ResizeSkipped \/ ResizeDone
  <2>1. /\ pc' = "conf" /\ settled' = FALSE
        /\ UNCHANGED <<cloud, entry, known, config, stale>>
    BY <1>5 DEF ResizeSkipped, ResizeDone, Goto, env
  <2>2. /\ ~Replaces /\ config.want
        /\ ~stale => Steady(entry) /\ GoalAsSent
        /\ NeedsResize /\ ~stale => cloud[entry].status = "ACTIVE"
    BY <1>5 DEF ResizeSkipped, ResizeDone, Recorded, UpdatesInOrder
  <2>3. /\ ~Replaces' /\ (NeedsResize' <=> NeedsResize) /\ Planned' = Planned
        /\ ResizeRequest' = ResizeRequest
    BY <2>1, <2>2, SamePlan
  <2>4. SentSoFar = ResizeRequest /\ SentSoFar' = ResizeRequest
    <3>1. ResizeSkipped => ResizeRequest = {}
      BY DEF ResizeSkipped, NeedsResize, ResizeRequest
    <3>2. SentSoFar = ResizeRequest
      BY <1>5, <3>1 DEF SentSoFar, ResizeSkipped, ResizeDone
    <3>3. SentSoFar' = ResizeRequest
      BY <2>1, <2>3 DEF SentSoFar
    <3> QED BY <3>2, <3>3
  <2>5. ~stale => Steady(entry)' /\ GoalAsSent'
    BY <2>1, <2>2, <2>3, <2>4 DEF Steady, GoalAsSent, AsRecorded, GoValue
  <2>6. UpdatesInOrder'
    BY <2>1, <2>2, <2>3, <2>5 DEF UpdatesInOrder
  <2> QED BY <2>1, <2>6 DEF Recorded, SettledIdle, CreatedAsSent, RefreshedSteady,
                            RecordAgrees, SuccessMeansConfigured
<1> QED BY <1>1, <1>2, <1>3, <1>4, <1>5 DEF Update

LEMMA DeletedRecorded ==
  ASSUME Inv, Recorded, pc \in {"delete", "deleteWait"}, ~Exists(entry), Deleted
  PROVE  Recorded'
<1>1. /\ entry' = NoId /\ settled' = ~config.want /\ UNCHANGED <<config, cloud, disclosed>>
      /\ stale' = FALSE /\ pc' = IF config.want THEN "create" ELSE "idle"
  BY DEF Deleted, env
<1>2. CASE config.want
  BY <1>1, <1>2, QuietRecorded
<1>3. CASE ~config.want
  <2>1. \A i \in Ids : Exists(i) => i \in disclosed
    BY IdsAssumption DEF Inv, NoSilentOrphan, HandlersWellPlaced
  <2>2. SuccessMeansConfigured'
    BY <1>1, <1>3, <2>1 DEF SuccessMeansConfigured, Exists
  <2> QED BY <1>1, <1>3, <2>2 DEF Recorded, SettledIdle, CreatedAsSent, RefreshedSteady,
                                  UpdatesInOrder, RecordAgrees
<1> QED BY <1>2, <1>3

LEMMA DeleteRecorded == ASSUME Inv, Recorded, Delete PROVE Recorded'
<1>1. CASE DeleteFindsNone \/ DeleteDone
  BY <1>1, DeletedRecorded DEF DeleteFindsNone, DeleteDone
<1>2. CASE DeletePanics \/ DeleteRejected \/ DeleteReplyLost
  BY <1>2, FailRecorded DEF DeletePanics, DeleteRejected, DeleteReplyLost
<1>3. CASE DeleteGets \/ DeleteAccepted
  BY <1>3, QuietRecorded DEF DeleteGets, DeleteAccepted, Goto
<1> QED BY <1>1, <1>2, <1>3 DEF Delete

-----------------------------------------------------------------------------
(* The user and the service.                                               *)

LEMMA UserRecorded ==
  ASSUME Inv, Recorded, EditConfig \/ StartRun \/ \E i \in Ids : StartImport(i)
  PROVE  Recorded'
<1>1. CASE EditConfig
  <2>1. /\ pc = "idle" /\ settled' = FALSE
        /\ UNCHANGED <<cloud, entry, known, pc, stale>>
    BY <1>1 DEF EditConfig
  <2>2. RefreshedSteady' /\ RecordAgrees'
    BY <2>1 DEF Recorded, RefreshedSteady, RecordAgrees, Steady
  <2> QED BY <2>1, <2>2
          DEF Recorded, SettledIdle, CreatedAsSent, UpdatesInOrder, SuccessMeansConfigured
<1>2. CASE StartRun
  BY <1>2, QuietRecorded DEF StartRun, Goto
<1>3. ASSUME NEW i \in Ids, StartImport(i) PROVE Recorded'
  BY <1>3, QuietRecorded DEF StartImport
<1> QED BY <1>1, <1>2, <1>3

(* What the service does to an object that the provider need not know of:  *)
(* nothing, the completion of a change, or what ends one.                  *)
Calm(j) ==
  \/ cloud'[j] = cloud[j]
  \/ /\ cloud[j].status \in Busy /\ cloud'[j].status = "ACTIVE"
     /\ cloud'[j].attrs = cloud[j].goal /\ cloud'[j].goal = cloud[j].goal
  \/ /\ cloud[j].status # "ACTIVE" /\ cloud'[j].status \notin Busy \cup {"ACTIVE"}
     /\ cloud'[j].attrs = cloud[j].attrs
     /\ cloud'[j].goal \in {cloud[j].attrs, cloud[j].goal}

LEMMA CalmSteady ==
  ASSUME NEW j, Calm(j), Steady(j)
  PROVE  /\ cloud'[j].attrs = cloud[j].attrs /\ cloud'[j].goal = cloud[j].goal
         /\ cloud'[j].attrs = cloud'[j].goal
         /\ cloud[j].status = "ACTIVE" => cloud'[j].status = "ACTIVE"
BY DEF Calm, Steady, Busy

LEMMA CalmRecorded ==
  ASSUME Inv, Recorded, UNCHANGED <<entry, known, pc, made, env>>,
         stale => stale', stale' \in BOOLEAN, settled' \in BOOLEAN,
         settled' => settled /\ ~stale',
         \A j \in {entry, made} \cap Ids : stale' \/ Calm(j),
         \A i \in Ids : Exists(i)' => Exists(i) /\ (i \in disclosed => i \in disclosed')
  PROVE  Recorded'
<1>1. /\ entry # NoId => entry \in Ids
      /\ pc = "createWait" => made \in Ids
      /\ UNCHANGED config
  BY DEF Inv, TypeOK, HandlersWellPlaced, env
<1>2. SettledIdle'
  BY DEF Recorded, SettledIdle
<1>3. CreatedAsSent'
  <2>1. ASSUME pc = "createWait", ~stale'
        PROVE  Steady(made)' /\ cloud'[made].attrs = cloud[made].attrs
    <3>1. Steady(made)
      BY <2>1 DEF Recorded, CreatedAsSent
    <3> QED BY <1>1, <2>1, <3>1, CalmSteady DEF Steady
  <2>2. SentFields' = SentFields
    BY <1>1 DEF SentFields
  <2> QED BY <1>1, <2>1, <2>2 DEF Recorded, CreatedAsSent
<1>4. ASSUME pc \in {"idle", "plan", "resize", "delete"}, entry # NoId, ~stale'
      PROVE  Steady(entry)' /\ cloud'[entry].attrs = cloud[entry].attrs
  <2>1. Steady(entry)
    BY <1>4 DEF Recorded, RefreshedSteady
  <2> QED BY <1>1, <1>4, <2>1, CalmSteady DEF Steady
<1>5. RefreshedSteady'
  BY <1>4 DEF RefreshedSteady
<1>6. RecordAgrees'
  BY <1>4 DEF Recorded, RecordAgrees
<1>7. SuccessMeansConfigured'
  BY <1>1, <1>4 DEF Recorded, SettledIdle, SuccessMeansConfigured
<1>8. UpdatesInOrder'
  <2> SUFFICES ASSUME pc \in {"resize", "resizeWait", "conf", "confWait"}
               PROVE  UpdatesInOrder'
    BY DEF UpdatesInOrder
  <2>1. entry \in Ids
    BY EntryKnown DEF EntryPCs
  <2>2. /\ ~Replaces /\ config.want /\ (pc = "confWait" => NeedsUpdate)
        /\ pc \in {"resize", "conf"} /\ ~stale => Steady(entry) /\ GoalAsSent
        /\ pc = "conf" /\ NeedsResize /\ ~stale => cloud[entry].status = "ACTIVE"
        /\ pc \in {"resizeWait", "confWait"} /\ ~stale =>
             /\ cloud[entry].status \in Busy \cup {"ACTIVE"} => GoalAsSent
             /\ cloud[entry].status = "ACTIVE" => Steady(entry)
    BY DEF Recorded, UpdatesInOrder
  <2>3. /\ ~Replaces' /\ Planned' = Planned
        /\ (NeedsResize' <=> NeedsResize) /\ (NeedsUpdate' <=> NeedsUpdate)
        /\ ResizeRequest' = ResizeRequest /\ UpdateRequest' = UpdateRequest
    BY <1>1, <2>2, SamePlan
  <2>4. cloud'[entry].goal = cloud[entry].goal /\ GoalAsSent => GoalAsSent'
    <3>1. SentSoFar' = SentSoFar
      BY <2>3 DEF SentSoFar
    <3> QED BY <2>3, <3>1 DEF GoalAsSent, AsRecorded, GoValue
  <2>5. ASSUME ~stale', pc \in {"resize", "conf"}
        PROVE  /\ Steady(entry)' /\ GoalAsSent'
               /\ cloud[entry].status = "ACTIVE" => cloud'[entry].status = "ACTIVE"
    BY <2>1, <2>2, <2>4, <2>5, CalmSteady DEF Steady
  <2>6. ASSUME ~stale', pc \in {"resizeWait", "confWait"}
        PROVE  /\ cloud'[entry].status \in Busy \cup {"ACTIVE"} => GoalAsSent'
               /\ cloud'[entry].status = "ACTIVE" => Steady(entry)'
    <3>1. Calm(entry)
      BY <2>1, <2>6
    <3>2. CASE cloud'[entry] = cloud[entry]
      BY <2>2, <2>4, <2>6, <3>2 DEF Steady
    <3>3. CASE cloud'[entry] # cloud[entry]
      BY <2>2, <2>4, <2>6, <3>1, <3>3 DEF Steady, Calm
    <3> QED BY <3>2, <3>3
  <2> QED BY <1>1, <2>2, <2>3, <2>5, <2>6 DEF UpdatesInOrder
<1> QED BY <1>2, <1>3, <1>5, <1>6, <1>7, <1>8 DEF Recorded

LEMMA ServiceRecorded == ASSUME Inv, Recorded, Service PROVE Recorded'
<1>1. \A j \in Ids : Exists(j)' => Exists(j) /\ (j \in disclosed => j \in disclosed')
  BY ServiceStep
<1>2. \A i \in Ids : cloud[i] \in Instance /\ DOMAIN cloud = Ids
  BY DEF Inv, TypeOK
<1>3. ASSUME NEW i \in Ids, Settle(i) \/ LingersDeleted(i) \/ Break(i) PROVE Recorded'
  <2>1. Calm(i)
    <3>1. CASE Settle(i)
      BY <1>2, <3>1 DEF Settle, Completes, Calm, Instance
    <3>2. CASE LingersDeleted(i)
      BY <1>2, <3>2 DEF LingersDeleted, Calm, Instance, Busy
    <3>3. CASE Break(i)
      <4>1. PICK st \in {"ERROR", "ERROR_DELETING"} :
              Breaks(i, st) /\ cloud[i].status # "ACTIVE"
        BY <3>3 DEF Break, Busy
      <4>2. cloud' = [cloud EXCEPT ![i].status = st, ![i].goal = cloud[i].attrs]
        BY <4>1 DEF Breaks
      <4> QED BY <1>2, <4>1, <4>2 DEF Calm, Instance, Busy
    <3> QED BY <1>3, <3>1, <3>2, <3>3
  <2>2. \A j \in Ids \ {i} : cloud'[j] = cloud[j]
    BY <1>2, <1>3 DEF Settle, Completes, LingersDeleted, Break, Breaks
  <2>3. UNCHANGED <<entry, known, pc, made, env, stale, settled>>
    BY <1>3 DEF Settle, Completes, LingersDeleted, Break, Breaks, ServiceOnly
  <2>4. \A j \in Ids : Calm(j)
    BY <2>1, <2>2 DEF Calm
  <2>5. stale \in BOOLEAN /\ settled \in BOOLEAN /\ (settled => ~stale)
    BY DEF Inv, TypeOK, Recorded, SettledIdle
  <2> QED BY <1>1, <2>3, <2>4, <2>5, CalmRecorded
<1>4. ASSUME NEW i \in Ids, \/ Vanish(i) \/ ExternalDelete(i)
                            \/ \E f \in Shown, v \in Values : Drift(i, f, v)
      PROVE  Recorded'
  <2>1. /\ UNCHANGED <<entry, known, pc, made, env>>
        /\ stale' = (stale \/ i \in {entry, made}) /\ settled' = (settled /\ ~stale')
    BY <1>4 DEF Vanish, Disappears, ExternalDelete, DeletedElsewhere, Drift, Drifts,
                ServiceOnly, Behind
  <2>2. \A j \in Ids \ {i} : cloud'[j] = cloud[j]
    BY <1>2, <1>4 DEF Vanish, Disappears, ExternalDelete, DeletedElsewhere, Drift, Drifts
  <2>3. \A j \in {entry, made} \cap Ids : stale' \/ Calm(j)
    BY <2>1, <2>2 DEF Calm
  <2>4. stale' \in BOOLEAN /\ settled' \in BOOLEAN
    BY <2>1 DEF Inv, TypeOK
  <2> QED BY <1>1, <2>1, <2>3, <2>4, CalmRecorded
<1> QED BY <1>3, <1>4 DEF Service

LEMMA NextRecorded == Inv /\ Recorded /\ [Next]_vars => Recorded'
<1> SUFFICES ASSUME Inv, Recorded, [Next]_vars PROVE Recorded'
  OBVIOUS
<1>1. CASE UNCHANGED vars
  <2>1. UNCHANGED <<cloud, entry, known, pc, made, env, stale, settled, disclosed>>
    BY <1>1 DEF vars, env
  <2>2. \A j : Calm(j) /\ (Exists(j)' <=> Exists(j))
    BY <2>1 DEF Calm, Exists
  <2> QED BY <2>1, <2>2, CalmRecorded DEF Inv, TypeOK, Recorded, SettledIdle
<1>2. CASE Handler
  <2>1. CASE Poll
    BY <2>1, FailRecorded DEF Poll, PollFails, PollSeesError, StatusWaits
  <2> QED BY <1>2, <2>1, TerraformRecorded, CreateRecorded, ReadRecorded,
             UpdateRecorded, DeleteRecorded DEF Handler
<1>3. CASE Timeout \/ Crash
  BY <1>3, FailRecorded DEF Timeout, Crash, StatusWaits
<1>4. CASE Service \/ EditConfig \/ StartRun \/ \E i \in Ids : StartImport(i)
  BY <1>4, ServiceRecorded, UserRecorded
<1> QED BY <1>1, <1>2, <1>3, <1>4 DEF Next

-----------------------------------------------------------------------------
(* The theorems.                                                           *)

LEMMA AlwaysRecorded == Spec => [](Inv /\ Recorded)
<1>1. Init => Recorded
  BY DEF Init, Recorded, SettledIdle, CreatedAsSent, RefreshedSteady, UpdatesInOrder,
         RecordAgrees, SuccessMeansConfigured
<1>2. Spec => []Recorded
  BY <1>1, NextRecorded, Invariant, PTL DEF Spec
<1> QED BY <1>2, Invariant, PTL

(* What the state records of an instance is what the instance has, when    *)
(* nothing moved behind the provider's back since the refresh (what Create *)
(* takes from the plan, what Read converts, the two copies in Update).     *)
THEOREM RecordIsTrue == Spec => []RecordAgrees
<1>1. Inv /\ Recorded => RecordAgrees
  BY DEF Recorded
<1> QED BY <1>1, AlwaysRecorded, PTL

(* Update's second request is sent when the first has taken effect (the    *)
(* wait for the status between the two calls).                             *)
THEOREM ResizeTakesEffect == Spec => []UpdateAfterResize
<1>1. Inv /\ Recorded => UpdateAfterResize
  <2> SUFFICES ASSUME Inv, Recorded, pc = "conf", NeedsResize, ~stale,
                      NEW f \in ResizeFields
               PROVE  cloud[entry].status = "ACTIVE" /\ cloud[entry].attrs[f] = Planned[f]
    <3>1. ResizeFields # {}
      BY DEF ResizeFields
    <3> QED BY <3>1 DEF UpdateAfterResize
  <2>1. cloud[entry].status = "ACTIVE" /\ Steady(entry) /\ GoalAsSent /\ TypeOK
    BY DEF Recorded, UpdatesInOrder, Inv
  <2>2. f \in Shown /\ f \in Fields /\ f \in RestoreFields
    BY DEF ResizeFields, Shown, Fields, RestoreFields
  <2>3. Planned[f] \in Values
    BY <2>1, <2>2, PlannedConfigured
  <2>4. CASE Differs(f)
    <3>1. f \in SentSoFar
      BY <2>4 DEF SentSoFar, ResizeRequest
    <3> QED BY <2>1, <2>2, <2>3, <3>1, MarksAssumption DEF GoalAsSent, Steady, GoValue
  <2>5. CASE ~Differs(f)
    <3>1. f \notin SentSoFar
      BY <2>5 DEF SentSoFar, ResizeRequest
    <3>2. known[f] = Planned[f]
      BY <2>1, <2>2, <2>3, <2>5, SameValue
    <3> QED BY <2>1, <2>2, <2>3, <3>1, <3>2, MarksAssumption
            DEF GoalAsSent, AsRecorded, Steady
  <2> QED BY <2>1, <2>4, <2>5
<1> QED BY <1>1, AlwaysRecorded, PTL

(* A run that ended without an error leaves the instance with all that is  *)
(* configured, made from the configured snapshot, or none at all.          *)
THEOREM SuccessIsConfigured == Spec => []SuccessMeansConfigured
<1>1. Inv /\ Recorded => SuccessMeansConfigured
  BY DEF Recorded
<1> QED BY <1>1, AlwaysRecorded, PTL
=============================================================================
