-------------------------- MODULE DBaaSInstanceProofs --------------------------
(***************************************************************************)
(* Proofs about DBaaSInstance, for any set of identifiers, values and      *)
(* configurations and any bounds: the types, that no instance is silently  *)
(* lost, and that every step keeps the promise of ResourceLedger.          *)
(***************************************************************************)
EXTENDS DBaaSInstance, TLAPS

PlanValues == Values \cup {Zero, Unset, Unknown}

-----------------------------------------------------------------------------
(* The types of the derived quantities.                                    *)

LEMMA PlannedType ==
  ASSUME TypeOK PROVE Planned \in [Fields -> PlanValues]
BY ConfigAssumption DEF TypeOK, Planned, PlanValues, Fields

LEMMA GoValueType ==
  ASSUME NEW v \in PlanValues PROVE GoValue(v) \in Values \cup {Zero}
BY DEF GoValue, PlanValues

LEMMA NoObjectType == NoObject \in Instance
BY ConfigAssumption DEF NoObject, Instance, Status, Busy, Attrs

LEMMA NewInstanceType ==
  ASSUME TypeOK PROVE NewInstance \in Instance
BY ConfigAssumption DEF TypeOK, NewInstance, Instance, Status, Busy, Attrs

LEMMA RequestType ==
  ASSUME TypeOK, NEW i \in Ids, NEW fs, NEW s \in Status, Request(i, fs, s)
  PROVE  cloud' \in [Ids -> Instance]
<1> DEFINE g == [f \in Fields |-> IF f \in fs THEN GoValue(Planned[f])
                                  ELSE cloud[i].goal[f]]
<1>1. cloud[i] \in Instance
  BY DEF TypeOK
<1>2. g \in Attrs
  <2>1. ASSUME NEW f \in Fields PROVE Planned[f] \in PlanValues
    BY PlannedType
  <2>2. ASSUME NEW f \in Fields
        PROVE  GoValue(Planned[f]) \in Values \cup {Zero}
    BY <2>1, GoValueType
  <2>3. ASSUME NEW f \in Fields
        PROVE  cloud[i].goal[f] \in Values \cup {Zero}
    BY <1>1 DEF Instance, Attrs
  <2> QED BY <2>2, <2>3 DEF Attrs
<1>3. cloud' = [cloud EXCEPT ![i].status = s, ![i].goal = g]
  BY DEF Request
<1> HIDE DEF g
<1> QED BY <1>1, <1>2, <1>3 DEF TypeOK, Instance

LEMMA CreateRecordType ==
  ASSUME TypeOK, made \in Ids
  PROVE  CreateRecord \in [Fields -> Values \cup {Zero, Unset}]
<1>1. cloud[made].attrs \in Attrs
  BY DEF TypeOK, Instance
<1>2. config.attrs \in [Fields -> Values \cup {Unset}]
  BY ConfigAssumption DEF TypeOK
<1> QED BY <1>1, <1>2 DEF CreateRecord, Attrs, Fields

LEMMA UpdateRecordType ==
  ASSUME TypeOK
  PROVE  UpdateRecord \in [Fields -> Values \cup {Zero, Unset}]
<1>1. ASSUME NEW f \in Fields PROVE Planned[f] \in PlanValues
  BY PlannedType
<1>2. ASSUME NEW f \in Fields PROVE known[f] \in Values \cup {Zero, Unset}
  BY DEF TypeOK
<1> QED BY <1>1, <1>2 DEF UpdateRecord, PlanValues

LEMMA ReadRecordType ==
  ASSUME TypeOK, NEW i \in Ids, NEW snapshot \in Values \cup {Zero, Unset}
  PROVE  ReadRecord(i, snapshot) \in [Fields -> Values \cup {Zero, Unset}]
<1>1. cloud[i].attrs \in Attrs
  BY DEF TypeOK, Instance
<1> QED BY <1>1 DEF ReadRecord, Attrs

-----------------------------------------------------------------------------
(* The invariant.                                                          *)

(* What only a handler holds, no failed run has disclosed yet, unless it   *)
(* is being imported: then it is one that was disclosed.                   *)
HeldOnce ==
  /\ pc = "createWait" => made \notin disclosed
  /\ pc = "import" /\ Exists(made) => made \in disclosed

Inv == TypeOK /\ HandlersWellPlaced /\ NoSilentOrphan /\ HeldOnce

LEMMA InitInv == Init => Inv
<1> SUFFICES ASSUME Init PROVE Inv
  OBVIOUS
<1>1. TypeOK
  <2>1. cloud \in [Ids -> Instance]
    BY NoObjectType DEF Init
  <2>2. known \in [Fields -> Values \cup {Zero, Unset}]
    BY ConfigAssumption DEF Init
  <2>3. faults \in 0 .. MaxFaults /\ edits \in 0 .. MaxEdits
    BY BoundsAssumption DEF Init
  <2> QED BY <2>1, <2>2, <2>3 DEF Init, TypeOK, PCs
<1>2. HandlersWellPlaced /\ NoSilentOrphan /\ HeldOnce
  BY DEF Init, HandlersWellPlaced, NoSilentOrphan, HeldOnce, Exists,
         NoObject, EntryPCs
<1> QED BY <1>1, <1>2 DEF Inv

LEMMA FaultType ==
  ASSUME TypeOK, Fault \/ NoFault PROVE faults' \in 0 .. MaxFaults
BY BoundsAssumption DEF TypeOK, Fault, NoFault

(* A step that fails, or only moves on, while the service changes nothing  *)
(* but the status and the goals of instances that still exist.             *)
LEMMA FailInv ==
  ASSUME Inv, Fail, Fault \/ NoFault,
         cloud' \in [Ids -> Instance],
         \A i \in Ids : Exists(i)' <=> Exists(i)
  PROVE  Inv'
<1>1. TypeOK'
  BY FaultType DEF Inv, TypeOK, Fail, PCs, env
<1>2. HandlersWellPlaced'
  BY DEF Inv, HandlersWellPlaced, Fail, EntryPCs
<1>3. NoSilentOrphan'
  <2> SUFFICES ASSUME NEW i \in Ids, Exists(i)
               PROVE  i \in disclosed' \cup {entry', made'}
    BY DEF NoSilentOrphan
  <2>1. i \in disclosed \cup {entry, made}
    BY DEF Inv, NoSilentOrphan
  <2>2. i # NoId
    BY IdsAssumption
  <2> QED BY <2>1, <2>2 DEF Fail
<1>4. HeldOnce'
  BY DEF HeldOnce, Fail
<1> QED BY <1>1, <1>2, <1>3, <1>4 DEF Inv

LEMMA GotoInv ==
  ASSUME Inv, NEW l \in PCs \ {"idle", "import", "createWait"}, Goto(l),
         Fault \/ NoFault,
         pc \notin {"import", "createWait"},
         l \in EntryPCs => entry # NoId,
         l = "create" => entry = NoId,
         cloud' \in [Ids -> Instance],
         \A i \in Ids : Exists(i)' <=> Exists(i)
  PROVE  Inv'
<1>1. TypeOK'
  BY FaultType DEF Inv, TypeOK, Goto, env
<1>2. HandlersWellPlaced'
  BY DEF Inv, HandlersWellPlaced, Goto
<1>3. NoSilentOrphan'
  BY DEF Inv, NoSilentOrphan, Goto
<1>4. HeldOnce'
  BY DEF HeldOnce, Goto
<1> QED BY <1>1, <1>2, <1>3, <1>4 DEF Inv

-----------------------------------------------------------------------------
(* Create.                                                                 *)

LEMMA CreateInv == ASSUME Inv, Create PROVE Inv'
<1>1. CASE CreateRejected
  BY <1>1, FailInv DEF Inv, TypeOK, CreateRejected, Exists
<1>2. ASSUME NEW i \in Ids, CreateAccepted(i) PROVE Inv'
  <2>1. cloud' = [cloud EXCEPT ![i] = NewInstance] /\ i # NoId
    BY <1>2, IdsAssumption DEF CreateAccepted, MayCreate
  <2>2. TypeOK'
    BY <1>2, <2>1, NewInstanceType
    DEF Inv, TypeOK, CreateAccepted, env, PCs
  <2>3. HandlersWellPlaced'
    BY <1>2, <2>1 DEF Inv, HandlersWellPlaced, CreateAccepted, MayCreate, EntryPCs
  <2>4. NoSilentOrphan'
    <3> SUFFICES ASSUME NEW j \in Ids, Exists(j)'
                 PROVE  j \in disclosed' \cup {entry', made'}
      BY DEF NoSilentOrphan
    <3>1. CASE j = i
      BY <1>2, <3>1 DEF CreateAccepted
    <3>2. CASE j # i
      <4>1. Exists(j)
        BY <2>1, <3>2 DEF Inv, TypeOK, Exists
      <4>2. made = NoId /\ j # NoId
        BY <1>2, IdsAssumption DEF Inv, HandlersWellPlaced, CreateAccepted, MayCreate
      <4> QED BY <1>2, <4>1, <4>2 DEF Inv, NoSilentOrphan, CreateAccepted
    <3> QED BY <3>1, <3>2
  <2>5. HeldOnce'
    BY <1>2 DEF HeldOnce, CreateAccepted, MayCreate, Fresh
  <2> QED BY <2>2, <2>3, <2>4, <2>5 DEF Inv
<1>3. ASSUME NEW i \in Ids, CreateReplyLost(i) PROVE Inv'
  <2>1. cloud' = [cloud EXCEPT ![i] = NewInstance]
    BY <1>3 DEF CreateReplyLost, MayCreate
  <2>2. TypeOK'
    BY <1>3, <2>1, NewInstanceType, FaultType
    DEF Inv, TypeOK, CreateReplyLost, env, PCs
  <2>3. HandlersWellPlaced'
    BY <1>3 DEF Inv, HandlersWellPlaced, CreateReplyLost, MayCreate, EntryPCs
  <2>4. NoSilentOrphan'
    <3> SUFFICES ASSUME NEW j \in Ids, Exists(j)'
                 PROVE  j \in disclosed' \cup {entry', made'}
      BY DEF NoSilentOrphan
    <3>1. j = i \/ Exists(j)
      BY <2>1 DEF Inv, TypeOK, Exists
    <3> QED BY <1>3, <3>1 DEF Inv, NoSilentOrphan, CreateReplyLost
  <2>5. HeldOnce'
    BY <1>3 DEF HeldOnce, CreateReplyLost
  <2> QED BY <2>2, <2>3, <2>4, <2>5 DEF Inv
<1>4. CASE CreateDone
  <2>1. made \in Ids
    BY <1>4 DEF Inv, TypeOK, HandlersWellPlaced, CreateDone
  <2>2. TypeOK'
    BY <1>4, <2>1, CreateRecordType DEF Inv, TypeOK, CreateDone, env, PCs
  <2>3. HandlersWellPlaced'
    BY <1>4 DEF Inv, HandlersWellPlaced, CreateDone, EntryPCs
  <2>4. NoSilentOrphan'
    BY <1>4, IdsAssumption
    DEF Inv, NoSilentOrphan, HandlersWellPlaced, CreateDone, Exists
  <2>5. HeldOnce'
    BY <1>4 DEF HeldOnce, CreateDone
  <2> QED BY <2>2, <2>3, <2>4, <2>5 DEF Inv
<1> QED BY <1>1, <1>2, <1>3, <1>4 DEF Create

-----------------------------------------------------------------------------
(* Terraform, Read and ImportState.                                        *)

(* Where the service does not move. *)
LEMMA SameCloud ==
  ASSUME TypeOK, UNCHANGED cloud
  PROVE  cloud' \in [Ids -> Instance] /\ \A i \in Ids : Exists(i)' <=> Exists(i)
BY DEF TypeOK, Exists

LEMMA TerraformInv == ASSUME Inv, Terraform PROVE Inv'
<1>1. CASE PlanNothing
  <2>1. TypeOK'
    BY <1>1 DEF Inv, TypeOK, PlanNothing, NothingPlanned, env, PCs
  <2>2. HandlersWellPlaced'
    BY <1>1 DEF Inv, HandlersWellPlaced, PlanNothing, NothingPlanned, EntryPCs
  <2>3. NoSilentOrphan'
    BY <1>1 DEF Inv, NoSilentOrphan, PlanNothing, NothingPlanned, Exists
  <2>4. HeldOnce'
    BY <1>1 DEF HeldOnce, PlanNothing, NothingPlanned
  <2> QED BY <2>1, <2>2, <2>3, <2>4 DEF Inv
<1>2. CASE PlanCreate
  BY <1>2, GotoInv, SameCloud DEF Inv, PlanCreate, CreatePlanned, PCs, EntryPCs
<1>3. CASE PlanUpdate
  BY <1>3, GotoInv, SameCloud DEF Inv, PlanUpdate, UpdatePlanned, PCs, EntryPCs
<1>4. CASE PlanDelete
  BY <1>4, GotoInv, SameCloud DEF Inv, PlanDelete, DeletePlanned, PCs, EntryPCs
<1> QED BY <1>1, <1>2, <1>3, <1>4 DEF Terraform

LEMMA ReadInv == ASSUME Inv, Read PROVE Inv'
<1>1. CASE ReadOk
  <2>1. TypeOK'
    <3>1. entry \in Ids
      BY <1>1 DEF Inv, TypeOK, HandlersWellPlaced, ReadOk, EntryPCs
    <3>2. known' \in [Fields -> Values \cup {Zero, Unset}]
      <4>1. known["snapshot"] \in Values \cup {Zero, Unset}
        BY DEF Inv, TypeOK, Fields
      <4> QED BY <1>1, <3>1, <4>1, ReadRecordType DEF Inv, ReadOk
    <3> QED BY <1>1, <3>2 DEF Inv, TypeOK, ReadOk, MidChange, env, PCs
  <2>2. HandlersWellPlaced'
    BY <1>1 DEF Inv, HandlersWellPlaced, ReadOk, EntryPCs
  <2>3. NoSilentOrphan'
    BY <1>1 DEF Inv, NoSilentOrphan, ReadOk, Exists
  <2>4. HeldOnce'
    BY <1>1 DEF HeldOnce, ReadOk
  <2> QED BY <2>1, <2>2, <2>3, <2>4 DEF Inv
<1>2. CASE ReadFails
  BY <1>2, FailInv, SameCloud DEF Inv, ReadFails
<1>3. CASE ImportOk
  <2>1. made \in Ids /\ entry = NoId
    BY <1>3 DEF Inv, TypeOK, HandlersWellPlaced, ImportOk
  <2>2. TypeOK'
    <3>1. known' \in [Fields -> Values \cup {Zero, Unset}]
      BY <1>3, <2>1, ReadRecordType DEF Inv, ImportOk
    <3> QED BY <1>3, <2>1, <3>1 DEF Inv, TypeOK, ImportOk, MidChange, env, PCs
  <2>3. HandlersWellPlaced'
    BY <1>3 DEF Inv, HandlersWellPlaced, ImportOk, EntryPCs
  <2>4. NoSilentOrphan'
    <3> SUFFICES ASSUME NEW i \in Ids, Exists(i)
                 PROVE  i \in disclosed' \cup {entry', made'}
      BY <1>3 DEF NoSilentOrphan, ImportOk, Exists
    <3> QED BY <1>3, <2>1, IdsAssumption DEF Inv, NoSilentOrphan, ImportOk
  <2>5. HeldOnce'
    BY <1>3 DEF HeldOnce, ImportOk
  <2> QED BY <2>2, <2>3, <2>4, <2>5 DEF Inv
<1>4. CASE ImportFails
  <2>1. cloud' = cloud
    BY <1>4 DEF ImportFails
  <2>2. TypeOK'
    BY <1>4, <2>1, FaultType DEF Inv, TypeOK, ImportFails, env, PCs
  <2>3. HandlersWellPlaced'
    BY <1>4 DEF Inv, HandlersWellPlaced, ImportFails, EntryPCs
  <2>4. NoSilentOrphan'
    <3> SUFFICES ASSUME NEW i \in Ids, Exists(i)
                 PROVE  i \in disclosed' \cup {entry', made'}
      BY <2>1 DEF NoSilentOrphan, Exists
    <3>1. i \in disclosed \cup {entry, made}
      BY DEF Inv, NoSilentOrphan
    <3>2. i = made => i \in disclosed
      BY <1>4 DEF Inv, HeldOnce, ImportFails
    <3> QED BY <1>4, <3>1, <3>2 DEF ImportFails
  <2>5. HeldOnce'
    BY <1>4 DEF HeldOnce, ImportFails
  <2> QED BY <2>2, <2>3, <2>4, <2>5 DEF Inv
<1> QED BY <1>1, <1>2, <1>3, <1>4 DEF Read

-----------------------------------------------------------------------------
(* Update and Delete.                                                      *)

(* A request to an instance leaves it in existence. *)
LEMMA RequestExists ==
  ASSUME TypeOK, NEW i \in Ids, Exists(i), NEW fs,
         NEW s \in Status \ {"GONE"}, Request(i, fs, s)
  PROVE  /\ cloud' \in [Ids -> Instance]
         /\ \A j \in Ids : Exists(j)' <=> Exists(j)
<1>1. cloud' \in [Ids -> Instance]
  BY RequestType
<1>2. ASSUME NEW j \in Ids PROVE Exists(j)' <=> Exists(j)
  <2>1. DOMAIN cloud = Ids
    BY DEF TypeOK
  <2>2. CASE j = i
    BY <2>1, <2>2 DEF Request, Exists, TypeOK, Instance
  <2>3. CASE j # i
    BY <2>1, <2>3 DEF Request, Exists
  <2> QED BY <2>2, <2>3
<1> QED BY <1>1, <1>2

LEMMA MarkExists ==
  ASSUME TypeOK, NEW i \in Ids, Exists(i), NEW s \in Status \ {"GONE"},
         cloud' = [cloud EXCEPT ![i].status = s]
  PROVE  /\ cloud' \in [Ids -> Instance]
         /\ \A j \in Ids : Exists(j)' <=> Exists(j)
BY DEF TypeOK, Instance, Exists

LEMMA CommitInv ==
  ASSUME Inv, Commit, NoFault, UNCHANGED cloud, pc \in EntryPCs PROVE Inv'
<1>1. TypeOK'
  BY UpdateRecordType DEF Inv, TypeOK, Commit, NoFault, env, PCs
<1>2. HandlersWellPlaced'
  BY DEF Inv, HandlersWellPlaced, Commit, EntryPCs
<1>3. NoSilentOrphan'
  BY DEF Inv, NoSilentOrphan, Commit, Exists
<1>4. HeldOnce'
  BY DEF HeldOnce, Commit
<1> QED BY <1>1, <1>2, <1>3, <1>4 DEF Inv

LEMMA EntryKnown ==
  ASSUME Inv, pc \in EntryPCs PROVE entry \in Ids /\ entry # NoId
BY DEF Inv, TypeOK, HandlersWellPlaced

LEMMA UpdateInv == ASSUME Inv, Update PROVE Inv'
<1>1. CASE ResizeSkipped
  BY <1>1, GotoInv, SameCloud, EntryKnown DEF Inv, ResizeSkipped, PCs, EntryPCs
<1>2. CASE ResizeRejected
  BY <1>2, FailInv, SameCloud DEF Inv, ResizeRejected
<1>3. CASE ResizeAccepted
  <2>1. entry \in Ids /\ entry # NoId
    BY <1>3, EntryKnown DEF ResizeAccepted, EntryPCs
  <2>2. /\ cloud' \in [Ids -> Instance]
        /\ \A j \in Ids : Exists(j)' <=> Exists(j)
    BY <1>3, <2>1, RequestExists
    DEF Inv, ResizeAccepted, Editable, Status, Busy
  <2> QED BY <1>3, <2>1, <2>2, GotoInv DEF ResizeAccepted, PCs, EntryPCs
<1>4. CASE ResizeReplyLost
  <2>1. entry \in Ids
    BY <1>4, EntryKnown DEF ResizeReplyLost, EntryPCs
  <2>2. /\ cloud' \in [Ids -> Instance]
        /\ \A j \in Ids : Exists(j)' <=> Exists(j)
    BY <1>4, <2>1, RequestExists
    DEF Inv, ResizeReplyLost, Editable, Status, Busy
  <2> QED BY <1>4, <2>2, FailInv DEF ResizeReplyLost
<1>5. CASE ResizeDone
  BY <1>5, GotoInv, SameCloud, EntryKnown DEF Inv, ResizeDone, PCs, EntryPCs
<1>6. CASE ConfSkipped
  BY <1>6, CommitInv DEF ConfSkipped, EntryPCs
<1>7. CASE ConfRejected
  BY <1>7, FailInv, SameCloud DEF Inv, ConfRejected
<1>8. CASE ConfAccepted
  <2>1. entry \in Ids /\ entry # NoId
    BY <1>8, EntryKnown DEF ConfAccepted, EntryPCs
  <2>2. /\ cloud' \in [Ids -> Instance]
        /\ \A j \in Ids : Exists(j)' <=> Exists(j)
    BY <1>8, <2>1, RequestExists
    DEF Inv, ConfAccepted, Editable, Status, Busy
  <2> QED BY <1>8, <2>1, <2>2, GotoInv DEF ConfAccepted, PCs, EntryPCs
<1>9. CASE ConfReplyLost
  <2>1. entry \in Ids
    BY <1>9, EntryKnown DEF ConfReplyLost, EntryPCs
  <2>2. /\ cloud' \in [Ids -> Instance]
        /\ \A j \in Ids : Exists(j)' <=> Exists(j)
    BY <1>9, <2>1, RequestExists
    DEF Inv, ConfReplyLost, Editable, Status, Busy
  <2> QED BY <1>9, <2>2, FailInv DEF ConfReplyLost
<1>10. CASE ConfDone
  BY <1>10, CommitInv DEF ConfDone, EntryPCs
<1> QED BY <1>1, <1>2, <1>3, <1>4, <1>5, <1>6, <1>7, <1>8, <1>9, <1>10
    DEF Update

LEMMA DeletedInv ==
  ASSUME Inv, pc \in {"delete", "deleteWait"}, ~Exists(entry), Deleted
  PROVE  Inv'
<1>1. TypeOK'
  BY ConfigAssumption DEF Inv, TypeOK, Deleted, env, PCs
<1>2. HandlersWellPlaced'
  BY DEF Inv, HandlersWellPlaced, Deleted, EntryPCs
<1>3. NoSilentOrphan'
  <2> SUFFICES ASSUME NEW i \in Ids, Exists(i)
               PROVE  i \in disclosed' \cup {entry', made'}
    BY DEF NoSilentOrphan, Deleted, Exists
  <2>1. i # entry /\ i \in disclosed \cup {entry, made}
    BY DEF Inv, NoSilentOrphan
  <2> QED BY <2>1 DEF Deleted
<1>4. HeldOnce'
  BY DEF HeldOnce, Deleted
<1> QED BY <1>1, <1>2, <1>3, <1>4 DEF Inv

LEMMA DeleteInv == ASSUME Inv, Delete PROVE Inv'
<1>1. CASE DeleteFindsNone \/ DeleteDone
  BY <1>1, DeletedInv DEF DeleteFindsNone, DeleteDone
<1>2. CASE DeletePanics \/ DeleteRejected
  BY <1>2, FailInv, SameCloud DEF Inv, DeletePanics, DeleteRejected
<1>3. CASE DeleteGets
  BY <1>3, GotoInv, SameCloud, EntryKnown DEF Inv, DeleteGets, PCs, EntryPCs
<1>4. CASE DeleteAccepted \/ DeleteReplyLost
  <2>1. entry \in Ids /\ entry # NoId
    BY <1>4, EntryKnown DEF DeleteAccepted, DeleteReplyLost, EntryPCs
  <2>2. /\ cloud' \in [Ids -> Instance]
        /\ \A j \in Ids : Exists(j)' <=> Exists(j)
    BY <1>4, <2>1, MarkExists
    DEF Inv, DeleteAccepted, DeleteReplyLost, Editable, Status, Busy
  <2>3. CASE DeleteAccepted
    BY <2>1, <2>2, <2>3, GotoInv DEF DeleteAccepted, PCs, EntryPCs
  <2>4. CASE DeleteReplyLost
    BY <2>2, <2>4, FailInv DEF DeleteReplyLost
  <2> QED BY <1>4, <2>3, <2>4
<1> QED BY <1>1, <1>2, <1>3, <1>4 DEF Delete

-----------------------------------------------------------------------------
(* The user and the service.                                               *)

LEMMA UserInv ==
  ASSUME Inv, EditConfig \/ StartRun \/ \E i \in Ids : StartImport(i)
  PROVE  Inv'
<1>1. CASE EditConfig
  <2>1. TypeOK'
    <3>1. edits' \in 0 .. MaxEdits
      BY <1>1, BoundsAssumption DEF Inv, TypeOK, EditConfig
    <3>2. config' \in [want : BOOLEAN, attrs : Configs]
      BY <1>1 DEF EditConfig
    <3> QED BY <1>1, <3>1, <3>2 DEF Inv, TypeOK, EditConfig
  <2>2. HandlersWellPlaced' /\ HeldOnce'
    BY <1>1 DEF Inv, HandlersWellPlaced, HeldOnce, EditConfig, EntryPCs
  <2>3. NoSilentOrphan'
    BY <1>1 DEF Inv, NoSilentOrphan, EditConfig, Exists
  <2> QED BY <2>1, <2>2, <2>3 DEF Inv
<1>2. CASE StartRun
  BY <1>2, GotoInv, SameCloud DEF Inv, StartRun, PCs, EntryPCs
<1>3. ASSUME NEW i \in Ids, StartImport(i) PROVE Inv'
  <2>1. TypeOK'
    BY <1>3 DEF Inv, TypeOK, StartImport, env, PCs
  <2>2. HandlersWellPlaced'
    BY <1>3, IdsAssumption
    DEF Inv, HandlersWellPlaced, StartImport, EntryPCs
  <2>3. NoSilentOrphan'
    BY <1>3, IdsAssumption
    DEF Inv, NoSilentOrphan, HandlersWellPlaced, StartImport, Exists
  <2>4. HeldOnce'
    BY <1>3 DEF HeldOnce, StartImport
  <2> QED BY <2>1, <2>2, <2>3, <2>4 DEF Inv
<1> QED BY <1>1, <1>2, <1>3

(* What the service does by itself creates nothing, and what it ends is no *)
(* longer counted as left behind.                                          *)
LEMMA ServiceStep ==
  ASSUME Inv, Service
  PROVE  /\ TypeOK'
         /\ UNCHANGED <<entry, pc, made>>
         /\ \E i \in Ids :
              \/ /\ \A j \in Ids : Exists(j)' <=> Exists(j)
                 /\ UNCHANGED disclosed
              \/ /\ \A j \in Ids : Exists(j)' <=> j # i /\ Exists(j)
                 /\ disclosed' = disclosed \ {i}
<1> DEFINE Kept(i) ==
             /\ TypeOK'
             /\ UNCHANGED <<entry, pc, made>>
             /\ \/ /\ \A j \in Ids : Exists(j)' <=> Exists(j)
                   /\ UNCHANGED disclosed
                \/ /\ \A j \in Ids : Exists(j)' <=> j # i /\ Exists(j)
                   /\ disclosed' = disclosed \ {i}
<1>1. ASSUME NEW i \in Ids, Settle(i) PROVE Kept(i)
  <2>1. cloud' \in [Ids -> Instance] /\ \A j \in Ids : Exists(j)' <=> Exists(j)
    BY <1>1 DEF Inv, TypeOK, Settle, Completes, Exists, Instance, Status, Busy
  <2> QED BY <1>1, <2>1 DEF Inv, TypeOK, Settle, Completes, ServiceOnly, NoFault, env
<1>2. ASSUME NEW i \in Ids, LingersDeleted(i) PROVE Kept(i)
  <2>1. cloud' \in [Ids -> Instance] /\ \A j \in Ids : Exists(j)' <=> Exists(j)
    BY <1>2 DEF Inv, TypeOK, LingersDeleted, Exists, Instance, Status, Busy
  <2> QED BY <1>2, <2>1
          DEF Inv, TypeOK, LingersDeleted, ServiceOnly, NoFault, env
<1>3. ASSUME NEW i \in Ids, Vanish(i) PROVE Kept(i)
  <2>1. /\ cloud' \in [Ids -> Instance]
        /\ \A j \in Ids : Exists(j)' <=> j # i /\ Exists(j)
    BY <1>3, NoObjectType DEF Inv, TypeOK, Vanish, Disappears, Exists, NoObject
  <2>2. stale' \in BOOLEAN /\ settled' \in BOOLEAN
    BY <1>3 DEF Inv, TypeOK, Vanish, Disappears, Behind
  <2> QED BY <1>3, <2>1, <2>2
          DEF Inv, TypeOK, Vanish, Disappears, ServiceOnly, NoFault, env
<1>4. ASSUME NEW i \in Ids, Break(i) PROVE Kept(i)
  <2>1. PICK st \in {"ERROR", "ERROR_DELETING"} :
          Breaks(i, st) /\ cloud[i].status # "GONE"
    BY <1>4 DEF Break, Busy
  <2>2. cloud[i] \in Instance /\ DOMAIN cloud = Ids /\ st \in Status \ {"GONE"}
    BY DEF Inv, TypeOK, Status
  <2>3. cloud' = [cloud EXCEPT ![i].status = st, ![i].goal = cloud[i].attrs]
    BY <2>1 DEF Breaks
  <2>4. cloud' \in [Ids -> Instance]
    BY <2>2, <2>3 DEF Inv, TypeOK, Instance
  <2>5. ASSUME NEW j \in Ids PROVE Exists(j)' <=> Exists(j)
    BY <2>1, <2>2, <2>3 DEF Exists, Instance
  <2> QED BY <2>1, <2>4, <2>5, FaultType
          DEF Inv, TypeOK, Breaks, ServiceOnly, env
<1>5. ASSUME NEW i \in Ids, ExternalDelete(i) PROVE Kept(i)
  <2>1. cloud' \in [Ids -> Instance] /\ \A j \in Ids : Exists(j)' <=> Exists(j)
    BY <1>5, MarkExists
    DEF Inv, ExternalDelete, DeletedElsewhere, Editable, Status, Busy
  <2>2. stale' \in BOOLEAN /\ settled' \in BOOLEAN
    BY <1>5 DEF Inv, TypeOK, ExternalDelete, DeletedElsewhere, Behind
  <2> QED BY <1>5, <2>1, <2>2, FaultType
          DEF Inv, TypeOK, ExternalDelete, DeletedElsewhere, ServiceOnly, env
<1>6. ASSUME NEW i \in Ids, NEW f \in Fields, NEW v \in Values, Drift(i, f, v)
      PROVE  Kept(i)
  <2>1. cloud' \in [Ids -> Instance] /\ \A j \in Ids : Exists(j)' <=> Exists(j)
    <3> DEFINE at == [cloud[i].attrs EXCEPT ![f] = v]
               gl == [cloud[i].goal EXCEPT ![f] = v]
    <3>1. cloud[i] \in Instance /\ DOMAIN cloud = Ids
      BY DEF Inv, TypeOK
    <3>2. at \in Attrs /\ gl \in Attrs
      BY <3>1 DEF Instance, Attrs
    <3>3. cloud' = [cloud EXCEPT ![i].attrs = at, ![i].goal = gl]
      BY <1>6 DEF Drift, Drifts
    <3> HIDE DEF at, gl
    <3>4. cloud' \in [Ids -> Instance]
      BY <3>1, <3>2, <3>3 DEF Inv, TypeOK, Instance
    <3>5. ASSUME NEW j \in Ids PROVE Exists(j)' <=> Exists(j)
      BY <3>1, <3>3 DEF Exists, Instance
    <3> QED BY <3>4, <3>5
  <2>2. stale' \in BOOLEAN /\ settled' \in BOOLEAN
    BY <1>6 DEF Inv, TypeOK, Drift, Drifts, Behind
  <2> QED BY <1>6, <2>1, <2>2, FaultType
          DEF Inv, TypeOK, Drift, Drifts, ServiceOnly, env
<1>7. \E i \in Ids : Kept(i)
  BY <1>1, <1>2, <1>3, <1>4, <1>5, <1>6 DEF Service, Shown, Fields
<1> QED BY <1>7

LEMMA ServiceInv == ASSUME Inv, Service PROVE Inv'
<1>1. PICK i \in Ids :
        \/ /\ \A j \in Ids : Exists(j)' <=> Exists(j)
           /\ UNCHANGED disclosed
        \/ /\ \A j \in Ids : Exists(j)' <=> j # i /\ Exists(j)
           /\ disclosed' = disclosed \ {i}
  BY ServiceStep
<1>2. TypeOK' /\ UNCHANGED <<entry, pc, made>>
  BY ServiceStep
<1>3. HandlersWellPlaced'
  BY <1>2 DEF Inv, HandlersWellPlaced
<1>4. NoSilentOrphan'
  BY <1>1, <1>2 DEF Inv, NoSilentOrphan
<1>5. HeldOnce'
  <2>1. pc = "import" => made \in Ids
    BY DEF Inv, TypeOK, HandlersWellPlaced
  <2> QED BY <1>1, <1>2, <2>1 DEF Inv, HeldOnce
<1> QED BY <1>2, <1>3, <1>4, <1>5 DEF Inv

-----------------------------------------------------------------------------
(* The theorems.                                                           *)

LEMMA NextInv == Inv /\ [Next]_vars => Inv'
<1> SUFFICES ASSUME Inv, [Next]_vars PROVE Inv'
  OBVIOUS
<1>1. CASE UNCHANGED vars
  <2>1. TypeOK'
    BY <1>1 DEF Inv, TypeOK, vars
  <2>2. HandlersWellPlaced' /\ NoSilentOrphan' /\ HeldOnce'
    BY <1>1
    DEF Inv, HandlersWellPlaced, NoSilentOrphan, HeldOnce, Exists, vars
  <2> QED BY <2>1, <2>2 DEF Inv
<1>2. CASE EditConfig \/ StartRun \/ \E i \in Ids : StartImport(i)
  BY <1>2, UserInv
<1>3. CASE Handler
  <2>1. CASE Poll
    BY <2>1, FailInv, SameCloud DEF Inv, Poll, PollFails, PollSeesError
  <2> QED BY <1>3, <2>1, TerraformInv, CreateInv, ReadInv, UpdateInv, DeleteInv
          DEF Handler
<1>4. CASE Timeout \/ Crash
  BY <1>4, FailInv, SameCloud DEF Inv, Timeout, Crash
<1>5. CASE Service
  BY <1>5, ServiceInv
<1> QED BY <1>1, <1>2, <1>3, <1>4, <1>5 DEF Next

LEMMA Invariant == Spec => []Inv
BY InitInv, NextInv, PTL DEF Spec

(* Every variable keeps its type, whatever the service does and however    *)
(* often it fails (the handlers and Terraform's bookkeeping around them).  *)
THEOREM TypeCorrect == Spec => []TypeOK
<1>1. Inv => TypeOK
  BY DEF Inv
<1> QED BY Invariant, <1>1, PTL

(* The CRUD handlers run only where they have what they need.              *)
THEOREM WellPlaced == Spec => []HandlersWellPlaced
<1>1. Inv => HandlersWellPlaced
  BY DEF Inv
<1> QED BY Invariant, <1>1, PTL

(* No instance the service still has is ever lost without an error.        *)
THEOREM NothingLost == Spec => []NoSilentOrphan
<1>1. Inv => NoSilentOrphan
  BY DEF Inv
<1> QED BY Invariant, <1>1, PTL

-----------------------------------------------------------------------------
(* The refinement of ResourceLedger.                                       *)

LiveIds == {i \in Ids : Exists(i)}

(* A handler that fails lets go of what it held, or changes nothing. *)
LEMMA FailLedger ==
  ASSUME Inv, Fail, \A i \in Ids : Exists(i)' <=> Exists(i)
  PROVE  Ledger!LetGo \/ UNCHANGED Ledger!ledger
<1>1. LiveIds' = LiveIds
  BY DEF LiveIds
<1>2. CASE made = NoId
  BY <1>1, <1>2 DEF Fail, Ledger!ledger, LiveIds
<1>3. CASE made # NoId
  <2>1. made \in Ids
    BY <1>3 DEF Inv, TypeOK
  <2>2. {i \in {made} : i # NoId /\ Exists(i)} = {made} \cap LiveIds
    BY <1>3, <2>1 DEF LiveIds
  <2> QED BY <1>1, <1>3, <2>2 DEF Fail, Ledger!LetGo, LiveIds
<1> QED BY <1>2, <1>3

LEMMA GotoLedger ==
  ASSUME NEW l, Goto(l), \A i \in Ids : Exists(i)' <=> Exists(i)
  PROVE  UNCHANGED Ledger!ledger
BY DEF Goto, Ledger!ledger

LEMMA CreateLedger ==
  ASSUME Inv, Create PROVE Ledger!Next \/ UNCHANGED Ledger!ledger
<1>1. CASE CreateRejected
  BY <1>1, FailLedger, SameCloud DEF Inv, CreateRejected, Ledger!Next
<1>2. ASSUME NEW i \in Ids, CreateAccepted(i) \/ CreateReplyLost(i)
      PROVE  Ledger!Create(i)
  <2>1. entry = NoId /\ made = NoId /\ ~Exists(i)
    BY <1>2 DEF Inv, HandlersWellPlaced, CreateAccepted, CreateReplyLost,
                MayCreate, Fresh
  <2>2. LiveIds' = LiveIds \cup {i}
    BY <1>2 DEF Inv, TypeOK, CreateAccepted, CreateReplyLost, MayCreate,
                LiveIds, Exists, NewInstance
  <2>3. i \notin LiveIds
    BY <2>1 DEF LiveIds
  <2> QED BY <1>2, <2>1, <2>2, <2>3
          DEF CreateAccepted, CreateReplyLost, Ledger!Create, LiveIds
<1>3. CASE CreateDone
  <2>1. entry = NoId /\ made \in Ids /\ made \notin disclosed
    BY <1>3 DEF Inv, TypeOK, HandlersWellPlaced, HeldOnce, CreateDone
  <2>2. made \in LiveIds /\ LiveIds' = LiveIds
    BY <1>3, <2>1 DEF CreateDone, LiveIds, Exists
  <2>3. Ledger!Record
    BY <1>3, <2>1, <2>2 DEF CreateDone, Ledger!Record, LiveIds
  <2> QED BY <2>3 DEF Ledger!Next
<1> QED BY <1>1, <1>2, <1>3 DEF Create, Ledger!Next

LEMMA ReadLedger ==
  ASSUME Inv, Read PROVE Ledger!Next \/ UNCHANGED Ledger!ledger
<1>1. CASE ReadOk
  BY <1>1 DEF ReadOk, Ledger!ledger, Exists
<1>2. CASE ReadFails
  BY <1>2, FailLedger, SameCloud DEF Inv, ReadFails, Ledger!Next
<1>3. CASE ImportOk
  <2>1. entry = NoId /\ made \in Ids
    BY <1>3 DEF Inv, TypeOK, HandlersWellPlaced, ImportOk
  <2>2. made \in LiveIds /\ LiveIds' = LiveIds
    BY <1>3, <2>1 DEF ImportOk, LiveIds, Exists
  <2>3. Ledger!Record
    BY <1>3, <2>1, <2>2 DEF ImportOk, Ledger!Record, LiveIds
  <2> QED BY <2>3 DEF Ledger!Next
<1>4. CASE ImportFails
  <2>1. made # NoId /\ (Exists(made) => made \in disclosed)
    BY <1>4 DEF Inv, HandlersWellPlaced, HeldOnce, ImportFails
  <2>2. LiveIds' = LiveIds
    BY <1>4 DEF ImportFails, LiveIds, Exists
  <2>3. disclosed \cup ({made} \cap LiveIds) = disclosed
    BY <2>1 DEF LiveIds
  <2>4. Ledger!LetGo
    BY <1>4, <2>1, <2>2, <2>3 DEF ImportFails, Ledger!LetGo, LiveIds
  <2> QED BY <2>4 DEF Ledger!Next
<1> QED BY <1>1, <1>2, <1>3, <1>4 DEF Read

LEMMA UpdateLedger ==
  ASSUME Inv, Update PROVE Ledger!Next \/ UNCHANGED Ledger!ledger
<1>1. CASE ResizeSkipped \/ ResizeDone
  BY <1>1, GotoLedger, SameCloud DEF Inv, ResizeSkipped, ResizeDone
<1>2. CASE ResizeRejected \/ ConfRejected
  BY <1>2, FailLedger, SameCloud
  DEF Inv, ResizeRejected, ConfRejected, Ledger!Next
<1>3. CASE \/ ResizeAccepted \/ ConfAccepted
           \/ ResizeReplyLost \/ ConfReplyLost
  <2>1. entry \in Ids
    BY <1>3, EntryKnown DEF ResizeAccepted, ConfAccepted, ResizeReplyLost,
                            ConfReplyLost, EntryPCs
  <2>2. PICK fs \in SUBSET Fields, s \in Status \ {"GONE"} :
          Exists(entry) /\ Request(entry, fs, s)
    <3>1. ResizeRequest \in SUBSET Fields /\ UpdateRequest \in SUBSET Fields
      BY DEF ResizeRequest, UpdateRequest, ResizeFields, UpdateFields, Fields, Shown
    <3>2. {"RESIZING", "PENDING"} \subseteq Status \ {"GONE"}
      BY DEF Status, Busy
    <3> QED
      BY <1>3, <3>1, <3>2 DEF ResizeAccepted, ConfAccepted, ResizeReplyLost,
                              ConfReplyLost, Editable
  <2>3. \A j \in Ids : Exists(j)' <=> Exists(j)
    BY <2>1, <2>2, RequestExists DEF Inv
  <2>4. CASE ResizeAccepted \/ ConfAccepted
    BY <2>3, <2>4, GotoLedger DEF ResizeAccepted, ConfAccepted
  <2>5. CASE ResizeReplyLost \/ ConfReplyLost
    BY <2>3, <2>5, FailLedger DEF ResizeReplyLost, ConfReplyLost, Ledger!Next
  <2> QED BY <1>3, <2>4, <2>5
<1>4. CASE ConfSkipped \/ ConfDone
  BY <1>4 DEF ConfSkipped, ConfDone, Commit, Ledger!ledger, Exists
<1> QED BY <1>1, <1>2, <1>3, <1>4 DEF Update

LEMMA DeleteLedger ==
  ASSUME Inv, Delete PROVE Ledger!Next \/ UNCHANGED Ledger!ledger
<1>1. CASE DeleteFindsNone \/ DeleteDone
  <2>1. entry \in Ids /\ entry # NoId
    BY <1>1, EntryKnown DEF DeleteFindsNone, DeleteDone, EntryPCs
  <2>2. entry \notin LiveIds /\ LiveIds' = LiveIds
    BY <1>1, <2>1 DEF DeleteFindsNone, DeleteDone, Deleted, LiveIds, Exists
  <2>3. Ledger!StrikeOff
    BY <1>1, <2>1, <2>2
    DEF DeleteFindsNone, DeleteDone, Deleted, Ledger!StrikeOff, LiveIds
  <2> QED BY <2>3 DEF Ledger!Next
<1>2. CASE DeletePanics \/ DeleteRejected
  BY <1>2, FailLedger, SameCloud
  DEF Inv, DeletePanics, DeleteRejected, Ledger!Next
<1>3. CASE DeleteGets
  BY <1>3, GotoLedger, SameCloud DEF Inv, DeleteGets
<1>4. CASE DeleteAccepted \/ DeleteReplyLost
  <2>1. entry \in Ids
    BY <1>4, EntryKnown DEF DeleteAccepted, DeleteReplyLost, EntryPCs
  <2>2. \A j \in Ids : Exists(j)' <=> Exists(j)
    BY <1>4, <2>1, MarkExists
    DEF Inv, DeleteAccepted, DeleteReplyLost, Editable, Status, Busy
  <2> QED BY <1>4, <2>2, GotoLedger, FailLedger
          DEF DeleteAccepted, DeleteReplyLost, Ledger!Next
<1> QED BY <1>1, <1>2, <1>3, <1>4 DEF Delete

LEMMA ServiceLedger ==
  ASSUME Inv, Service PROVE Ledger!Next \/ UNCHANGED Ledger!ledger
<1>1. UNCHANGED <<entry, made>>
  BY ServiceStep
<1>2. PICK i \in Ids :
        \/ /\ \A j \in Ids : Exists(j)' <=> Exists(j)
           /\ UNCHANGED disclosed
        \/ /\ \A j \in Ids : Exists(j)' <=> j # i /\ Exists(j)
           /\ disclosed' = disclosed \ {i}
  BY ServiceStep
<1>3. CASE (\A j \in Ids : Exists(j)' <=> Exists(j)) /\ UNCHANGED disclosed
  BY <1>1, <1>3 DEF Ledger!ledger
<1>4. CASE /\ \A j \in Ids : Exists(j)' <=> j # i /\ Exists(j)
           /\ disclosed' = disclosed \ {i}
  <2>1. LiveIds' = LiveIds \ {i}
    BY <1>4 DEF LiveIds
  <2>2. Ledger!Disappear(i)
    BY <1>1, <1>4, <2>1 DEF Ledger!Disappear, LiveIds
  <2> QED BY <2>2 DEF Ledger!Next
<1> QED BY <1>2, <1>3, <1>4

LEMMA NextLedger ==
  Inv /\ [Next]_vars => [Ledger!Next]_(Ledger!ledger)
<1> SUFFICES ASSUME Inv, [Next]_vars
             PROVE  Ledger!Next \/ UNCHANGED Ledger!ledger
  OBVIOUS
<1>1. CASE UNCHANGED vars \/ EditConfig
  BY <1>1 DEF vars, EditConfig, Ledger!ledger, Exists
<1>2. CASE StartRun
  BY <1>2, GotoLedger, SameCloud DEF Inv, StartRun
<1>3. ASSUME NEW i \in Ids, StartImport(i) PROVE Ledger!Next
  <2>1. made = NoId /\ LiveIds' = LiveIds
    BY <1>3 DEF Inv, HandlersWellPlaced, StartImport, LiveIds, Exists
  <2>2. Ledger!TakeUp(i)
    BY <1>3, <2>1 DEF StartImport, Ledger!TakeUp, LiveIds
  <2> QED BY <2>2 DEF Ledger!Next
<1>4. CASE Terraform
  <2>1. CASE PlanNothing
    BY <2>1 DEF PlanNothing, NothingPlanned, Ledger!ledger, Exists
  <2>2. CASE PlanCreate \/ PlanUpdate \/ PlanDelete
    BY <2>2, GotoLedger, SameCloud DEF Inv, PlanCreate, PlanUpdate, PlanDelete, CreatePlanned,
               UpdatePlanned, DeletePlanned
  <2> QED BY <1>4, <2>1, <2>2 DEF Terraform
<1>5. CASE Poll \/ Timeout \/ Crash
  BY <1>5, FailLedger, SameCloud
  DEF Inv, Poll, PollFails, PollSeesError, Timeout, Crash, Ledger!Next
<1>6. CASE Handler
  BY <1>4, <1>5, <1>6, CreateLedger, ReadLedger, UpdateLedger, DeleteLedger
  DEF Handler
<1>7. CASE Service
  BY <1>7, ServiceLedger
<1> QED BY <1>1, <1>2, <1>3, <1>5, <1>6, <1>7 DEF Next

(* The resource keeps the ledger's promise: it creates an instance only    *)
(* while the state records none, strikes one off only when the service no  *)
(* longer has it, and every instance in between is held by the running     *)
(* handler or was disclosed by a run that failed.                          *)
THEOREM RefinesLedger == Spec => KeepsLedger
<1>1. Init => Ledger!Init
  BY DEF Init, Ledger!Init, Exists, NoObject
<1> QED BY <1>1, Invariant, NextLedger, PTL DEF Spec, KeepsLedger, Ledger!Spec
=============================================================================
