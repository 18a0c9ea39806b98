---------------------------- MODULE DBaaSInstance ----------------------------
(***************************************************************************)
(* The life of one mgc_dbaas_instances resource                            *)
(* (mgc/database/resource_instances.go): the Create, Read, Update, Delete  *)
(* and ImportState handlers, each taken apart at its API calls, run        *)
(* between Terraform and a DBaaS service (ManagedResource) that is slow,   *)
(* may refuse a request, may carry one out and lose the answer, may let an *)
(* instance fail, and may change or delete it behind the provider's back.  *)
(*                                                                         *)
(* An instance's attributes are the groups that the code treats alike:     *)
(*   engine   engine_name, engine_version (and name: fixed at creation)    *)
(*   zone     availability_zone (volume_type, sent in every creating       *)
(*            request, is left out)                                        *)
(*   type, volume            what Resize changes                           *)
(*   backup   backup_retention_days, backup_start_at                       *)
(*   group    parameter_group                                              *)
(*   protect  deletion_protected                                           *)
(*   snapshot snapshot_id, snapshot_source_id: what the instance was made  *)
(*            from, remembered by the state alone                          *)
(***************************************************************************)
EXTENDS ManagedResource

CONSTANTS
  Values,     \* values an attribute may have
  Zero,       \* the Go zero value of an attribute
  Unset,      \* a null: not configured, or recorded as null
  Unknown     \* "known after apply", in a plan only

Shown == {"engine", "zone", "type", "volume", "backup", "group", "protect"}
Fields == Shown \cup {"snapshot"}
Attrs == [Fields -> Values \cup {Zero}]

(* The schema: which attributes force a replacement, which may be left out *)
(* of the configuration and, of these, which keep the recorded value when  *)
(* the configuration says nothing.                                         *)
ReplaceFields == {"engine", "zone", "snapshot"}
ComputedFields == {"engine", "zone", "backup", "group", "protect"}
KeepsState == {"zone", "group", "protect"}
ResizeFields == {"type", "volume"}
UpdateFields == {"backup", "group", "protect"}

(* What a creating request carries: everything for a new instance; when a  *)
(* snapshot is restored the engine, the zone, the parameter group and the  *)
(* protection are not sent.                                                *)
RestoreFields == {"type", "volume", "backup"}
Restores(attrs) == attrs["snapshot"] # Unset
SentFields == IF Restores(config.attrs) THEN RestoreFields ELSE Shown

ASSUME MarksAssumption ==
  /\ {Zero, Unset, Unknown} \cap Values = {}
  /\ Zero # Unset /\ Zero # Unknown /\ Unset # Unknown
ASSUME ConfigAssumption ==
  /\ Default \in [Fields -> Values]
  /\ Configs \subseteq [Fields -> Values \cup {Unset}]
  /\ \A c \in Configs, f \in Fields :
        c[f] = Unset => f \in ComputedFields \cup {"snapshot"}
  /\ \A c \in Configs :
        Restores(c) => c["engine"] \in {Unset, Default["engine"]}

Busy == {"CREATING", "RESIZING", "PENDING"}   \* settle to ACTIVE or ERROR
Status == Busy \cup {"ACTIVE", "DELETING", "DELETED", "ERROR",
                     "ERROR_DELETING", "GONE"}
Instance == [status : Status, attrs : Attrs, goal : Attrs]

IsAnyError(i) == cloud[i].status \in {"ERROR", "ERROR_DELETING"}
Editable(i) == Exists(i) /\ cloud[i].status \notin {"DELETING", "DELETED"}

StatusWaits == {"createWait", "resizeWait", "confWait"}
EntryPCs == {"read", "resize", "resizeWait", "conf", "confWait", "delete",
             "deleteCall", "deleteWait"}
PCs == {"idle", "import", "plan", "create", "createWait"} \cup EntryPCs

-----------------------------------------------------------------------------
(* The plan.                                                               *)

(* The planned attributes: the configured value; for a computed attribute  *)
(* left out the recorded one, unless something else changes and its plan   *)
(* modifiers do not keep it.                                               *)
HasDiff ==
  \E f \in Fields : /\ config.attrs[f] # known[f]
                    /\ config.attrs[f] = Unset => f \notin ComputedFields
Planned ==
  [f \in Fields |->
     IF config.attrs[f] # Unset \/ f \notin ComputedFields THEN config.attrs[f]
     ELSE IF f \in KeepsState \/ ~HasDiff THEN known[f] ELSE Unknown]
Replaces == \E f \in ReplaceFields : Planned[f] # known[f]

PlanNothing == NothingPlanned(Planned)
PlanCreate == CreatePlanned
PlanUpdate == UpdatePlanned(Planned, Replaces, "resize")
PlanDelete == DeletePlanned(Replaces)

-----------------------------------------------------------------------------
(* Create                                                                  *)

NewInstance ==
  LET a == [f \in Fields |->
              IF f \in SentFields /\ config.attrs[f] # Unset
              THEN config.attrs[f] ELSE Default[f]]
  IN  [status |-> "CREATING", attrs |-> a, goal |-> a]

EngineKnown == Restores(config.attrs) \/ config.attrs["engine"] # Unset

(* The engine and type lookups, the lookups of the snapshot's source and   *)
(* the POST itself can all fail before anything exists.                    *)
CreateRejected ==
  /\ pc = "create"
  /\ \/ Fault
     \/ NoFault /\ \A i \in Ids : ~Fresh(i)
     \/ NoFault /\ ~EngineKnown
  /\ Fail /\ UNCHANGED cloud

MayCreate(i) ==
  /\ pc = "create" /\ Fresh(i)
  /\ EngineKnown
  /\ cloud' = [cloud EXCEPT ![i] = NewInstance]

CreateAccepted(i) ==
  /\ MayCreate(i)
  /\ made' = i /\ pc' = "createWait" /\ stale' = FALSE
  /\ UNCHANGED <<entry, known, disclosed, settled, faults, env>>

(* The instance is created and the answer does not arrive: the handler     *)
(* reports an error and never learns the identifier.                       *)
CreateReplyLost(i) ==
  /\ MayCreate(i) /\ Fault
  /\ pc' = "idle" /\ stale' = TRUE
  /\ disclosed' = disclosed \cup {i}
  /\ UNCHANGED <<entry, known, made, settled, env>>

(* What Create records is the configuration, not the instance: only the    *)
(* protection of a new instance, and the engine of a restored one, are     *)
(* what the service answered.                                              *)
CreateRecord ==
  LET read == IF Restores(config.attrs) THEN "engine" ELSE "protect"
  IN  [config.attrs EXCEPT ![read] = cloud[made].attrs[read]]

CreateDone ==
  /\ pc = "createWait" /\ cloud[made].status = "ACTIVE"
  /\ entry' = made /\ known' = CreateRecord
  /\ made' = NoId /\ pc' = "idle" /\ settled' = ~stale
  /\ UNCHANGED <<cloud, disclosed, stale, faults, env>>

-----------------------------------------------------------------------------
(* Read and ImportState                                                    *)

(* Neither looks at the status: attributes read in the middle of a change  *)
(* are recorded although they are about to be replaced.  The snapshot is   *)
(* no part of the answer: Read keeps what the state has, an import nothing.*)
ReadRecord(i, snapshot) == [cloud[i].attrs EXCEPT !["snapshot"] = snapshot]

ReadOkOldType ==                     \* bug: the type is not refreshed
  /\ pc = "read" /\ Exists(entry)
  /\ known' = [ReadRecord(entry, known["snapshot"]) EXCEPT !["type"] = known["type"]]
  /\ stale' = MidChange(entry) /\ pc' = "plan"
  /\ UNCHANGED <<cloud, entry, made, disclosed, settled, faults, env>>
ReadOk ==
  /\ pc = "read" /\ Exists(entry)
  /\ known' = ReadRecord(entry, known["snapshot"])
  /\ stale' = MidChange(entry) /\ pc' = "plan"
  /\ UNCHANGED <<cloud, entry, made, disclosed, settled, faults, env>>

(* Any error of the Get, the 404 of a deleted instance included, ends the  *)
(* run: the entry is never removed by a refresh.                           *)
ReadFails ==
  /\ pc = "read"
  /\ Fault \/ (NoFault /\ ~Exists(entry))
  /\ Fail /\ UNCHANGED cloud

ImportOk ==
  /\ pc = "import" /\ Exists(made)
  /\ entry' = made /\ known' = ReadRecord(made, Unset)
  /\ made' = NoId /\ disclosed' = disclosed \ {made}
  /\ stale' = MidChange(made) /\ pc' = "idle"
  /\ UNCHANGED <<cloud, settled, faults, env>>

ImportFails ==
  /\ pc = "import"
  /\ Fault \/ (NoFault /\ ~Exists(made))
  /\ pc' = "idle" /\ made' = NoId
  /\ UNCHANGED <<cloud, entry, known, disclosed, stale, settled, env>>

-----------------------------------------------------------------------------
(* Update: a Resize and its wait, then an Update and its wait.             *)

(* ValueString, ValueInt64 and ValueBool read null and unknown as zero. *)
GoValue(v) == IF v \in {Unset, Unknown} THEN Zero ELSE v
Differs(f) == GoValue(Planned[f]) # GoValue(known[f])
NeedsResize == \E f \in ResizeFields : Differs(f)
NeedsUpdate == \E f \in UpdateFields : Differs(f)

(* Resize carries the attributes that differ; Update carries the three it  *)
(* can change, the protection only when it is known.                       *)
ResizeRequest == {f \in ResizeFields : Differs(f)}
UpdateRequestNoGroup ==              \* bug: the parameter group is not sent
  {f \in UpdateFields \ {"group"} : Planned[f] \notin {Unset, Unknown}}
UpdateRequest ==
  {f \in UpdateFields :
     Planned[f] # Unset /\ (f = "protect" => Planned[f] # Unknown)}

Request(i, fs, status) ==
  cloud' = [cloud EXCEPT
              ![i].status = status,
              ![i].goal = [f \in Fields |-> IF f \in fs THEN GoValue(Planned[f])
                                            ELSE cloud[i].goal[f]]]

(* The recorded attributes at the end: those the plan changed, the others  *)
(* as they were.  An attribute still unknown is refused by Terraform,      *)
(* which reports it and records a null.                                    *)
UpdateRecordKeepsUnknown ==          \* bug: no null for an unknown
  [f \in Fields |->
     IF f \in UpdateFields /\ ~NeedsUpdate THEN known[f] ELSE Planned[f]]
UpdateRecordForgetsResize ==         \* bug: stateData not given the new size
  [f \in Fields |->
     IF f \notin UpdateFields \/ ~NeedsUpdate THEN known[f]
     ELSE IF Planned[f] = Unknown THEN Unset ELSE Planned[f]]
UpdateRecord ==
  [f \in Fields |->
     IF f \notin ResizeFields \cup UpdateFields THEN known[f]
     ELSE IF f \in UpdateFields /\ ~NeedsUpdate THEN known[f]
     ELSE IF Planned[f] = Unknown THEN Unset ELSE Planned[f]]

Commit ==
  /\ pc' = "idle" /\ known' = UpdateRecord
  /\ settled' = (~stale /\ Unset \notin {known'[f] : f \in Shown})
  /\ UNCHANGED <<entry, made, disclosed, stale, env>>

ResizeSkipped ==
  /\ pc = "resize" /\ ~NeedsResize
  /\ Goto("conf") /\ NoFault /\ UNCHANGED cloud

(* The lookup of the type, or the call. *)
ResizeRejected ==
  /\ pc = "resize" /\ NeedsResize
  /\ Fault \/ (NoFault /\ ~Editable(entry))
  /\ Fail /\ UNCHANGED cloud

ResizeAccepted ==
  /\ pc = "resize" /\ NeedsResize /\ Editable(entry)
  /\ Request(entry, ResizeRequest, "RESIZING")
  /\ Goto("resizeWait") /\ NoFault

ResizeReplyLost ==
  /\ pc = "resize" /\ NeedsResize /\ Editable(entry)
  /\ Request(entry, ResizeRequest, "RESIZING")
  /\ Fault /\ Fail

ResizeDoneAtOnce ==                  \* bug: any status but an error will do
  /\ pc = "resizeWait" /\ Exists(entry) /\ ~IsAnyError(entry)
  /\ Goto("conf") /\ NoFault /\ UNCHANGED cloud
ResizeDone ==
  /\ pc = "resizeWait" /\ cloud[entry].status = "ACTIVE"
  /\ Goto("conf") /\ NoFault /\ UNCHANGED cloud

ConfSkipped ==
  /\ pc = "conf" /\ ~NeedsUpdate
  /\ Commit /\ NoFault /\ UNCHANGED cloud

(* A retention of zero days is out of the service's range: it may refuse. *)
ConfRejected ==
  /\ pc = "conf" /\ NeedsUpdate
  /\ \/ Fault
     \/ NoFault /\ ~Editable(entry)
     \/ NoFault /\ \E f \in UpdateRequest : GoValue(Planned[f]) = Zero
  /\ Fail /\ UNCHANGED cloud

ConfAccepted ==
  /\ pc = "conf" /\ NeedsUpdate /\ Editable(entry)
  /\ Request(entry, UpdateRequest, "PENDING")
  /\ Goto("confWait") /\ NoFault

ConfReplyLost ==
  /\ pc = "conf" /\ NeedsUpdate /\ Editable(entry)
  /\ Request(entry, UpdateRequest, "PENDING")
  /\ Fault /\ Fail

ConfDone ==
  /\ pc = "confWait" /\ cloud[entry].status = "ACTIVE"
  /\ Commit /\ NoFault /\ UNCHANGED cloud

-----------------------------------------------------------------------------
(* Delete, and its three calls: Get, Delete, and Get until 404.            *)

DeleteFindsNone == pc = "delete" /\ ~Exists(entry) /\ Deleted

(* Another error of the Get is not looked at, and the nil instance is      *)
(* dereferenced: the provider process dies.                                *)
DeletePanics ==
  /\ pc = "delete" /\ Fault
  /\ Fail /\ UNCHANGED cloud

DeleteGets ==
  /\ pc = "delete" /\ Exists(entry)
  /\ Goto(IF cloud[entry].status = "DELETING" THEN "deleteWait"
          ELSE "deleteCall")
  /\ NoFault /\ UNCHANGED cloud

DeleteRejected ==
  /\ pc = "deleteCall"
  /\ Fault \/ (NoFault /\ ~Editable(entry))
  /\ Fail /\ UNCHANGED cloud

DeleteAccepted ==
  /\ pc = "deleteCall" /\ Editable(entry)
  /\ cloud' = [cloud EXCEPT ![entry].status = "DELETING"]
  /\ Goto("deleteWait") /\ NoFault

DeleteReplyLost ==
  /\ pc = "deleteCall" /\ Editable(entry)
  /\ cloud' = [cloud EXCEPT ![entry].status = "DELETING"]
  /\ Fault /\ Fail

DeleteDoneOnError ==                 \* bug: an error status taken for the end
  /\ pc = "deleteWait" /\ (~Exists(entry) \/ IsAnyError(entry))
  /\ Deleted
DeleteDone == pc = "deleteWait" /\ ~Exists(entry) /\ Deleted

-----------------------------------------------------------------------------
(* The two polling loops.  A poll that finds nothing new changes nothing.  *)

Target == IF pc = "createWait" THEN made ELSE entry

PollFails ==
  /\ pc \in StatusWaits \cup {"deleteWait"}
  /\ Fault \/ (NoFault /\ pc \in StatusWaits /\ ~Exists(Target))
  /\ Fail /\ UNCHANGED cloud

PollSeesError ==
  /\ pc \in StatusWaits \cup {"deleteWait"} /\ IsAnyError(Target)
  /\ Fail /\ NoFault /\ UNCHANGED cloud

(* instanceStatusTimeout: the service may be arbitrarily slow. *)
TimeoutNotOnDelete ==                \* bug: no timeout in the second loop
  /\ pc \in StatusWaits
  /\ Fail /\ NoFault /\ UNCHANGED cloud
Timeout ==
  /\ pc \in StatusWaits \cup {"deleteWait"}
  /\ Fail /\ NoFault /\ UNCHANGED cloud

-----------------------------------------------------------------------------
(* The service                                                             *)

Settle(i) == Completes(i, Busy, "ACTIVE")

(* A deleted instance may be reported DELETED before it is not found. *)
LingersDeleted(i) ==
  /\ cloud[i].status = "DELETING"
  /\ cloud' = [cloud EXCEPT ![i].status = "DELETED"]
  /\ ServiceOnly /\ UNCHANGED <<disclosed, stale, settled>> /\ NoFault

Vanish(i) == cloud[i].status \in {"DELETING", "DELETED"} /\ Disappears(i)

Break(i) ==
  \/ cloud[i].status \in Busy /\ Breaks(i, "ERROR")
  \/ cloud[i].status = "DELETING" /\ Breaks(i, "ERROR_DELETING")

Drift(i, f, v) == cloud[i].status = "ACTIVE" /\ Drifts(i, f, v)

ExternalDelete(i) == Editable(i) /\ DeletedElsewhere(i, "DELETING")

-----------------------------------------------------------------------------
Terraform ==
  \/ PlanNothing \/ PlanCreate \/ PlanUpdate \/ PlanDelete

Create == CreateRejected \/ CreateDone \/ \E i \in Ids :
             CreateAccepted(i) \/ CreateReplyLost(i)
Read == ReadOk \/ ReadFails \/ ImportOk \/ ImportFails
Update ==
  \/ ResizeSkipped \/ ResizeRejected \/ ResizeAccepted \/ ResizeReplyLost
  \/ ResizeDone
  \/ ConfSkipped \/ ConfRejected \/ ConfAccepted \/ ConfReplyLost \/ ConfDone
Delete ==
  \/ DeleteFindsNone \/ DeletePanics \/ DeleteGets
  \/ DeleteRejected \/ DeleteAccepted \/ DeleteReplyLost \/ DeleteDone
Poll == PollFails \/ PollSeesError

Handler == Terraform \/ Create \/ Read \/ Update \/ Delete \/ Poll

Service ==
  \E i \in Ids :
     \/ Settle(i) \/ LingersDeleted(i) \/ Vanish(i) \/ Break(i) \/ ExternalDelete(i)
     \/ \E f \in Shown, v \in Values : Drift(i, f, v)

Next ==
  \/ EditConfig \/ StartRun \/ \E i \in Ids : StartImport(i)
  \/ Handler \/ Timeout \/ Crash \/ Service

Spec == Init /\ [][Next]_vars

(* A handler always takes its next step, and the clock of a polling loop   *)
(* always runs out.                                                        *)
HandlerFairness == WF_vars(Handler) /\ WF_vars(Timeout)

(* The user applies again, and the service completes what it has accepted. *)
RetryFairness ==
  /\ WF_vars(StartRun)
  /\ \A i \in Ids : WF_vars(Settle(i)) /\ WF_vars(Vanish(i))

FairSpec == Spec /\ HandlerFairness

-----------------------------------------------------------------------------
(* Properties                                                              *)

TypeOK ==
  /\ cloud \in [Ids -> Instance]
  /\ entry \in Ids \cup {NoId} /\ made \in Ids \cup {NoId}
  /\ known \in [Fields -> Values \cup {Zero, Unset}]
  /\ config \in [want : BOOLEAN, attrs : Configs]
  /\ pc \in PCs
  /\ disclosed \subseteq Ids
  /\ stale \in BOOLEAN /\ settled \in BOOLEAN
  /\ faults \in 0 .. MaxFaults /\ edits \in 0 .. MaxEdits

(* Each handler runs on what it needs: Read, Update and Delete only with   *)
(* an entry, Create only without one and, while it waits, with the         *)
(* identifier it was given (the dispatch of the four CRUD handlers).       *)
HandlersWellPlaced ==
  /\ pc \in EntryPCs => entry # NoId
  /\ pc \in {"create", "createWait", "import"} => entry = NoId
  /\ made # NoId <=> pc \in {"createWait", "import"}

(* No instance is ever lost without the user being told: one that exists   *)
(* is in the state, in the hands of the running handler, or was named by a *)
(* run that ended with an error (Create's early returns, Delete's          *)
(* successful ones).                                                       *)
NoSilentOrphan ==
  \A i \in Ids : Exists(i) => i \in disclosed \cup {entry, made}

(* When nothing moved behind the provider's back since the refresh, what   *)
(* the state records of an attribute is what the instance has; what is     *)
(* recorded of a restored instance is exempt where the restoring request   *)
(* says nothing.                                                           *)
RecordAgrees ==
  pc \in {"idle", "plan", "resize", "delete"} /\ entry # NoId /\ ~stale =>
    \A f \in Shown :
      \/ known[f] \in {Unset, cloud[entry].attrs[f]}
      \/ Restores(known) /\ f \notin RestoreFields

(* The Update request is sent only when the Resize before it has taken     *)
(* effect (the wait between the two calls of Update).                      *)
UpdateAfterResize ==
  pc = "conf" /\ NeedsResize /\ ~stale =>
    /\ cloud[entry].status = "ACTIVE"
    /\ \A f \in ResizeFields : cloud[entry].attrs[f] = Planned[f]

(* A run that ended without an error leaves the service as configured: the *)
(* instance with every configured attribute, made from the configured      *)
(* snapshot, or none at all.                                               *)
SuccessMeansConfigured ==
  settled =>
    IF config.want
    THEN /\ entry # NoId
         /\ known["snapshot"] = config.attrs["snapshot"]
         /\ \A f \in Shown :
              \/ config.attrs[f] \in {Unset, cloud[entry].attrs[f]}
              \/ Restores(known) /\ f \notin RestoreFields
    ELSE \A i \in Ids : Exists(i) => i \in disclosed

(* Every step keeps the promise of a resource of the provider. *)
Ledger == INSTANCE ResourceLedger
            WITH live <- {i \in Ids : Exists(i)}, held <- made
KeepsLedger == Ledger!Spec

(* Whatever the service does, every handler returns: each loop is bounded  *)
(* by its timeout.                                                         *)
HandlersReturn == pc # "idle" ~> pc = "idle"

(* When the faults are over, no more timeouts expire, the user applies     *)
(* again and again and the service completes what it accepted and has room *)
(* for an instance, the service and the state come to the configuration,   *)
(* unless the recorded instance is gone: then every refresh fails for good.*)
Converged ==
  IF config.want
  THEN /\ entry # NoId /\ Exists(entry)
       /\ known["snapshot"] = config.attrs["snapshot"]
       /\ \A f \in Shown :
            config.attrs[f] \in {Unset, cloud[entry].attrs[f]}
  ELSE entry = NoId
Stranded == entry # NoId /\ ~Exists(entry)
HasRoom == <>[](pc = "create" => \E i \in Ids : Fresh(i))
Convergence ==
  RetryFairness /\ <>[][~Timeout]_vars /\ HasRoom =>
    <>[]Stranded \/ <>[]Converged

(* What the documentation of the attributes says.                          *)

(* backup_retention_days is between 1 and 35: no request carries zero.     *)
RetentionInRange ==
  [][ConfAccepted => GoValue(Planned["backup"]) # Zero]_vars

(* instance_type "can be changed to scale the instance": a replacement is  *)
(* planned only for an attribute that cannot be changed.                   *)
ScalesInPlace ==
  [][PlanDelete /\ config.want =>
       \E f \in ReplaceFields : config.attrs[f] \notin {Unset, known[f]}]_vars
=============================================================================
