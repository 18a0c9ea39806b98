----------------------------- MODULE LoadBalancer -----------------------------
(***************************************************************************)
(* The life of one mgc_lbaas_network resource                              *)
(* (mgc/lbaas/resource_network.go, models.go): one POST creates a network  *)
(* load balancer with everything in it, and an update takes it apart into  *)
(* five stages, each of which sends a request for what differs and waits   *)
(* until the balancer runs again: the name, the ACLs, each health check,   *)
(* the fields of each backend, the targets of each backend.                *)
(*                                                                         *)
(* An attribute is a pair of an element and a group of its fields:         *)
(*   lb       fixed    what can only be replaced, listeners included       *)
(*            checks   which health checks there are, null or a set        *)
(*            name     name, description                                   *)
(*            acl      the set of ACLs, null or a set                      *)
(*            cert     certificate, private_key: write-only                *)
(*   a check  probe    protocol, port, path                                *)
(*            timing   status code, interval, timeout, delay, thresholds   *)
(*   a backend         close (close_connections_on_host_health_failure),   *)
(*                     panic (panic_threshold), targets                    *)
(***************************************************************************)
EXTENDS ManagedResource

CONSTANTS
  Checks, Backends,   \* the names of the health checks and of the backends
  Values,             \* values an attribute may have
  Empty,              \* a set attribute with no element
  Unset,              \* a null: not configured, or recorded as null
  Unknown             \* "known after apply", in a plan only

Fixed == <<"lb", "fixed">>
Members == <<"lb", "checks">>
Name == <<"lb", "name">>
Acl == <<"lb", "acl">>
Cert == <<"lb", "cert">>
CheckKeys == Checks \X {"probe", "timing"}
Keys == {Fixed, Members, Name, Acl, Cert} \cup CheckKeys
          \cup (Backends \X {"close", "panic", "targets"})

(* The schema: which may be left out, and which of these the service then  *)
(* decides; of these only close keeps the recorded value in a plan.        *)
OptionalKeys == {Members, Acl}
ComputedKeys == {k \in Keys : k[2] \in {"timing", "close", "panic"}}

ASSUME MarksAssumption ==
  /\ {Empty, Unset, Unknown} \cap Values = {}
  /\ Empty # Unset /\ Empty # Unknown /\ Unset # Unknown
ASSUME NamesAssumption ==
  /\ "lb" \notin Checks \cup Backends
  /\ Checks \cap Backends = {}

(* No set is configured with no element; the protocol of a health check is *)
(* required, so a check without one is not there.                          *)
NoChecks(attrs) == attrs[Members] \in {Unset, Empty}
ASSUME ConfigAssumption ==
  /\ Default \in [Keys -> Values \cup {Empty}]
  /\ Configs \subseteq [Keys -> Values \cup {Unset}]
  /\ \A c \in Configs, k \in Keys :
        c[k] = Unset => \/ k \in OptionalKeys \cup ComputedKeys
                        \/ k \in CheckKeys /\ NoChecks(c)

VARIABLES
  tainted,    \* the entry is marked for replacement
  stage,      \* the stage of the running update
  sent        \* the elements this stage has sent its request for

balancer == <<tainted, stage, sent>>
allVars == <<vars, balancer>>

(* A deleted balancer may be answered as DELETED before it is gone. *)
Status == {"BUSY", "RUNNING", "FAILED", "DELETING", "DELETED", "GONE"}
Attrs == [Keys -> Values \cup {Empty}]
Balancer == [status : Status, attrs : Attrs, goal : Attrs]

EntryPCs == {"read", "update", "updateWait", "delete", "deleteWait"}
PCs == {"idle", "import", "plan", "create", "createWait"} \cup EntryPCs
Stages == {"name", "acl", "check", "field", "target"}

LBInit == Init /\ tainted = FALSE /\ stage = "name" /\ sent = {}

-----------------------------------------------------------------------------
(* The plan.                                                               *)

(* What a plan is compared with: write-only attributes are never planned   *)
(* and never recorded, and fields of checks only when there are checks.    *)
Configured(k) == IF k = Cert \/ (k \in CheckKeys /\ NoChecks(config.attrs))
                 THEN Unset ELSE config.attrs[k]
HasDiff == \E k \in Keys \ {Cert} :
             \/ Configured(k) \notin {Unset, known[k]}
             \/ k \in OptionalKeys /\ Configured(k) # known[k]
Planned ==
  [k \in Keys |->
     IF Configured(k) # Unset \/ k \notin ComputedKeys
        \/ (k \in CheckKeys /\ NoChecks(config.attrs))
     THEN Configured(k)
     ELSE IF k[2] = "close" \/ ~HasDiff THEN known[k] ELSE Unknown]

(* SetMembershipChangeRequiresReplace says nothing of a set that is null   *)
(* in the plan; names of elements that appear are new.                     *)
Replaces ==
  \/ tainted
  \/ Planned[Fixed] # known[Fixed]
  \/ Planned[Members] \notin {Unset, known[Members]}

(* The framework pairs the elements of two sets by their position: where a *)
(* changed element has moved, its name seems to change, and is replaced.   *)
MayMispair ==
  \E S \in {Checks, Backends} :
     /\ Cardinality(S) > 1
     /\ \E k \in Keys : k[1] \in S /\ Planned[k] # known[k]

PlanNothing == ~tainted /\ NothingPlanned(Planned) /\ UNCHANGED balancer
PlanCreate == CreatePlanned /\ UNCHANGED balancer
PlanUpdate ==
  /\ UpdatePlanned(Planned, Replaces, "update")
  /\ stage' = "name" /\ sent' = {} /\ UNCHANGED tainted
PlanDelete ==
  /\ DeletePlanned(Replaces \/ (~tainted /\ Planned # known /\ MayMispair))
  /\ UNCHANGED balancer

-----------------------------------------------------------------------------
(* Create                                                                  *)

(* ConvertACLsToSDK, ConvertBackendsToSDK, ConvertHealthChecksToSDK ...    *)
NewBalancer ==
  LET a == [k \in Keys |->
              IF config.attrs[k] # Unset /\ (k \in CheckKeys => ~NoChecks(config.attrs))
              THEN config.attrs[k]
              ELSE IF k \in OptionalKeys THEN Empty ELSE Default[k]]
  IN  [status |-> "BUSY", attrs |-> a, goal |-> a]

(* What Create and Read record: the ACLs are a set even when there are     *)
(* none, the health checks are null then, the certificates' secrets always.*)
ToTerraformNetworkResource(attrs) ==
  [k \in Keys |->
     IF k = Cert \/ (k \in CheckKeys \cup {Members} /\ NoChecks(attrs))
     THEN Unset ELSE attrs[k]]

CreateRejected ==
  /\ pc = "create"
  /\ Fault \/ (NoFault /\ \A i \in Ids : ~Fresh(i))
  /\ Fail /\ UNCHANGED <<cloud, balancer>>

MayCreate(i) ==
  /\ pc = "create" /\ Fresh(i)
  /\ cloud' = [cloud EXCEPT ![i] = NewBalancer]

CreateAccepted(i) ==
  /\ MayCreate(i)
  /\ made' = i /\ pc' = "createWait" /\ stale' = FALSE
  /\ UNCHANGED <<entry, known, disclosed, settled, faults, env, balancer>>

CreateReplyLost(i) ==
  /\ MayCreate(i) /\ Fault
  /\ pc' = "idle" /\ stale' = TRUE
  /\ disclosed' = disclosed \cup {i}
  /\ UNCHANGED <<entry, known, made, settled, env, balancer>>

(* Terraform compares what is recorded with what it had planned: a         *)
(* difference is an error, and what was just created is tainted.           *)
CreateDone ==
  /\ pc = "createWait" /\ cloud[made].status = "RUNNING"
  /\ entry' = made /\ known' = ToTerraformNetworkResource(cloud[made].attrs)
  /\ tainted' = (\E k \in Keys :
                   /\ k \notin ComputedKeys \/ Configured(k) # Unset
                   /\ known'[k] # Configured(k))
  /\ made' = NoId /\ pc' = "idle" /\ settled' = (~stale /\ ~tainted')
  /\ UNCHANGED <<cloud, disclosed, stale, faults, env, stage, sent>>

-----------------------------------------------------------------------------
(* Read and ImportState                                                    *)

ReadOkKeepsAcl ==                    \* bug: Read leaves the ACLs out of what it records
  /\ pc = "read" /\ Exists(entry)
  /\ known' = [ToTerraformNetworkResource(cloud[entry].attrs)
                EXCEPT ![Acl] = known[Acl]]
  /\ stale' = MidChange(entry) /\ pc' = "plan"
  /\ UNCHANGED <<cloud, entry, made, disclosed, settled, faults, env, balancer>>

ReadOk ==
  /\ pc = "read" /\ Exists(entry)
  /\ known' = ToTerraformNetworkResource(cloud[entry].attrs)
  /\ stale' = MidChange(entry) /\ pc' = "plan"
  /\ UNCHANGED <<cloud, entry, made, disclosed, settled, faults, env, balancer>>

ReadFails ==
  /\ pc = "read"
  /\ Fault \/ (NoFault /\ ~Exists(entry))
  /\ Fail /\ UNCHANGED <<cloud, balancer>>

ImportOk ==
  /\ pc = "import" /\ Exists(made)
  /\ entry' = made /\ known' = ToTerraformNetworkResource(cloud[made].attrs)
  /\ made' = NoId /\ disclosed' = disclosed \ {made} /\ tainted' = FALSE
  /\ stale' = MidChange(made) /\ pc' = "idle"
  /\ UNCHANGED <<cloud, settled, faults, env, stage, sent>>

ImportFails ==
  /\ pc = "import"
  /\ Fault \/ (NoFault /\ ~Exists(made))
  /\ pc' = "idle" /\ made' = NoId
  /\ UNCHANGED <<cloud, entry, known, disclosed, stale, settled, env, balancer>>

-----------------------------------------------------------------------------
(* Update: what each stage has to send, and for which elements.            *)

Differs(k) == Planned[k] # known[k]

(* An element with an unknown field counts as unchanged, whatever else of  *)
(* it differs.                                                             *)
hasHealthCheckChanges(c) ==
  /\ \A f \in {"probe", "timing"} : Planned[<<c, f>>] # Unknown
  /\ \E f \in {"probe", "timing"} : Differs(<<c, f>>)
hasBackendFieldChanges(b) ==
  /\ \A f \in {"close", "panic"} : Planned[<<b, f>>] # Unknown
  /\ \E f \in {"close", "panic"} : Differs(<<b, f>>)
hasTargetChanges(b) == Differs(<<b, "targets">>)

Work ==
  [name   |-> {e \in {"lb"} : Differs(Name)},
   acl    |-> {e \in {"lb"} : Differs(Acl)},
   check  |-> {c \in Checks : /\ ~NoChecks(Planned) /\ ~NoChecks(known)
                              /\ hasHealthCheckChanges(c)},
   field  |-> {b \in Backends : hasBackendFieldChanges(b)},
   target |-> {b \in Backends : hasTargetChanges(b)}]

CarriedNoPanic(s, e) ==              \* bug: the update of a backend leaves its panic threshold out
  CASE s = "name"   -> {Name}
    [] s = "acl"    -> {Acl}
    [] s = "check"  -> {e} \X {"probe", "timing"}
    [] s = "field"  -> {<<e, "close">>}
    [] s = "target" -> {<<e, "targets">>}

Carried(s, e) ==
  CASE s = "name"   -> {Name}
    [] s = "acl"    -> {Acl}
    [] s = "check"  -> {e} \X {"probe", "timing"}
    [] s = "field"  -> {e} \X {"close", "panic"}
    [] s = "target" -> {<<e, "targets">>}

(* Removing the ACLs sends an empty list. *)
Sent(k) == IF Planned[k] = Unset THEN Empty ELSE Planned[k]

Request ==
  /\ cloud[entry].status \in {"RUNNING", "FAILED"}
  /\ \E e \in Work[stage] \ sent :
       /\ cloud' = [cloud EXCEPT
                      ![entry].status = "BUSY",
                      ![entry].goal = [k \in Keys |->
                         IF k \in Carried(stage, e) THEN Sent(k)
                         ELSE cloud[entry].goal[k]]]
       /\ sent' = sent \cup {e}

Send ==
  /\ pc = "update" /\ Request
  /\ Goto("updateWait") /\ NoFault /\ UNCHANGED <<tainted, stage>>

SendReplyLost ==
  /\ pc = "update" /\ Request /\ Fault /\ Fail /\ UNCHANGED <<tainted, stage>>

SendRejected ==
  /\ pc = "update" /\ Work[stage] \ sent # {}
  /\ Fault \/ (NoFault /\ cloud[entry].status \notin {"RUNNING", "FAILED"})
  /\ Fail /\ UNCHANGED <<cloud, balancer>>

SendDoneAtOnce ==                    \* bug: the wait ends whatever the status is
  /\ pc = "updateWait"
  /\ Goto("update") /\ NoFault /\ UNCHANGED <<cloud, balancer>>

SendDone ==
  /\ pc = "updateWait" /\ cloud[entry].status = "RUNNING"
  /\ Goto("update") /\ NoFault /\ UNCHANGED <<cloud, balancer>>

NextStage == [name |-> "acl", acl |-> "check", check |-> "field",
              field |-> "target", target |-> "target"]
StageDone ==
  /\ pc = "update" /\ Work[stage] \subseteq sent /\ stage # "target"
  /\ stage' = NextStage[stage] /\ sent' = {}
  /\ Goto("update") /\ NoFault /\ UNCHANGED <<cloud, tainted>>

(* Each stage copies the plan into the state it will set at the end; the   *)
(* health checks are all copied, unknown fields included, as soon as both  *)
(* have some.                                                              *)
Copied(k) ==
  IF k[1] \in Backends /\ k[2] # "targets" THEN k[1] \in Work.field
  ELSE k \in CheckKeys \cup {Members} => ~NoChecks(Planned) /\ ~NoChecks(known)
UpdateRecordIsPlan ==                \* bug: the whole plan is recorded
  Planned

UpdateRecord ==
  [k \in Keys |-> IF Copied(k) /\ Planned[k] # Unknown THEN Planned[k]
                  ELSE IF Copied(k) THEN Unset ELSE known[k]]

(* Terraform refuses an unknown value and one that is not what it planned. *)
Inconsistent ==
  \E k \in Keys : IF Planned[k] = Unknown THEN Copied(k)
                  ELSE UpdateRecord[k] # Planned[k]

CommitAfterOne ==                    \* bug: a stage returns after the first element of its loop
  /\ pc = "update" /\ stage = "target" /\ (Work.target = {} \/ sent # {})
  /\ pc' = "idle" /\ known' = UpdateRecord
  /\ settled' = (~stale /\ ~Inconsistent)
  /\ NoFault /\ UNCHANGED <<cloud, entry, made, disclosed, stale, env, balancer>>

Commit ==
  /\ pc = "update" /\ stage = "target" /\ Work.target \subseteq sent
  /\ pc' = "idle" /\ known' = UpdateRecord
  /\ settled' = (~stale /\ ~Inconsistent)
  /\ NoFault /\ UNCHANGED <<cloud, entry, made, disclosed, stale, env, balancer>>

-----------------------------------------------------------------------------
(* Delete                                                                  *)

DeleteRejectedSwallowed ==           \* bug: the error of the request is not looked at
  /\ pc = "delete" /\ cloud[entry].status \notin {"RUNNING", "FAILED"}
  /\ Deleted /\ tainted' = FALSE /\ UNCHANGED <<stage, sent>>

DeleteRejected ==
  /\ pc = "delete"
  /\ Fault \/ (NoFault /\ cloud[entry].status \notin {"RUNNING", "FAILED"})
  /\ Fail /\ UNCHANGED <<cloud, balancer>>

DeleteAccepted ==
  /\ pc = "delete" /\ cloud[entry].status \in {"RUNNING", "FAILED"}
  /\ cloud' = [cloud EXCEPT ![entry].status = "DELETING"]
  /\ \/ Goto("deleteWait") /\ NoFault
     \/ Fault /\ Fail
  /\ UNCHANGED balancer

(* The status DELETED and a 404 end the wait well, but any HTTP error ends *)
(* it without an error: the entry is dropped while the balancer is being   *)
(* deleted.                                                                *)
DeleteDone ==
  /\ pc = "deleteWait"
  /\ Deleted /\ tainted' = FALSE /\ UNCHANGED <<stage, sent>>
  /\ cloud[entry].status \in {"DELETED", "GONE"}
DeletePollHTTPError ==
  /\ pc = "deleteWait" /\ faults < MaxFaults
  /\ entry' = NoId /\ known' = Default /\ stale' = FALSE
  /\ pc' = IF config.want THEN "create" ELSE "idle"
  /\ settled' = ~config.want /\ faults' = faults + 1
  /\ tainted' = FALSE
  /\ UNCHANGED <<cloud, made, disclosed, env, stage, sent>>

-----------------------------------------------------------------------------
(* waitLoadBalancerState                                                   *)

StatusWaits == {"createWait", "updateWait"}
Target == IF pc = "createWait" THEN made ELSE entry

PollFails ==
  /\ pc \in StatusWaits \cup {"deleteWait"}
  /\ Fault \/ (NoFault /\ pc \in StatusWaits /\ ~Exists(Target))
  /\ Fail /\ UNCHANGED <<cloud, balancer>>

PollSeesFailed ==
  /\ pc \in StatusWaits \cup {"deleteWait"} /\ cloud[Target].status = "FAILED"
  /\ Fail /\ NoFault /\ UNCHANGED <<cloud, balancer>>

Timeout ==
  /\ pc \in StatusWaits \cup {"deleteWait"}
  /\ Fail /\ NoFault /\ UNCHANGED <<cloud, balancer>>

-----------------------------------------------------------------------------
(* The service                                                             *)

Settle(i) == Completes(i, {"BUSY"}, "RUNNING") /\ UNCHANGED balancer
Linger(i) ==
  /\ cloud[i].status = "DELETING"
  /\ cloud' = [cloud EXCEPT ![i].status = "DELETED"]
  /\ ServiceOnly /\ NoFault /\ UNCHANGED <<disclosed, stale, settled, balancer>>
Vanish(i) ==
  /\ cloud[i].status \in {"DELETING", "DELETED"} /\ Disappears(i)
  /\ UNCHANGED balancer
Break(i) ==
  /\ cloud[i].status \in {"BUSY", "DELETING"} /\ Breaks(i, "FAILED")
  /\ UNCHANGED balancer
Drift(i, k, v) ==
  cloud[i].status = "RUNNING" /\ Drifts(i, k, v) /\ UNCHANGED balancer
ExternalDelete(i) ==
  /\ cloud[i].status \in {"RUNNING", "FAILED"}
  /\ DeletedElsewhere(i, "DELETING") /\ UNCHANGED balancer

-----------------------------------------------------------------------------
User == (EditConfig \/ StartRun \/ \E i \in Ids : StartImport(i)) /\ UNCHANGED balancer
Stopped == Crash /\ UNCHANGED balancer

Handler ==
  \/ PlanNothing \/ PlanCreate \/ PlanUpdate \/ PlanDelete
  \/ CreateRejected \/ CreateDone
  \/ \E i \in Ids : CreateAccepted(i) \/ CreateReplyLost(i)
  \/ ReadOk \/ ReadFails \/ ImportOk \/ ImportFails
  \/ Send \/ SendReplyLost \/ SendRejected \/ SendDone \/ StageDone \/ Commit
  \/ DeleteRejected \/ DeleteAccepted \/ DeleteDone \/ DeletePollHTTPError
  \/ PollFails \/ PollSeesFailed

Service ==
  \E i \in Ids :
     \/ Settle(i) \/ Linger(i) \/ Vanish(i) \/ Break(i) \/ ExternalDelete(i)
     \/ \E k \in Keys \ {Members} , v \in Values : Drift(i, k, v)

Next == User \/ Handler \/ Timeout \/ Stopped \/ Service

Spec == LBInit /\ [][Next]_allVars

HandlerFairness == WF_allVars(Handler) /\ WF_allVars(Timeout)
RetryFairness ==
  /\ WF_allVars(StartRun /\ UNCHANGED balancer)
  /\ \A i \in Ids : WF_allVars(Settle(i)) /\ WF_allVars(Vanish(i))

FairSpec == Spec /\ HandlerFairness

-----------------------------------------------------------------------------
(* Properties                                                              *)

TypeOK ==
  /\ cloud \in [Ids -> Balancer]
  /\ entry \in Ids \cup {NoId} /\ made \in Ids \cup {NoId}
  /\ known \in [Keys -> Values \cup {Empty, Unset}]
  /\ config \in [want : BOOLEAN, attrs : Configs]
  /\ pc \in PCs /\ stage \in Stages
  /\ sent \subseteq {"lb"} \cup Checks \cup Backends
  /\ disclosed \subseteq Ids
  /\ stale \in BOOLEAN /\ settled \in BOOLEAN /\ tainted \in BOOLEAN
  /\ faults \in 0 .. MaxFaults /\ edits \in 0 .. MaxEdits

(* No balancer that can still serve is lost without an error: one outside  *)
(* the state, the running handler and the runs that failed is being        *)
(* deleted or is, or its deletion failed (Delete's swallowed HTTP errors). *)
NoServingOrphan ==
  \A i \in Ids :
     Exists(i) => \/ i \in disclosed \cup {entry, made}
                  \/ cloud[i].status \in {"DELETING", "DELETED", "FAILED"}

(* What the state records between two runs is what the balancer has, when  *)
(* nothing moved behind the provider's back since the refresh and the run  *)
(* was not reported as failed (the copies of the plan that each stage      *)
(* makes); ACLs that were removed are null in the record, and an empty set *)
(* when they are read.                                                     *)
RecordAgrees ==
  pc = "idle" /\ settled /\ entry # NoId =>
    \A k \in Keys :
       \/ known[k] = ToTerraformNetworkResource(cloud[entry].attrs)[k]
       \/ k = Acl /\ known[k] = Unset /\ cloud[entry].attrs[k] = Empty

(* The targets of a backend are replaced only when the health checks and   *)
(* the fields of the backends are as planned (the order of the stages and  *)
(* the wait in each).                                                      *)
TargetsLast ==
  pc = "update" /\ stage = "target" /\ ~stale =>
    \A s \in Stages \ {"target"} : \A e \in Work[s], k \in Keys :
       k \in Carried(s, e) => cloud[entry].attrs[k] = Sent(k)

(* A run that ended without an error leaves the balancer as configured.    *)
SuccessMeansConfigured ==
  settled /\ config.want =>
    /\ entry # NoId
    /\ \A k \in Keys \ {Cert} :
         Configured(k) \in {Unset, cloud[entry].attrs[k]}

(* An update that failed half-way does not start over: no request is sent  *)
(* for an element that the service already has as planned, but for the     *)
(* ACLs where none are configured: null and the empty set differ.          *)
OnlyNeededRequests ==
  [][Send /\ ~stale =>
       \E e \in sent' \ sent : \E k \in Carried(stage, e) :
          \/ cloud[entry].attrs[k] # Sent(k)
          \/ k = Acl /\ config.attrs[Acl] = Unset]_allVars

(* When the faults are over, no more timeouts expire, the user applies     *)
(* again and again and the service completes what it accepted and has room *)
(* for a balancer, service and state come to the configuration, unless the *)
(* recorded balancer is gone, and but for what no number of runs brings    *)
(* about.  Without ACLs in the configuration what is created is tainted,   *)
(* and the next run replaces it, for ever.  Where the fields that are left *)
(* to the service are unknown beside a changed one, the element counts as  *)
(* unchanged in every run: a changed path of a health check with timing    *)
(* left out, and a changed close where the panic threshold is.             *)
Converged ==
  IF config.want
  THEN /\ entry # NoId /\ Exists(entry)
       /\ \A k \in Keys \ {Cert} :
            Configured(k) \in {Unset, cloud[entry].attrs[k]}
  ELSE entry = NoId
Stranded == entry # NoId /\ ~Exists(entry)
HasRoom == <>[](pc = "create" => \E i \in Ids : Fresh(i))

(* Left out beside one that differs: b of element e is unknown in every    *)
(* plan, and hides the difference of its a.                                *)
Hides(e, b, a) ==
  /\ Configured(<<e, b>>) = Unset
  /\ Configured(<<e, a>>) \notin {Unset, cloud[entry].attrs[<<e, a>>]}
Attainable ==
  /\ config.attrs[Acl] # Unset
  /\ entry # NoId => /\ \A c \in Checks : ~Hides(c, "timing", "probe")
                     /\ \A b \in Backends : ~Hides(b, "panic", "close")
Convergence ==
  RetryFairness /\ <>[][~Timeout]_allVars /\ HasRoom /\ <>[]Attainable =>
    <>[]Stranded \/ <>[]Converged

(* What the documentation says.                                            *)

(* A certificate and its key "require destroying and recreating": a run    *)
(* that plans nothing leaves the configured ones in place.                 *)
CertificateReplaced ==
  [][PlanNothing /\ ~stale /\ entry # NoId =>
       cloud[entry].attrs[Cert] = config.attrs[Cert]]_allVars
=============================================================================
