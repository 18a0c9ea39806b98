---------------------------- MODULE SimpleResources ----------------------------
(***************************************************************************)
(* The programs of the resources whose handlers are sequences of calls     *)
(* (HandlerPrograms): network, block storage, the databases but for the    *)
(* instances, container registry, SSH keys, virtual machines and their     *)
(* snapshots, and Kubernetes.  Each is a record: its schema, and the calls *)
(* of its handlers in the order of the source.                             *)
(***************************************************************************)
EXTENDS HandlerPrograms

(* A resource that differs in nothing from most.                           *)
Plain ==
  [fields |-> {"name"}, optional |-> {}, computed |-> {}, keeps |-> {},
   replace |-> Fields,      \* a change of these replaces the object
   strict |-> {},           \* and so does not knowing the new value of these
   sets |-> {},             \* of those, the sets with a plan modifier of their own
   pinned |-> {},           \* a plan keeps these once the object is there
   needs |-> {},            \* Create fails at once without these
   posted |-> Fields,       \* what the creating request carries
   blanks |-> FALSE,        \* the service may answer Empty for an absent note
   leaves |-> {},           \* and leave these out, where they are not configured
   sources |-> {},          \* one of these has to be configured
   learns |-> {}, early |-> FALSE,   \* recorded from an answer, which one
   reads |-> Fields \ {"once"},      \* what Read records
   hides |-> "never",       \* when Read records Empty as an absent note
   fills |-> {},            \* recorded as absent when Create's plan knows none
   derefs |-> {},           \* the conversion of an answer crashes without these
   lists |-> {},            \* and may without these: absent is an empty list too
   misses |-> {},           \* what Read takes for absent when it cannot see it
   prompt |-> FALSE,        \* the service answers when it is done
   unique |-> FALSE,        \* two objects cannot have the same name
   missing |-> "error", imports |-> TRUE,
   create |-> <<Post>>, update |-> <<Unsupported>>, delete |-> <<Delete>>,
   records |-> "changed"]   \* what Update records

-----------------------------------------------------------------------------
(* Network: only routes are waited for; a VPC that takes too long counts   *)
(* as created.                                                             *)

VpcCreate == <<Post, [Poll EXCEPT !.late = "passes"]>>
Vpc ==
  [Plain EXCEPT !.fields = {"name", "note"}, !.optional = {"note"},
     !.blanks = TRUE, !.hides = "always", !.create = VpcCreate]

SubnetCreate == <<Post, Get>>
SubnetUpdate == <<Send({"edit"})>>
Subnet ==
  [Plain EXCEPT !.fields = {"name", "note", "edit", "zone"},
     !.optional = {"note", "edit", "zone"},
     !.computed = {"edit", "zone"}, !.keeps = {"zone"},
     !.replace = {"name", "note", "zone"},
     !.blanks = TRUE, !.learns = {"edit", "zone"},
     !.create = SubnetCreate, !.update = SubnetUpdate, !.records = "plan"]

InterfaceCreateUnguarded ==   \* bug: a new interface keeps the service's spoofing guard
  <<Post, Get>>

(* The spoofing guard of an interface is set by a request of its own; its  *)
(* address, the note, is the service's choice when it is left out.  Read   *)
(* records it when the interface has one address only, and dereferences    *)
(* the list of the addresses without a look.                               *)
InterfaceCreate == <<Post, Send({"edit"}), Get>>
InterfaceUpdate == <<IfChanged({"edit"}, Send({"edit"}))>>
InterfaceDelete == <<[Delete EXCEPT !.error = "ignore"]>>
Interface ==
  [Plain EXCEPT !.fields = {"name", "note", "edit", "zone"},
     !.optional = {"note", "zone"}, !.computed = {"zone"},
     !.replace = {"name", "note", "zone"}, !.posted = {"name", "note", "zone"},
     !.blanks = TRUE, !.lists = {"note"}, !.learns = {"zone"},
     !.create = InterfaceCreate, !.update = InterfaceUpdate,
     !.delete = InterfaceDelete]

RouteCreate == <<Post, [Poll EXCEPT !.error = "refetch"]>>
RouteDeleteIgnoring ==   \* bug: a refused deletion is dropped as for the interfaces, and not waited for
  <<[Delete EXCEPT !.error = "ignore"]>>
RouteDelete == <<Delete, PollGone>>
Route ==
  [Plain EXCEPT !.fields = {"name", "note"}, !.optional = {"note"},
     !.computed = {"note"}, !.keeps = {"note"}, !.blanks = TRUE,
     !.learns = {"name", "note"}, !.missing = "remove",
     !.create = RouteCreate, !.delete = RouteDelete]

NatGateway ==
  [Plain EXCEPT !.fields = {"name", "note", "zone"},
     !.optional = {"note", "zone"}, !.computed = {"zone"},
     !.needs = {"zone"}, !.blanks = TRUE, !.derefs = {"note"},
     !.imports = FALSE]

SubnetPool == Plain

SecurityGroup ==
  [Plain EXCEPT !.fields = {"name", "note", "once"}, !.optional = {"note"},
     !.blanks = TRUE]

(* An empty description is not recorded where none is: Read dereferences   *)
(* the one it is answered to see that.                                     *)
SecurityGroupRule ==
  [Plain EXCEPT !.fields = {"name", "note"}, !.optional = {"note"},
     !.blanks = TRUE, !.hides = "absent", !.derefs = {"note"}]

(* The VPC of a public IP is not read back.                                *)
PublicIp ==
  [Plain EXCEPT !.fields = {"note", "once"}, !.optional = {"note"},
     !.blanks = TRUE, !.create = <<Post, Get>>]

-----------------------------------------------------------------------------
(* Databases: what is created is put into the state before it is waited    *)
(* for.                                                                    *)

KeepingPoll == [Poll EXCEPT !.error = "keep"]

(* The configured volume is not part of the request that creates a         *)
(* replica.                                                                *)
ReplicaCreate == <<Post, KeepingPoll, [Lookup EXCEPT !.error = "keep"]>>
Resized == {"edit", "size"}
ReplicaUpdateVolumeOnly ==   \* bug: a resize is sent only when the volume changes
  <<IfChanged({"size"}, Send(Resized)), IfChanged({"size"}, Poll)>>
ReplicaUpdate == <<IfChanged(Resized, Send(Resized)), IfChanged(Resized, Poll)>>
ReplicaDelete ==
  <<[Delete EXCEPT !.error = "goOn"], [DeleteAgain EXCEPT !.error = "goOn"],
    PollGone>>
Replica ==
  [Plain EXCEPT !.fields = {"name", "edit", "size"}, !.optional = Resized,
     !.computed = Resized, !.replace = {"name"},
     !.posted = {"name", "edit"}, !.learns = {"name", "edit", "size"},
     !.create = ReplicaCreate, !.update = ReplicaUpdate,
     !.delete = ReplicaDelete]

InstanceSnapshotCreate == <<Post, KeepingPoll>>
InstanceSnapshot ==
  [Plain EXCEPT !.fields = {"name", "note"}, !.create = InstanceSnapshotCreate,
     !.update = <<Send({"name", "note"})>>]

ParameterGroup ==
  [Plain EXCEPT !.fields = {"name", "note", "edit"}, !.optional = {"note"},
     !.replace = {"name"}, !.update = <<Send({"note", "edit"})>>]

Parameter ==
  [Plain EXCEPT !.fields = {"name", "edit"}, !.replace = {"name"},
     !.missing = "remove", !.update = <<Send({"edit"})>>]

(* A cluster is resized (size) and then updated (edit), each waited for.   *)
ClusterCreate == <<Post, Poll>>
ClusterUpdate ==
  <<IfChanged({"size"}, Send({"size"})), IfChanged({"size"}, Poll),
    IfChanged({"edit"}, Send({"edit"})), IfChanged({"edit"}, Poll)>>
ClusterDelete == <<DeleteAgain, PollGone>>
ClusterDetail == {"name", "edit", "size", "zone"}   \* what an answer shows
Cluster ==
  [Plain EXCEPT !.fields = {"name", "edit", "size", "zone"},
     !.optional = {"edit", "zone"}, !.computed = {"edit", "zone"},
     !.keeps = {"edit", "zone"}, !.replace = {"name", "zone"},
     !.learns = ClusterDetail,
     !.create = ClusterCreate, !.update = ClusterUpdate,
     !.delete = ClusterDelete]

-----------------------------------------------------------------------------
(* Block storage.                                                          *)

(* An error of the wait after a renaming is added and the plan recorded.   *)
StorageSnapshotUpdate ==
  <<IfChanged({"edit"}, Send({"edit"})),
    IfChanged({"edit"}, [Poll EXCEPT !.error = "goOn"])>>
StorageSnapshotCreateLate ==   \* bug: the identifier is put into the state after the wait only
  <<Post, Poll>>
StorageSnapshotCreate == <<Post, KeepingPoll>>
StorageSnapshot ==
  [Plain EXCEPT !.fields = {"note", "edit", "once"}, !.optional = {"once"},
     !.replace = {"note", "once"}, !.learns = {"note", "edit"},
     !.imports = FALSE, !.create = StorageSnapshotCreate,
     !.update = StorageSnapshotUpdate, !.records = "plan"]

Schedule ==
  [Plain EXCEPT !.fields = {"name", "note", "edit"}, !.optional = {"note"},
     !.replace = {"name", "note"}, !.learns = {"name", "note", "edit"},
     !.create = <<Post, Get>>]

VolumeUpdateMerged ==   \* bug: a volume is retyped only when it is renamed
  <<IfChanged({"name"}, Send({"name", "edit"})), IfChanged({"name"}, Poll),
    IfChanged({"size"}, Send({"size"})), IfChanged({"size"}, Poll)>>

(* Renaming, retyping and extending, each waited for.                      *)
VolumeUpdate ==
  <<IfChanged({"name"}, Send({"name"})), IfChanged({"name"}, Poll),
    IfChanged({"edit"}, Send({"edit"})), IfChanged({"edit"}, Poll),
    IfChanged({"size"}, Send({"size"})), IfChanged({"size"}, Poll)>>
VolumeCreate == <<Post, Poll>>
Volume ==
  [Plain EXCEPT !.fields = Fields \ {"note"}, !.optional = {"zone", "once"},
     !.computed = {"zone"}, !.keeps = {"zone"}, !.replace = {"zone", "once"},
     !.learns = Fields \ {"once"}, !.create = VolumeCreate,
     !.update = VolumeUpdate, !.records = "plan"]

-----------------------------------------------------------------------------
(* The others.                                                             *)

(* A virtual machine is renamed, retyped, and then waited for once.  Its   *)
(* zone stands for the image, which is not configured when it was restored *)
(* from a snapshot (once, write-only); a plan then does not keep it, and   *)
(* every handler dereferences the image of the answer without a look.      *)
VmCreate == <<Post, Poll>>
VmUpdate ==
  <<IfChanged({"name"}, Send({"name"})), IfChanged({"edit"}, Send({"edit"})),
    Poll>>
VmDelete == <<Delete, [PollGone EXCEPT !.error = "ignore"]>>
VmDetail == {"name", "note", "edit", "zone"}
VirtualMachine ==
  [Plain EXCEPT !.fields = {"name", "note", "edit", "zone"},
     !.optional = {"note", "zone"}, !.computed = {"zone"},
     !.replace = {"note", "zone"}, !.strict = {"zone"},
     !.leaves = {"zone"}, !.sources = {"zone", "once"}, !.derefs = {"zone"},
     !.learns = VmDetail, !.create = VmCreate, !.update = VmUpdate,
     !.delete = VmDelete, !.records = "read"]

(* Update of a VM snapshot does nothing.                                   *)
VmSnapshot ==
  [Plain EXCEPT !.fields = {"name", "once"}, !.replace = {},
     !.imports = FALSE, !.update = << >>]

Registry ==
  [Plain EXCEPT !.fields = {"name", "note"}, !.optional = {"note"},
     !.learns = {"name", "note"}]

ProxyCacheUpdate == <<IfChanged({"edit", "once"}, Send({"edit", "once"}))>>
ProxyCache ==
  [Plain EXCEPT !.fields = {"name", "edit", "once"}, !.optional = {"once"},
     !.replace = {"name"}, !.create = <<Post, Get>>,
     !.update = ProxyCacheUpdate]

SshKey == Plain

NodePoolCreateHasty ==   \* bug: a wait that takes too long counts as a success, as for a VPC
  <<Post, [KeepingPoll EXCEPT !.blind = TRUE, !.late = "passes"]>>

(* A node pool's waits only look for the state they expect.                *)
NodePoolCreate == <<Post, [KeepingPoll EXCEPT !.blind = TRUE]>>
NodePoolUpdateScaling ==   \* bug: the recorded number of replicas is sent with every update
  <<Send({"edit", "size", "once"}), [Poll EXCEPT !.blind = TRUE], Get>>
NodePoolUpdate ==
  <<Send({"edit", "size"}), [Poll EXCEPT !.blind = TRUE], Get>>
NodePoolDelete ==
  <<Delete, [PollGone EXCEPT !.error = "ignore", !.blind = TRUE]>>
(* The number of replicas (once) is the autoscaler's after the creation: a  *)
(* plan keeps what the refresh found, and no update carries it.            *)
NodePoolDetail == {"name", "edit", "size", "zone", "once"}
NodePool ==
  [Plain EXCEPT !.fields = NodePoolDetail, !.optional = {"size", "zone"},
     !.computed = {"size", "zone"}, !.replace = {"name", "zone"},
     !.sets = {"zone"}, !.pinned = {"once"},
     !.reads = Fields, !.learns = NodePoolDetail, !.early = TRUE,
     !.create = NodePoolCreate, !.update = NodePoolUpdate,
     !.delete = NodePoolDelete, !.records = "read"]

(* The allowed networks (once) of a cluster are sent with every update, its *)
(* description only when it changes, and then not when it was removed; a    *)
(* version that is not configured (zone) is not kept by a plan.  A creation *)
(* that fails late is recorded.                                             *)
KubernetesCreate == <<Post, KeepingPoll>>
KubernetesUpdate ==
  <<[Patch({"note", "once"}, {"note"}) EXCEPT !.omitted = {"note"}], Poll>>
KubernetesDelete == <<Delete, [PollGone EXCEPT !.error = "ignore"]>>
KubernetesDetail == {"name", "note", "zone", "once"}
Kubernetes ==
  [Plain EXCEPT !.fields = {"name", "note", "zone", "once"},
     !.optional = {"note", "zone", "once"}, !.computed = {"zone"},
     !.replace = {"name", "zone"}, !.strict = {"zone"},
     !.blanks = TRUE, !.reads = Fields, !.hides = "always",
     !.learns = KubernetesDetail,
     !.create = KubernetesCreate, !.update = KubernetesUpdate,
     !.delete = KubernetesDelete, !.records = "read"]

-----------------------------------------------------------------------------
(* Object storage: versioning (edit), lock (size), policy (note) and CORS  *)
(* (once) are set one after the other, on a bucket that is already there.  *)
(* Both Create and Update only send what is to change, and neither can     *)
(* send the removal of a policy or of CORS: left out, they are unknown.    *)
Setting(f) == IfChanged({f}, Send({f}))
Settings == <<Setting("edit"), Setting("size"), Setting("note"), Setting("once")>>
RollingBack == [n \in DOMAIN Settings |-> [Settings[n] EXCEPT !.error = "rollback"]]
BucketCreate == <<Post>> \o RollingBack \o <<Undo>>
BucketUpdate == Settings
BucketDelete == <<DeleteAgain>>
Bucket ==
  [Plain EXCEPT !.fields = {"name", "note", "edit", "size", "once"},
     !.optional = {"note", "once"}, !.computed = {"note", "once"},
     !.replace = {"name"}, !.posted = {"name"}, !.fills = {"note", "once"},
     !.reads = Fields, !.misses = {"note", "size", "once"},
     !.prompt = TRUE, !.unique = TRUE, !.missing = "remove",
     !.create = BucketCreate, !.update = BucketUpdate, !.delete = BucketDelete]

-----------------------------------------------------------------------------
Table ==
  [vpc |-> Vpc, subnet |-> Subnet, interface |-> Interface, route |-> Route,
   natGateway |-> NatGateway, subnetPool |-> SubnetPool,
   securityGroup |-> SecurityGroup, rule |-> SecurityGroupRule,
   publicIp |-> PublicIp,
   replica |-> Replica, instanceSnapshot |-> InstanceSnapshot,
   parameterGroup |-> ParameterGroup, parameter |-> Parameter,
   storageSnapshot |-> StorageSnapshot, schedule |-> Schedule,
   volume |-> Volume, vmSnapshot |-> VmSnapshot, registry |-> Registry,
   proxyCache |-> ProxyCache, sshKey |-> SshKey, nodePool |-> NodePool,
   cluster |-> Cluster, virtualMachine |-> VirtualMachine,
   kubernetes |-> Kubernetes, bucket |-> Bucket]
AllKinds == DOMAIN Table
ASSUME TableAssumption ==
  Kinds \subseteq AllKinds /\ \A k \in Kinds : Resource[k] = Table[k]

-----------------------------------------------------------------------------
(* Properties                                                              *)

TypeOK ==
  /\ cloud \in [Ids -> Object]
  /\ entry \in Ids \cup {NoId} /\ made \in Ids \cup {NoId}
  /\ known \in [Fields -> Recordable]
  /\ config \in [want : BOOLEAN, attrs : [Fields -> Values \cup {Null}]]
  /\ pc \in PCs /\ kind \in Kinds
  /\ pc \in HandlerPCs => at \in 1 .. Len(Code) + 1
  /\ disclosed \subseteq Ids
  /\ stale \in BOOLEAN /\ settled \in BOOLEAN
  /\ failed \in BOOLEAN /\ tainted \in BOOLEAN
  /\ faults \in 0 .. MaxFaults /\ edits \in 0 .. MaxEdits

(* No object that can still serve is lost without an error: one outside    *)
(* the state, the running handler and the runs that failed is being        *)
(* deleted, or its deletion failed.  The Delete of an interface takes      *)
(* every HTTP error for a success, so it may lose one, but only by such an *)
(* error.                                                                  *)
NoServingOrphan ==
  \A i \in Ids :
     Exists(i) => \/ i \in disclosed \cup {entry, made}
                  \/ cloud[i].status \in {"DELETING", "ERROR"}
                  \/ kind = "interface" /\ faults > 0

(* What the state records between two runs is what the service will have,  *)
(* when the object did not fail, nothing moved behind the provider's back  *)
(* and the run was not reported as failed; an absent description may be an *)
(* empty one.                                                              *)
RecordAgrees ==
  pc = "idle" /\ settled /\ entry # NoId /\ cloud[entry].status # "ERROR" =>
    \A f \in R.fields \cap R.reads :
       \/ known[f] = cloud[entry].goal[f]
       \/ f = "note" /\ known[f] = Null /\ cloud[entry].goal[f] = Empty

(* A run that ended without an error leaves the object as configured, or   *)
(* the object failed after the last answer the run waited for.  What Read  *)
(* cannot see may also have been lost by such a failure before, and the    *)
(* replicas of a node pool are only configured at its creation.            *)
SuccessMeansConfigured ==
  settled /\ config.want =>
    /\ entry # NoId
    /\ \/ cloud[entry].status = "ERROR"
       \/ \A f \in R.fields : \/ config.attrs[f] \in {Null, cloud[entry].goal[f]}
                              \/ f \notin R.reads /\ faults > 0
                              \/ f \in R.pinned

(* A change request carries nothing but what the user asks for: whatever   *)
(* another client, or an autoscaler, made of an attribute that the         *)
(* configuration leaves out, or stopped deciding after the creation, no    *)
(* update puts an outdated value of it back.                               *)
NoLostUpdate ==
  [][At("send") /\ (SendAccepted \/ SendReplyLost) =>
       \A f \in Fields :
          LET goal == cloud'[Target].goal[f]
          IN  \/ goal = cloud[Target].goal[f]
              \/ goal = config.attrs[f] /\ (pc = "update" => f \notin R.pinned)
    ]_allVars

(* The resources that wait report a success only of what is ready; a VPC  *)
(* that is waited for too long counts as created, and only then.           *)
Waiting == {"route", "replica", "instanceSnapshot", "storageSnapshot", "volume",
            "nodePool", "cluster", "virtualMachine", "kubernetes", "vpc"}
SuccessMeansReady ==
  [][settled' /\ pc \in {"create", "update"} /\ kind \in Waiting =>
       \/ cloud[entry'].status = "READY"
       \/ kind = "vpc" /\ Timeout]_allVars

(* After a refresh that saw the service as it is, an object is destroyed   *)
(* for a replacement for a reason that the service or the configuration    *)
(* shows: an attribute that cannot be changed is configured otherwise than *)
(* it is, or was removed; or it is one that Read does not see and that is  *)
(* not what the state remembers; or the service answers a blank text that  *)
(* Read records as it is; or the service's own choice of it is up for      *)
(* decision again, because it is not configured and something else is to   *)
(* change (the version of a Kubernetes cluster, the image of a virtual     *)
(* machine).                                                               *)
Reason(f) ==
  LET is == cloud[entry].attrs[f]
      wanted == config.attrs[f]
      left == wanted = Null
  IN  \/ f \in R.reads /\ ~left /\ wanted # is
      \/ f \in R.reads /\ left /\ f \notin R.computed /\ is \in Values
      \/ f \in R.reads /\ left /\ is = Empty /\ R.hides = "never"
      \/ f \notin R.reads /\ wanted # known[f]
      \/ /\ f \in R.strict /\ left
         /\ \E g \in R.fields \ {f} :
               config.attrs[g] \notin {known[g]} \cup (IF g \in R.computed THEN {Null} ELSE {})
ReplacedForAReason ==
  [][pc = "plan" /\ pc' = "delete" /\ config.want /\ ~stale /\ ~tainted =>
       \E f \in R.replace \cap R.fields : Reason(f)]_allVars

(* These put the identifier into the state when they wait, or when the     *)
(* wait fails: no error loses what was created, and Terraform will replace *)
(* it.                                                                     *)
Keeping == {"replica", "instanceSnapshot", "storageSnapshot", "nodePool",
            "kubernetes"}
KeepsIdentifier ==
  [][pc = "create" /\ made # NoId /\ kind \in Keeping /\ (Handler \/ Timeout) =>
       made' = made \/ entry' = made]_allVars

(* When the faults are over, no more waits time out, the user applies      *)
(* again and again and the service completes what it accepted and has room *)
(* for an object, service and state come to a configuration that the       *)
(* handlers can attain, unless the recorded object is gone, or is one that *)
(* Read crashes on: a NAT gateway or a security group rule that is         *)
(* answered without a description, an interface without its addresses.     *)
(* What they cannot attain is named below: a NAT gateway without a zone, a *)
(* virtual machine without an image or a snapshot, a replica with a volume *)
(* of its own, a change of a schedule or of a snapshot, the removal of a   *)
(* cluster's description, and a text left out that reads back as blank.    *)
(* An attribute that is left out, and is not the service's to choose, is   *)
(* to have no value.  Where every answer of a machine crashes its Create,  *)
(* each run makes another one, and no room for them is enough.             *)
AsConfigured ==
  \A f \in (R.fields \cap R.reads) \ R.pinned :
     IF config.attrs[f] = Null /\ f \notin R.computed
     THEN cloud[entry].goal[f] \notin Values
     ELSE config.attrs[f] \in {Null, cloud[entry].goal[f]}
Attainable ==
  /\ R.needs \subseteq {f \in Fields : config.attrs[f] # Null}
  /\ ~Sourceless
  /\ kind = "replica" => config.attrs["size"] \in {Null, Default["size"]}
  /\ kind = "kubernetes" /\ config.attrs["note"] = Null =>
       entry = NoId \/ cloud[entry].attrs["note"] \in {Null, Empty}
  /\ kind \in {"schedule", "vmSnapshot"} => entry = NoId \/ AsConfigured
  /\ R.blanks /\ R.hides = "never" =>
       "note" \in R.computed \/ config.attrs["note"] # Null
Converged ==
  IF config.want
  THEN entry # NoId /\ Exists(entry) /\ AsConfigured
  ELSE entry = NoId
Stranded == entry # NoId /\ (~Exists(entry) \/ MayCrash(entry, known))
HasRoom == <>[](At("post") => HasPlace)
Convergence ==
  RetryFairness /\ <>[][~Timeout]_allVars /\ HasRoom /\ <>[]Attainable =>
    <>[]Stranded \/ <>[]Converged

(* What the documentation says.                                            *)

(* An import is supported: an object that has the configured attributes,   *)
(* and no text that reads back differently, is not destroyed by the run    *)
(* after its import.                                                       *)
ReplacedOnlyIfDifferent ==
  [][PlanDelete /\ config.want /\ ~stale /\ ~tainted /\ known["note"] # Empty =>
       \E f \in R.replace \cap R.fields :
          config.attrs[f] \notin {Null, cloud[entry].attrs[f]}]_allVars

=============================================================================
