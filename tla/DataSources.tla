------------------------------ MODULE DataSources ------------------------------
(***************************************************************************)
(* The rows of the data sources (DataSourceReads), one for each that the   *)
(* provider registers, and what their records promise.  A part of a row    *)
(* says what Read makes of it:                                             *)
(*   plain      always answered, recorded as it is                         *)
(*   null       recorded as null when it is absent                         *)
(*   blank      recorded as an empty text or collection when it is absent  *)
(*   must       dereferenced without a look whether it is absent           *)
(*   lost       never recorded, though the schema has it                   *)
(*   inverted   dereferenced only when it is absent                        *)
(*   padded     recorded with empty elements before its own                *)
(*   mistaken   recorded as an identifier of another object                *)
(***************************************************************************)
EXTENDS DataSourceReads

Ask(parts, error) == [parts |-> parts, error |-> error]

(* One object by its identifier, or all of them; an SDK's ListAll is one    *)
(* answer.                                                                 *)
One ==
  [one |-> TRUE, page |-> FALSE, storage |-> FALSE,
   asks |-> <<Ask(Parts, "stop")>>,
   keeps |-> Modes,           \* the statuses that Read records
   filters |-> {Modes},       \* those the user may ask for
   converts |-> FALSE,        \* the answer may have no form in the state
   zoned |-> "none",          \* whose region a zone is named after
   note |-> "none", owner |-> "none", items |-> "none", zone |-> "none",
   extra |-> "none"]
All == [One EXCEPT !.one = FALSE]
Filtered == [All EXCEPT !.filters = {Modes, {"active"}}]
Page == [All EXCEPT !.page = TRUE]   \* a List without a limit or an offset
Zoned(row, region, form) == [row EXCEPT !.zoned = region, !.zone = form]

-----------------------------------------------------------------------------
(* Block storage.                                                          *)

VolumeUnguarded ==   \* bug: the attachment is read of a volume that has none
  Zoned([One EXCEPT !.note = "null", !.owner = "must"], "service", "plain")
Volume ==
  Zoned([One EXCEPT !.note = "null", !.owner = "null"], "service", "plain")
VolumesPaged ==   \* bug: one page is asked for
  Zoned([Page EXCEPT !.note = "null"], "service", "plain")
Volumes == Zoned([All EXCEPT !.note = "null"], "service", "plain")
VolumeTypes == [All EXCEPT !.items = "plain"]
StorageSnapshot == [One EXCEPT !.note = "null", !.items = "plain"]
StorageSnapshots == [All EXCEPT !.note = "null", !.items = "plain"]
Schedule == [One EXCEPT !.note = "null", !.items = "plain"]
Schedules == [All EXCEPT !.note = "null", !.items = "plain"]

-----------------------------------------------------------------------------
(* Container registry.                                                     *)

RegistryCredentials == One
Images == [All EXCEPT !.items = "plain"]
ProxyCache == One
ProxyCaches == All
(* Their usage of the storage is never recorded.                           *)
Registries == [All EXCEPT !.owner = "null", !.extra = "lost"]
Repositories == All

-----------------------------------------------------------------------------
(* Databases.                                                              *)

DbCluster == [One EXCEPT !.note = "null", !.items = "plain"]
DbClusters == [Filtered EXCEPT !.note = "null", !.items = "plain"]
DbEngines == Filtered
DbInstanceTypes == Filtered
DbInstance == [One EXCEPT !.items = "plain"]
DbInstances == [Filtered EXCEPT !.items = "plain"]
DbSnapshot == One
DbSnapshots == All
ParameterGroup == [One EXCEPT !.note = "null"]
ParameterGroups == [All EXCEPT !.note = "null"]
Parameters == All
DbReplica == [One EXCEPT !.note = "null", !.items = "plain"]
DbReplicas == [All EXCEPT !.note = "null", !.items = "plain"]

-----------------------------------------------------------------------------
(* Kubernetes.  Zones are those of the node pools.                         *)

(* Whether it has a bastion and a server group, and the labels of its      *)
(* control plane, are never recorded.                                      *)
KubernetesCluster ==
  Zoned([One EXCEPT !.note = "null", !.owner = "null", !.items = "null",
                    !.extra = "lost"], "provider", "null")
KubernetesClusters == [Page EXCEPT !.note = "null", !.owner = "must"]  \* status
Flavors == [Page EXCEPT !.items = "plain"]
KubeConfig == [One EXCEPT !.converts = TRUE]
Nodes == [All EXCEPT !.items = "must"]          \* taints
NodePool ==
  Zoned([One EXCEPT !.note = "null", !.owner = "blank", !.items = "null"],
        "provider", "null")                     \* labels and taints
Versions == Filtered                            \* active: not deprecated

-----------------------------------------------------------------------------
(* Load balancers.                                                         *)

Balancer == [One EXCEPT !.note = "null", !.owner = "null", !.items = "plain"]
Balancers == [All EXCEPT !.note = "null", !.owner = "null", !.items = "plain"]
Backend == [One EXCEPT !.note = "null", !.owner = "null", !.items = "plain"]
Backends == [All EXCEPT !.note = "null", !.owner = "null", !.items = "plain"]
Certificate == [One EXCEPT !.note = "null", !.extra = "lost"]   \* its expiration
Certificates == [All EXCEPT !.note = "null"]
HealthCheck == [One EXCEPT !.note = "null"]
HealthChecks == [All EXCEPT !.note = "null"]
Listener == [One EXCEPT !.note = "null", !.owner = "null"]
Listeners == [All EXCEPT !.note = "null", !.owner = "null"]

-----------------------------------------------------------------------------
(* Network.                                                                *)

NatGateway ==
  Zoned([One EXCEPT !.note = "must", !.owner = "must"], "letter", "must")
PublicIpBare ==   \* bug: the description is left out, as in the list
  [One EXCEPT !.note = "lost", !.owner = "null"]
PublicIp == [One EXCEPT !.note = "null", !.owner = "null"]
PublicIps == [All EXCEPT !.note = "lost", !.owner = "null"]
(* The dates of a security group are formatted without a look (owner); the *)
(* group that a rule names is never recorded.                              *)
SecurityGroup ==
  [One EXCEPT !.note = "null", !.owner = "must", !.items = "blank",
              !.extra = "lost"]
SecurityGroups == [All EXCEPT !.note = "null", !.owner = "null"]
SubnetPool == [One EXCEPT !.note = "null", !.owner = "must"]   \* CIDR, its date
SubnetPools == [Page EXCEPT !.note = "null", !.owner = "null"]
Vpc == [One EXCEPT !.note = "null"]
Vpcs == [All EXCEPT !.note = "null"]
(* The items of an interface are its public addresses.                     *)
Interface ==
  Zoned([One EXCEPT !.note = "null", !.items = "inverted"], "service", "null")
Interfaces ==
  Zoned([All EXCEPT !.note = "null", !.items = "inverted"], "service", "null")
Route == One
Routes == All
(* The items of a subnet are its DHCP pools.                               *)
SubnetLetter ==   \* bug: the zone is recorded as the service answers it
  Zoned([One EXCEPT !.note = "null", !.items = "padded"], "letter", "plain")
Subnet ==
  Zoned([One EXCEPT !.note = "null", !.items = "padded"], "provider", "plain")

-----------------------------------------------------------------------------
(* The others.                                                             *)

(* After the bucket's existence (without which the Read ends) Read asks    *)
(* for versioning (owner), lock (extra), policy (note) and CORS (items);   *)
(* the region it records is the provider's.                                *)
Bucket ==
  [Zoned(One, "provider", "plain") EXCEPT
     !.storage = TRUE, !.converts = TRUE,
     !.owner = "blank", !.extra = "blank", !.note = "null", !.items = "null",
     !.asks = <<Ask({"zone"}, "stop"), Ask({"owner"}, "stop"),
                Ask({"extra"}, "absent"), Ask({"note"}, "absent"),
                Ask({"items"}, "absent")>>]
Buckets == [All EXCEPT !.storage = TRUE]

(* The blocked zones are left out by the service.                          *)
AvailabilityZones == [All EXCEPT !.filters = {{"active"}}, !.note = "null"]
SshKeys == Page

VmImages ==
  [All EXCEPT !.keeps = {"active"}, !.note = "blank", !.items = "null"]
VmInstance ==
  Zoned([One EXCEPT !.note = "must", !.owner = "must", !.items = "blank"],
        "service", "null")                      \* name, network, labels
VmInstances ==                                  \* image, machine type
  Zoned([All EXCEPT !.note = "null", !.owner = "must"], "service", "null")
MachineTypes ==
  [All EXCEPT !.keeps = {"active"}, !.note = "null", !.items = "blank"]
(* The machine of a snapshot is read through parts of the answer that may  *)
(* be absent, and the type of the machine is recorded as the machine.      *)
VmSnapshots == [All EXCEPT !.owner = "must", !.extra = "mistaken"]

-----------------------------------------------------------------------------
Table ==
  [volume |-> Volume, volumes |-> Volumes, volumeTypes |-> VolumeTypes,
   storageSnapshot |-> StorageSnapshot, storageSnapshots |-> StorageSnapshots,
   schedule |-> Schedule, schedules |-> Schedules,
   registryCredentials |-> RegistryCredentials, images |-> Images,
   proxyCache |-> ProxyCache, proxyCaches |-> ProxyCaches,
   registries |-> Registries, repositories |-> Repositories,
   dbCluster |-> DbCluster, dbClusters |-> DbClusters, dbEngines |-> DbEngines,
   dbInstanceTypes |-> DbInstanceTypes, dbInstance |-> DbInstance,
   dbInstances |-> DbInstances, dbSnapshot |-> DbSnapshot,
   dbSnapshots |-> DbSnapshots, parameterGroup |-> ParameterGroup,
   parameterGroups |-> ParameterGroups, parameters |-> Parameters,
   dbReplica |-> DbReplica, dbReplicas |-> DbReplicas,
   kubernetesCluster |-> KubernetesCluster,
   kubernetesClusters |-> KubernetesClusters, flavors |-> Flavors,
   kubeConfig |-> KubeConfig, nodes |-> Nodes, nodePool |-> NodePool,
   versions |-> Versions,
   balancer |-> Balancer, balancers |-> Balancers, backend |-> Backend,
   backends |-> Backends, certificate |-> Certificate,
   certificates |-> Certificates, healthCheck |-> HealthCheck,
   healthChecks |-> HealthChecks, listener |-> Listener,
   listeners |-> Listeners,
   natGateway |-> NatGateway, publicIp |-> PublicIp, publicIps |-> PublicIps,
   securityGroup |-> SecurityGroup, securityGroups |-> SecurityGroups,
   subnetPool |-> SubnetPool, subnetPools |-> SubnetPools, vpc |-> Vpc,
   vpcs |-> Vpcs, interface |-> Interface, interfaces |-> Interfaces,
   route |-> Route, routes |-> Routes, subnet |-> Subnet,
   bucket |-> Bucket, buckets |-> Buckets,
   availabilityZones |-> AvailabilityZones, sshKeys |-> SshKeys,
   vmImages |-> VmImages, vmInstance |-> VmInstance,
   vmInstances |-> VmInstances, machineTypes |-> MachineTypes,
   vmSnapshots |-> VmSnapshots]
AllKinds == DOMAIN Table
ASSUME TableAssumption ==
  Kinds \subseteq AllKinds /\ \A k \in Kinds : Source[k] = Table[k]

-----------------------------------------------------------------------------
(* Properties                                                              *)

(* What these record of a part is not what the service answered: the       *)
(* description of a public address in the list, the public addresses of an *)
(* interface, the DHCP pools of a subnet, the expiration of a certificate, *)
(* the usage of a registry, a cluster's bastion and server group and its   *)
(* control plane's labels, the group that a rule names, the machine of a   *)
(* snapshot.                                                               *)
Loses(p) ==
  CASE p = "note" -> {"publicIps"}
    [] p = "items" -> {"interface", "interfaces", "subnet"}
    [] p = "extra" -> {"certificate", "registries", "kubernetesCluster",
                       "securityGroup", "vmSnapshots"}
    [] OTHER -> {}
Tells(p, recorded, v) ==
  IF v = Null THEN recorded \in {Null, Blank}
  ELSE recorded = (IF p = "zone" THEN [region |-> NamedRegion, letter |-> v] ELSE v)

(* What a Read records was so: there was a moment during the Read at which *)
(* the object was as recorded, of a status that was asked for, but for the *)
(* parts that it loses.  The parts of a bucket were each so at a moment,   *)
(* or could not be read.                                                   *)
RecordIsOneMoment ==
  pc = "done" =>
    \A i \in DOMAIN record :
      IF kind = "bucket"
      THEN \A p \in Parts :
             \/ \E o \in There(i) : Tells(p, record[i][p], o.attrs[p])
             \/ p \in missed /\ record[i][p] \in {Null, Blank}
      ELSE \E o \in There(i) :
             /\ o.mode \in filter
             /\ \A p \in Parts :
                  kind \in Loses(p) \/ Tells(p, record[i][p], o.attrs[p])

(* A list has every object that was there, with a status that was asked    *)
(* for, as long as the Read took; those that ask for one page may not, and *)
(* images and machine types are only listed while they are active.         *)
FirstPageOnly == {"kubernetesClusters", "flavors", "sshKeys", "subnetPools"}
Listed == IF kind \in {"vmImages", "machineTypes"} THEN {"active"} ELSE filter
ListsWhole ==
  pc = "done" /\ kind \notin FirstPageOnly =>
    /\ \A i \in wanted :
          seen[i] # {} /\ (\A o \in seen[i] : o # Gone /\ o.mode \in Listed)
            => i \in DOMAIN record
    /\ \A i \in DOMAIN record : \E o \in There(i) : o.mode \in Listed

(* An answer without an optional value ends the Read of no data source but *)
(* these with a crash of the provider.                                     *)
Unguarded == {"natGateway", "nodes", "vmInstance", "vmInstances", "vmSnapshots",
              "interface", "interfaces", "securityGroup", "subnetPool",
              "kubernetesClusters"}
AbsenceIsRead == pc = "panic" => kind \in Unguarded

(* The zone in a record, written into the configuration of a subnet, a NAT *)
(* gateway or a node pool of the same provider, asks for that zone, or is  *)
(* refused: never for another one.  Where the documentation names the      *)
(* region, only a NAT gateway's zone is refused.                           *)
Documented == provider.region \in {"br-ne1", "br-se1"}
ZoneMeansTheSame ==
  pc = "done" /\ kind # "bucket" =>
    \A i \in DOMAIN record :
      LET zone == record[i]["zone"]
          xZone == ConvertAvailabilityZoneToXZone(zone)
      IN  zone # Null =>
            \/ xZone = zone.letter
            \/ xZone = Refused /\ (~Documented \/ kind = "natGateway")

(* In the regions that the documentation names, a record names the region  *)
(* that answered, and the answer came from the configured environment; but *)
(* the buckets of dev-qa are those of production, and those of pre-prod    *)
(* are refused.                                                            *)
RegionAnswered ==
  pc = "done" /\ Documented =>
    /\ \A i \in DOMAIN record :
         record[i]["zone"] # Null =>
           record[i]["zone"].region \in {Endpoint.region, Unset}
    /\ IF R.storage THEN provider.env # "pre-prod" /\ Endpoint.env = "prod"
       ELSE Endpoint.env = provider.env

(* What the documentation says.                                            *)

(* The data sources of interfaces answer the public addresses that an      *)
(* interface has.                                                          *)
AddressesAnswered ==
  pc = "done" /\ kind \in {"interface", "interfaces"} =>
    \A i \in DOMAIN record :
      (\A o \in seen[i] : o # Gone /\ o.attrs["items"] # Null) =>
        record[i]["items"] \in Values
=============================================================================
