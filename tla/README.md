# Verification of the Magalu Cloud Terraform provider

The provider (`src/mgc`) turns the plans of Terraform into calls of the Magalu
Cloud services. Each managed resource is a Go type with five handlers, Create,
Read, Update, Delete and ImportState. Terraform calls them one at a time for a
given resource; between two calls the only memory is the state entry that
Terraform keeps. The services are asynchronous: a handler sends a request and
polls until the object reaches the status it waits for.

A handler holds no lock and keeps nothing on disk, so whatever it learned and
did not put into the response's state is lost when it returns an error or when
the process stops. What can go wrong is therefore the distance between three
pieces of state: the configuration, the state entry and the object of the
service. The modules here state how far apart they may be, and check it.

Contents: 1 the system, 2 the modules, 3 how a model corresponds to the code,
4 the runs, 5 bounds and fairness, 6 the proofs, 7 disagreements found,
8 what is not modelled, 9 the plan.

## 1. The system

### Parts and how they interact

    user ──edits──▶ configuration
                        │ plan = configuration ⊕ state, plan modifiers
    Terraform core ─────┤   (utils/planmodifiers.go, the schemas)
        │  ▲            ▼
        │  │ state   handler of one resource (src/mgc/<service>/resource_*.go)
        │  └────────────┤
        │               │ SDK calls over internal/http (logging transport)
        ▼               ▼
    state file       service: objects with a status, changed in the background

A run refreshes every entry (Read), plans, and applies: Create, Update, or
Delete, or Delete then Create for a replacement. What a handler returns decides
what Terraform remembers:

| handler ends with                       | Terraform                              |
|-----------------------------------------|----------------------------------------|
| Create, error, nothing in the response  | records nothing: the object is untracked |
| Create, error, something in the response| records it as tainted: replaced next time |
| Update, error                           | keeps what the response holds, the prior state if it was not set |
| Delete, no error                        | drops the entry, whatever the service does |
| Read, error                             | stops the run                          |
| any record that is not what was planned | refuses it as inconsistent             |

Terraform core, the plugin framework and the SDK (`MgcClient/sdk-go`) are not in
the repository. What the models say of them is taken from the way the handlers
use them, and is marked external in the map.

### Inventory

For every component: the state it keeps besides its entry (none keeps any in
the process), its operations, what is hard, and what makes it correct.

| component | source | operations | what is hard | correct when |
|---|---|---|---|---|
| DBaaS instances | `database/resource_instances.go` | create or restore from a snapshot, read, resize then update, delete, import | two polling loops; the identifier is held in memory through the wait; two dependent requests in an update; six Optional+Computed attributes | no instance is lost in silence; the record is the service's; success means configured |
| DBaaS engine and type lookups | `database/common.go` | look up an engine or a machine type by name | only their failure | the handler stops before it has changed anything |
| DBaaS clusters | `database/resource_clusters.go` | create and wait, read, resize/update, delete | looks before it deletes; statuses of failure | as instances |
| DBaaS replicas | `database/resource_replicas.go` | create, record, wait; resize; delete, then again through the instances | the configured volume size is not in the creating request | an entry for each replica; tainted when inconsistent |
| DBaaS snapshots, parameter groups, parameters | `database/resource_instancessnapshots.go`, `resource_parametergroups.go`, `resource_parameters.go` | create, read, update, delete | record before the wait; a parameter names its group | as above |
| Load balancers | `lbaas/resource_network.go`, `models.go` | create, read, update in five stages, delete, import | nested children (listeners, backends, health checks, ACLs) compared by set, each stage a request and a wait; targets must follow their health checks; write-only certificate | the record after each stage is what was done; nothing needless is sent; success means configured |
| Virtual machines | `virtualmachines/resource_instances.go` | create (image or snapshot), read, rename and retype, delete | failure statuses, an attribute that makes any change a replacement | as instances |
| VM snapshots, interface attachments | `virtualmachines/resource_snapshots.go`, `resource_interfaceattach.go` | create, read, (no-op) update, delete; attach, detach | Update that does nothing | no inconsistent record is taken for a success |
| Kubernetes clusters and node pools | `kubernetes/resource_cluster.go`, `resource_nodepool.go` | create and wait, read, update, delete and wait | waits that look for one state only; a Create that fails late records what it has | no cluster is served that the user was not told of |
| Block storage volumes, snapshots, schedules, attachments | `blockstorage/resource_*.go` | create, read, rename, retype, extend; attach, detach, wait | three requests, each with a wait; a wait whose timeout is a success | success means done |
| Networks (VPC, subnet, pool, interface, route, NAT) | `network/resource_*.go` | create, read, delete, some updates | descriptions that a service answers empty; waits that count a timeout as success | a second run plans nothing |
| Public IPs, security groups and rules, attachments | `network/resource_*.go` | as above, attach and detach | import reads less than the schema needs | a replacement only for a difference |
| Container registries, SSH keys | `containerregistry/resource_*.go`, `ssh/resource_keys.go` | one request each | write-only credentials | as above |
| Object storage buckets | `objects/resource_buckets.go` | create with rollback, read, update in four steps, delete | the rollback's error is dropped; Read takes errors for absence; names are unique | a failed creation leaves no bucket, or an error |
| Plan modifiers | `utils/planmodifiers.go` | decide what a plan keeps and replaces | unknown and null values, sets | a replacement only for a change, and for each change of a set |
| Converters, validators | `utils/converters.go`, `validations.go` | the letter of a zone and its name; parse and format | a name has a region, a letter has none | a zone that is read and configured again is the same zone |
| Provider configuration | `provider.go`, `utils/regions.go` | the endpoint of an environment and a region | regions without an endpoint fall back to another one | what is recorded names what answered |
| Data sources | `*/datasource_*.go` | 66 reads | answers without optional parts; several requests for a bucket; lists that come in pages | what is recorded was so at a moment of the read; a list is whole |
| HTTP transport | `internal/http` | log a request | — | — |

### What is hard to test here

The acceptance tests need a live account and take the path on which nothing
fails. The hazards this code is exposed to, each at its line in `PROJECT.json`,
fall into these families:

- *ordering and partial failure*: a reply is lost, or a wait ends early,
  between a request and the record of it. Whether the object is recorded,
  tainted or forgotten depends on where `State.Set` stands in the handler;
- *stale state*: the service moves between the refresh and the request, or in
  the middle of a read, and an update is computed from what is no longer so;
- *protocol sequences*: an edit, a failed apply, a second apply; an import and
  a first apply; a replacement whose deletion succeeded only in part;
- *null, unknown and empty*: three values of an absent attribute, which a plan
  modifier, a converter and a service each treat in its own way;
- *timeouts*: what a wait that ran out of time counts as, and what a retry then
  finds;
- *interleaving*: the entries of one configuration are applied at the same
  time, and some resources share an object of the service (attachments).

## 2. The modules

| module | what it is |
|---|---|
| `ManagedResource` | Terraform, the user and an asynchronous service, shared by the three models of handlers below; all external |
| `DBaaSInstance` | the DBaaS instance, every call of its five handlers an action; extends `ManagedResource` |
| `ResourceLedger` | what any resource promises about the objects it creates; `DBaaSInstance` implements it |
| `DBaaSInstanceProofs` | the invariant of `DBaaSInstance` and the refinement, proved |
| `DBaaSInstanceRecordProofs` | what the state records of an instance and what a success means, proved; extends `DBaaSInstanceProofs` |
| `LoadBalancer` | the load balancer, with the five stages of its Update; extends `ManagedResource` |
| `LoadBalancerProofs` | every safety property of `LoadBalancer`, proved |
| `HandlerPrograms` | an interpreter of handlers that are straight sequences of calls; extends `ManagedResource` |
| `SimpleResources` | 25 resources as data: schema facts and call sequences; extends `HandlerPrograms` |
| `SimpleResourcesProofs` | what all 25 programs keep to, and what they lose, send and destroy, proved |
| `SimpleResourcesRecordProofs` | what the 25 programs record and what their successes mean, proved; extends `SimpleResourcesProofs` |
| `PlanModifiers` | the plan modifiers of the provider, as functions; `HandlerPrograms` makes its plans with them |
| `PlanModifiersProofs` | what the plan modifiers promise, proved |
| `Regions` | what the provider accepts, where its requests go, the names of zones |
| `DataSourceReads` | the Read of a data source against a service that changes; extends `Regions` |
| `DataSources` | the 66 data sources as data, and what their records promise |
| `DataSourcesProofs` | that no Read invents a value or leaves out what stays, and what the properties of `DataSources` say of the 66 rows, proved |
| `Attachments` | the five attachment resources, several entries of one configuration at the same time |
| `AttachmentsProofs` | that no attachment is forgotten and a reported success is one, proved |
| `MCDBaaSInstance`, `MCLoadBalancer`, `MCSimpleResources`, `MCAttachments`, `MCDataSources` | the small instances TLC explores |

`ManagedResource` is a set of building blocks, not a specification: `Goto`,
`Fail`, `Deleted`, `Drifts` and so on are actions' parts from which each model
makes its own next-state relation. `LoadBalancer`, `DBaaSInstance` and
`HandlerPrograms` compose it with one component each. Two resources do not
share objects of the service, apart from the attachments, so they are not
composed with each other; where one names another (a parameter its group, a
node pool its cluster) the name is an attribute.

## 3. How a model corresponds to the code

State, in the modules that extend `ManagedResource`:

| variable | stands for |
|---|---|
| `cloud[i]` | object `i` of the service: `status`, `attrs` (what a Get answers) and `goal` (what they will be when the accepted requests are done) |
| `entry`, `known` | the state entry: the identifier and the recorded attributes |
| `config` | the configuration of the one resource block, `want = FALSE` when it is removed |
| `pc` (and `at`, `stage`) | where the running handler stands, `idle` between runs |
| `made` | an identifier that only the running handler has, between the creating request and the return (`createdID`, `id` variables) |
| `failed`, `tainted` | the handler has added an error and goes on; the entry will be replaced |
| `disclosed`, `stale`, `settled` | bookkeeping for properties: objects whose loss was reported; something moved since the refresh; the last run ended without an error |

`disclosed`, `stale` and `settled` restrict no action except that an import
(`StartImport`) takes up an object that a failed run had named.

Actions. Each action is one call of the SDK with all the code up to the next
one, so that the service, a fault or a crash can come between two calls and
nowhere else. A call has up to three outcomes: *accepted*, *refused* (nothing
happened, error returned), *reply lost* (it happened, and an error is
returned). A polling loop is its exits: the wanted status, a failure status, a
failed Get, the timeout. Attributes are grouped by what the code does to them;
`DBaaSInstance` keeps eight groups (engine, zone, type,
volume, backup, group, protect, and the snapshot an instance is restored from), `LoadBalancer` a key per child and field group,
`HandlerPrograms` six roles (name, note, edit, size, zone, once). A value is a
member of a small set or one of the marks for null, unknown, empty and zero.

*DBaaSInstance.* `CreateAccepted/Rejected/ReplyLost` then `CreateDone` are
Create (request, wait, record); the two requests of Update are `Resize*` and
`Conf*`, each followed by its wait; Delete is a Get, a request, a wait. Read and
the import share `ReadOk`/`ImportOk`. `Planned` is the plan with the schema's
modifiers; `GoValue` is what a conversion of a null or unknown value sends,
which is a zero and not nothing.

*LoadBalancer.* `Stages` are the five parts of Update in the order of the
source, `Work` the elements that differ at each, `Send` one request and
`SendDone` the wait after it, `StageDone` the step to the next part. Each part
copies what it did into a state that only `Commit`, at the end, hands to
Terraform: an update that fails half-way leaves the old record, and the next
refresh has to find out how far it came. Sets that are null in the
configuration and empty in the state are both represented, because the diff
functions tell them apart (`OptionalKeys`, `Unset`, `Empty`).

*HandlerPrograms and SimpleResources.* A resource is a record such as

    Subnet == [Plain EXCEPT !.fields = ..., !.create = <<Post, Get>>,
                            !.update = <<Send({"edit"})>>, ...]

and the interpreter's actions are the calls (`Post`, `Get`, `Send`, `Poll`,
`Delete`, `DeleteAgain`, `PollGone`, `Lookup`, `Undo`) with what the handler
does when one fails: `stop`, `keep` (it has recorded the identifier), `refetch`,
`goOn`, `ignore`, `rollback`. What has to be held against the source is each record with its file.
The attributes a resource does not have are null and stay so. `Planned` and
`Replaces` apply the functions of `PlanModifiers`: `sets` names the attribute
with the modifier of sets, `pinned` the one that a plan keeps once it is in the
state (a node pool's replicas). `derefs` is what a handler dereferences without
a look, in each refresh or where a Create or an Update converts its last answer
(`CrashesNow`); `lists` is a list of which it is not known whether the service
answers an empty one or none, so that a Read of it may crash (`MayCrash`);
`leaves` is what the service may leave out of its answers where it was not given
it, and `sources` the attributes of which Create demands one, though it sends
its request all the same (`Sourceless`).

*Attachments.* The service keeps a relation, not objects, and the run is an
action sequence of its own: `StartRun`, `ReadOk` of every entry, `Plan`, the
handlers of the entries in any interleaving, `EndRun`. `Traits` say what sets
the five resources apart.

*DataSourceReads and DataSources.* `Start` is the call of Read, with the object
or the statuses it asks for; each request is `Answered` or `Unanswered`; then
the answers become the record (`Record`), or cannot (`Panic`, `Unconvertible`).
Between them the objects of the service appear, vanish and change. A row has
the requests with what an error of each does (`stop`, or counts as `absent`),
whether one page is asked for, which statuses are kept, whose region a zone is
named after, and for each of five parts of an answer its form: `null` when
absent, `blank`, `must` (dereferenced), `lost` (in the schema and never
assigned), `inverted`, `padded`, `mistaken` (taken from another field). The
attributes that are always answered and are recorded as they are have no part.
A part that several attributes share has the form of the weakest of them.

What an answer may leave out is a matter of the SDK's types, which are not in the
repository. A nested part or a date is taken to be optional where code or a test
of the repository treats the same SDK value as a pointer: a machine's
(`resource_instances_test.go:62-86`), the dates of the network services
(`datasource_vpcsinterfaces.go:193`), a cluster's status
(`kubernetes/datasource_cluster.go:428`). Nested parts that nobody looks at
before they are used (the volume of a block storage snapshot, the network of an
interface, the requirements of an image) are taken to be always answered.
An SDK's `ListAll` is one answer: its pages are requested inside the SDK.

## 4. The runs

| run | asks | answer |
|---|---|---|
| `InstanceSafety` | of new and of restored instances: with refused and lost calls, drift, crashes and an edit, is an instance ever lost in silence, a record wrong, a reconfiguration sent before the resize it follows has taken effect, a success reported of what is not so; does each step keep the ledger | holds |
| `InstanceLiveness` | do all handlers return; do repeated runs end at the configuration | hold |
| `InstanceRetention` | is `backup_retention_days` always in its documented range | violated, section 7 |
| `InstanceScaling` | is an instance replaced only for an attribute that asks for it | violated, section 7 |
| `BalancerLife` | orphans, records, the order of the stages, successes, needless requests, convergence | hold, with the exceptions of absent ACLs and, of convergence, of changes that a field left out hides |
| `BalancerCertificate` | is a changed certificate installed | violated, section 7 |
| `SimpleSafety` | the same questions for 25 resources at once, which of them report only what is ready and never lose an identifier, does an update send an outdated value back, is each replacement asked for | hold, with the exceptions each property names |
| `SimpleLiveness` | do repeated runs of those 25 converge | holds, for attainable configurations |
| `ImportedAddress` | is an imported public IP that already is as configured kept | violated, section 7 |
| `Attaching` | is an attachment ever forgotten; is a reported success one | hold |
| `DataSources` | was what a Read records so; is a list whole; does an absent value crash the provider; does a recorded zone mean the same zone when it is configured, and a recorded region the one that answered | hold, with the exceptions each property names |
| `InterfaceAddresses` | do the data sources of interfaces answer an interface's public addresses | violated, section 7 |

The exceptions, each of them behaviour of the code that no document denies:

- A balancer without `acls` in its configuration: the code takes the null of the
  plan and the empty set of the service for different (`models.go:212, 365`).
  `RecordAgrees` accepts a null for the empty set where ACLs were removed,
  `OnlyNeededRequests` the empty list that is then sent again, and `Convergence`
  asks for a configuration with ACLs (`Attainable`), section 7.
- A balancer whose configuration changes a health check and leaves a timing of
  it out, or changes `close_connections` and leaves the panic threshold out: the
  field left out is unknown in the plan, `hasHealthCheckChanges` and
  `hasBackendFieldChanges` then see no change at all (`models.go:443, 534`), and
  however often the user applies, nothing is sent. `Hides` states the two cases,
  and `Attainable`, and so `Convergence`, excepts them and no other omission.
  A timing left out hides a change of another timing just so; the timings of a
  check are one attribute of the model.
  No run reports them as a success (`SuccessMeansConfigured`). The first
  contradicts docs/guides/lbaas.md:710-716, which lists a check's path and its
  timings among what "can be modified without recreating".
- `NoServingOrphan` of the simple resources lets a network interface stay
  behind after a fault: its Delete ends without an error on *every* HTTP error
  (`resource_vpcsinterfaces.go:237`). It also
  accepts an object that is being deleted or whose deletion failed: most
  Deletes do not wait.
- `SuccessMeansConfigured` there accepts an object that failed after the last
  answer the run waited for (status `ERROR`), which only later runs can see,
  and, after a fault, attributes that Read never reads back.
- The number of replicas of a node pool is left out of `SuccessMeansConfigured`,
  `Convergence` and `NoLostUpdate`'s permission: it belongs to the service once
  the pool is there, says the schema, and an update must not send it.
- `SuccessMeansReady` covers the resources whose handlers wait. The VPC waits,
  but counts a timeout as a success (`resource_vpcs.go:98`), and the property
  allows that and nothing else.
- `ReplacedForAReason` accepts the replacements that section 7 lists: a text
  that is read back as empty, an imported attribute that Read never fills, and a
  version or an image that a plan does not keep.
- `SuccessMeansAttached` is about runs in which no wait ran out of time and no
  entry gave up what another claims. The code does not protect the second: a
  volume's detachment names no machine (`resource_volumeattach.go:132`). Entry
  A is removed from the configuration and entry B wants the same volume
  elsewhere; the reply to A's detachment is lost and B succeeds; in the second
  run the refresh moves A to B's machine, A is deleted, B's volume is detached,
  and the run reports a success.
- A bucket's Read takes a failed request for its lock, policy or CORS for their
  absence (`resource_buckets.go:305-337`). A run whose refresh did so counts as
  one that did not see the service (`stale`): a lock that is turned off in the
  configuration just then is planned as no change and the run reports a success.
- `Convergence` assumes a configuration that the handlers can attain
  (`Attainable`): replicas with the size of their source, schedules and VM
  snapshots that are not edited, parts that Create insists on, a virtual machine
  with an image or a snapshot (`Sourceless`: each of its runs fails), a cluster
  whose description is not removed (`kubernetes/resource_cluster.go:355-357`: a
  removed one is a nil pointer, and nothing is sent), and a described
  object where a service answers an empty text for none. A bucket whose name
  is taken by one that a failed rollback left behind is refused until it is
  imported or deleted (`HasRoom`). What crashes every Read cannot leave the state
  (`Stranded`): a NAT gateway (`resource_natgateway.go:151`) and a security group
  rule without a recorded description (`resource_securitygroupsrules.go:183`) of
  which the service answers none, and an interface that is answered without its
  list of addresses (`resource_vpcsinterfaces.go:132`). A machine
  that is answered without an image crashes its Create after the wait and before
  its identifier is recorded (`resource_instances.go:467, 583`): each run makes
  another one.
- Of the data sources, `RecordIsOneMoment` leaves out the parts of which the
  record is not what was answered (`Loses`). Never assigned, though the schema
  has them, are the description in the list of public IPs, a certificate's
  `expiration_date`, a registry's `storage_usage_bytes`, a cluster's
  `enabled_bastion`, `enabled_server_group` and the labels of its control plane,
  and a rule's `remote_group_id`. The list of VM snapshots records a machine
  type's identifier as the machine's. The public addresses of an interface are
  read only where there are none, and the DHCP pools of a subnet are recorded
  behind as many empty elements as there are. All other attributes of the 66 were
  looked up in their conversions. Of a bucket the property holds part by part,
  since its
  settings are asked for one after the other and an error of the last three is
  taken for absence. `ListsWhole` leaves out SSH keys, subnet pools, Kubernetes
  clusters and flavors, which ask for one page. `AbsenceIsRead` names the ten
  data sources that an absent value crashes (`Unguarded`). `ZoneMeansTheSame` and
  `RegionAnswered` hold in full for the regions that the schema's description
  names, br-ne1 and br-se1; of the others the first still says that no zone
  turns into another one: it is kept, or refused.

## 5. Bounds and fairness

| run | identifiers | faults | edits | configurations |
|---|---|---|---|---|
| `InstanceSafety` | 2, symmetric | 2 | 1 | whole; type and group changed, backup left out; zone changed; restored, volume and protection changed |
| `InstanceLiveness` | 2 | 1 | 1 | whole; type and group changed; restored, protection changed |
| `InstanceRetention`, `InstanceScaling` | 1 | 0 | 1 | what the finding needs |
| `BalancerLife` | 1, 1 check, 2 backends | 1 | 1 | whole; every updatable group changed; some stages, other fields left out; a check and the backends changed beside the timings and thresholds left out; no ACLs |
| `BalancerCertificate` | 1, 1 check, 1 backend | 0 | 1 | what the finding needs |
| `SimpleSafety` | 2, symmetric | 1 | 1 | per resource: whole, each optional attribute left out, name, edit and size changed, another one (note, once) where an update sends nothing else; a machine from the other source |
| `SimpleLiveness` | 1 | 1 | 1 | the same |
| `ImportedAddress` | 1 | 1 | 0 | the same, public IP only |
| `Attaching` | 2 entries, 2 things, 2 hosts, symmetric | 2 | 1 | all pairs |

`MaxFaults` bounds refused and lost calls, failures of the service, drift and
crashes together; `MaxEdits` bounds the edits of the configuration. There is no
other bound of these runs: they repeat without limit. Two identifiers let one object be left
behind while its successor is created, and a third would be in the same
situation as the second. Two faults are what it takes to fail in the recovery
from a failure; one edit is a change in the middle of a life, and a removal or
the return from one. Values are two per attribute: the code compares values and
never orders them. With two backends and one health check the loops of a stage
stop between two elements, and a set has an order to lose.

`DataSources` and `InterfaceAddresses` have two objects, of which a data source
that asks for one may find one or none; parts with one value or none; one failed
request in a Read (`MaxFaults`); pages of one object (`PageSize`), so that a
second one is beyond the page. The service changes once during a Read and, where
there are several requests, twice (`MaxChanges` and the constraint `Still`): a
record of two moments needs no more. Each data source is explored with the
provider as it is when nothing is configured, and those whose record names a
region or whose requests depend on it with all 20 configurations of environment
and region, without changes: the two do not meet.

`SimpleSafety` keeps states apart by a `VIEW` that leaves out `R`, the program of
the resource, which `kind` determines. The constraint `Own` of `SimpleSafety` and
`SimpleLiveness` keeps each resource to the configurations that were made for it,
without those of another resource that happen to suit it: it drops initial
states and edits, on which no fairness is assumed, and no other step.

Deadlock is checked in every run. A state in which nothing is possible but the
user's next run is not a stop: `StartRun` is always enabled between two runs.

*Fairness.* `FairSpec` has weak fairness of `Handler`, a handler that can go on
does (it is one goroutine, and calls return or fail), and of `Timeout`, each
wait is bounded (`context.WithTimeout`, counted loops). No fairness is assumed
of the service or of the user. `Convergence` states its further hypotheses
itself: `RetryFairness`, the user applies again and again and the service
completes what it has accepted; the waits stop timing out (`<>[][~Timeout]`);
the service has an identifier left (`HasRoom`); the faults are over because they
are bounded. It allows one way out: a recorded object that was deleted elsewhere
makes every refresh of most resources an error, for good (`Stranded`). In the
simple resources `RetryFairness` asks for strong fairness of a run: an object that
crashes its Read can be neither imported nor lose its name in the outputs of the
failed run, and a user who tried nothing but that import for ever would not be
one who applies again and again.

What the environment is assumed to do, since it is outside of the repository:

- an object that was created or asked to change is busy first, and settles or
  breaks later; an update is accepted in every state but a deletion (load
  balancers: only when running or failed);
- an attribute sent as null is cleared, one that is not sent is kept;
- only the network services, and Kubernetes for descriptions, may answer an
  empty text for an absent one, or an address for a missing one;
- a service may leave the image of a machine out of its answers where it was not
  given one, and it answers a machine's type and network;
- a deleted load balancer is answered as `DELETED` for a while, or not at all;
- Terraform core refuses a record that is not what was planned, and a computed
  attribute that is null in the configuration is unknown in a plan that differs
  anywhere, unless its modifiers keep it;
- a DBaaS cluster is always given a parameter group;
- the object storage is prompt: a request is done when it is answered, and it
  refuses a name that is taken.

## 6. The proofs

`DBaaSInstanceProofs`, for any identifiers, values, configurations and bounds
that meet `IdsAssumption`, `BoundsAssumption`, `MarksAssumption` and
`ConfigAssumption`:

- `TypeCorrect`: `Spec => []TypeOK`.
- `WellPlaced`: Read, Update and Delete run only with an entry, Create and an
  import only without one, and `made` holds an identifier exactly while one of
  those two waits.
- `NothingLost`: `Spec => []NoSilentOrphan`, an instance that exists is in the
  state, in the hands of the running handler, or was disclosed.
- `RefinesLedger`: `Spec => Ledger!Spec` with `live` the existing instances and
  `held` the identifier in `made`. Every step of the 40-odd of the instance is
  one of the six of the ledger or a stutter.

The invariant is `TypeOK /\ HandlersWellPlaced /\ NoSilentOrphan /\ HeldOnce`.
`NoSilentOrphan` alone is not inductive: that Delete may drop the entry when a
Get finds nothing needs to know that the entry is what the Get asked for, and
that Create may put `made` into an empty entry needs to know that it is empty
(`HandlersWellPlaced`); that letting go of an identifier discloses it, and that
recording it strikes it from what was disclosed, needs to know that it is held
in one place (`HeldOnce`). One lemma per handler, `CreateInv`, `ReadInv`,
`UpdateInv`, `DeleteInv`, and one for each of Terraform, the user and the
service show that the invariant is kept; `NextInv` joins them. The refinement
has the same division (`CreateLedger`, ...) under that invariant.

`DBaaSInstanceRecordProofs`, from the same assumptions and on top of that
invariant:

- `RecordIsTrue`: `Spec => []RecordAgrees`, `ResizeTakesEffect`:
  `Spec => []UpdateAfterResize`, `SuccessIsConfigured`:
  `Spec => []SuccessMeansConfigured`.

What the state may say of an instance depends on what the service still has to
do, so the invariant (`Recorded`) follows the requests. `RefreshedSteady`: where
a record must agree, no accepted request is outstanding (`Steady`: `attrs` is
`goal`). `CreatedAsSent`: while a creation is waited for the instance will have
what the request carried. `UpdatesInOrder` with `GoalAsSent`: between the calls
of Update the goal has the planned value of every field in a request already
sent (`SentSoFar`), with the zeros that a conversion makes of nulls, and the
recorded value of every other; after a wait that saw `ACTIVE` the same holds of
the attributes. All of it only as long as nothing moved behind the provider's
back (`~stale`).

`LoadBalancerProofs`, for any health checks, backends, identifiers, values,
configurations and bounds that meet `IdsAssumption`, `BoundsAssumption`,
`MarksAssumption`, `NamesAssumption` (a check and a backend have different names)
and `ConfigAssumption` (only the optional and the computed attributes may be left
out, and those of a check that is not there), every property that `BalancerLife`
checks but the liveness:

- `BalancerTypesKept`: `Spec => []TypeOK`; `NoneServesUnseen`:
  `Spec => []NoServingOrphan`; `RecordIsTrue`: `Spec => []RecordAgrees`;
  `SuccessIsConfigured`: `Spec => []SuccessMeansConfigured`;
- `TargetsComeLast`: `Spec => []TargetsLast`, the order of the stages;
- `NothingSentTwice`: `Spec => OnlyNeededRequests`, about each step that sends.

The invariant is `Placed /\ Recorded`. `Placed` is that of the instance's
orphans, and `HeldOrLeaving`: what an import takes up was disclosed, what Delete
waits for is on its way out. `Recorded` is where the five stages are. `Done(k)`
says that the request for key `k` was sent, in an earlier stage or earlier in
this one; `GoalAsSent`, that the balancer will have the planned value of every
such key and the recorded one of the others, which is what the diffs of the later
stages are made from. Two lemmas carry the argument: a key belongs to one stage
and one element (`CarriedOnce`), so what one request did no other one undoes, and
in the last stage everything but the targets is done (`LastStageDone`).

`AttachmentsProofs`, for any entries, things, hosts and bounds that meet
`NamesAssumption` and `BoundsAssumption`:

- `AttachmentTypes`: `Spec => []TypeOK`, with a handler only where it has what
  it runs on.
- `NoneForgotten`: `Spec => []NothingForgotten`, with the handlers of any number
  of entries interleaved.
- `SuccessAttaches`: `Spec => []SuccessMeansAttached`.

For the first two the invariant adds three parts. `Phases`: a run refreshes before it
applies, so a failed refresh interrupts no attachment, and an entry that
attaches has nothing recorded that it could overwrite. `Singles`: a thing of a
single host is never on its way to two, so a detachment leaves nothing of it.
`Letting`, the heart of it: while the detachment of a volume is being waited
for, another entry may attach the same volume; the first is about to forget the
volume, so whatever the volume is attached to by then must be remembered by
someone who is not about to. For the third it adds `Orderly`: as long as nothing
failed and no two entries claim one thing, an entry whose handler has returned is
attached as configured, and one that detaches takes nothing that another entry
is configured to have (`Uncontested`).

`PlanModifiersProofs`, for all values and all finite sets: `SetChangeExact`, the
modifier of a node pool's zones replaces exactly when the sets differ;
`CountSeesGrowth`, comparing sizes, as for the balancer's sets, sees elements
that were only added or only removed; `ReplacedOnlyIfChanged`, no modifier
replaces for a value that is recorded or unknown.

`DataSourcesProofs`, for any table of data sources, any objects, and any number
of changes and failures that meet `ValuesAssumption`, `SourceAssumption`,
`SetupsAssumption` and `BoundsAssumption`:

- `TypeCorrect`: `Spec => []TypeOK`.
- `RecordsWhatWasSo`: `Spec => []NothingInvented`, each recorded value was the
  object's at some moment of the Read, or stands for an absent one, but for
  padded collections and mistaken identifiers (`Inventing`).
- `RecordsWhatStays`: `Spec => []RecordWhole`, a Read that asks for all objects
  records each one that was there throughout in a status asked for and kept, and
  nothing that never was.

Neither is inductive. `Heard` adds that the answers gathered so far were each so
at a moment already seen, `Whole` that from the first answer on every object
that has stayed is among them; the latter needs that an error of the first
request ends the Read, which `SourceAssumption` asks of every row.

The module goes on with the 66 rows of `DataSources`, from the same assumptions
and `TableAssumption` (`Source` is the table of the module):

- `RecordsOneMoment`: `Spec => []RecordIsOneMoment`; `ListsAreWhole`:
  `Spec => []ListsWhole`; `AbsencesAreRead`: `Spec => []AbsenceIsRead`;
- `ZonesKeepTheirMeaning`: `Spec => []ZoneMeansTheSame`; `RegionsAnswer`:
  `Spec => []RegionAnswered`, for every environment and region the provider
  accepts.

`RowFacts` are the four facts about a row that these need: it makes one request
for all its parts or those of a bucket, asks for one page only if it is named as
such, loses or dereferences only what is named, and takes its zones' region from
one known place. They are proved of each row, a service at a time. The invariant
adds `Answering`: what the answer to the one request of a Read holds is an object
as it was at one moment (`OneAnswer`), or each part is (`PartsAnswered`, the
bucket), and what is recorded of a zone is named after `NamedRegion`.

`SimpleResourcesProofs`, for the 25 programs of `SimpleResources`, any
identifiers, values, configurations and bounds that meet `IdsAssumption`,
`BoundsAssumption`, `MarksAssumption`, `ConfigAssumption` and `TableAssumption`:

- `ResourceTypesKept`: `Spec => []TypeOK`; `NoneServesUnseen`:
  `Spec => []NoServingOrphan`;
- `WaitsLoseNothing`: `Spec => KeepsIdentifier`; `UpdatesLoseNothing`:
  `Spec => NoLostUpdate`; `NothingDestroyedInVain`:
  `Spec => ReplacedForAReason`; `SuccessIsReady`: `Spec => SuccessMeansReady`,
  about single steps.

`SimpleResourcesRecordProofs`, from the same assumptions and
`AbsenceAssumption` (the service has no description of its own and no value of
its own of what is only sent at the creation, so an attribute that may be left
out and is in no answer is absent until somebody configures it):

- `RecordsAgree`: `Spec => []RecordAgrees`;
- `SuccessIsConfigured`: `Spec => []SuccessMeansConfigured`.

The argument of the first module has two halves. The programs are data, and `TableRows` proves of
each row what the code of a resource has in common with the others (`Shaped`):
Create makes its creating request first and once, the requests of an Update
record nothing before it ends, Delete begins with the deletion and drops no error
of it but the interface's, the resources that record the identifier early do so
before everything that can fail. The interpreter is then proved about for any
program of that shape: the outcome of a call is one of six (`Outcome`), and
each of them keeps the types and the ledger. `NoServingOrphan` needs `Deleting`
(past its first call a Delete without an error has an object that is gone or
going), `Importing` (what is taken up was disclosed) and `Placed` (which handler
runs with an entry, and which with an identifier in `made`).
`UpdatesLoseNothing` needs of the rows that no request carries a pinned
attribute, and one that a plan keeps only where it has changed (`Fine`), and of
the states that a running Update has a difference to send (`Changing`). `NothingDestroyedInVain` needs that after a refresh the
record and the service agree but for what the service hides (`SeenInv`), which
in turn needs to know who can make a text empty (`Blanks`) and what a Read makes
of one (`HiddenNotes`). `SuccessIsReady` is about programs that skip calls: of a
row it needs that, whatever is to change, a wait that is then made comes after
the last request that is then made (`EndsWaiting`), and that no error and no
timeout but the VPC's counts as a success (`Minds`); of the states, that what such
a wait has shown still holds (`Polled`), and that an Update runs only when an
attribute that an update can change differs (`Changing`, `Staying`), or else it
could skip every wait.

For the records the two halves are these. `TableTracks` proves of each row what
makes its records true (`Tracks`): only requests carry attributes, and one that
may be skipped carries only what it is skipped for; their errors end the handler
or roll it back (`Sound`); between two requests the first is waited for,
whichever of them are skipped (`Spaced`); Create records of what it is not
answered only what the creating request, or a later one, carries (`Starts`);
Update records what it sent, or read after its wait, or what a plan may not
change without a replacement (`Concludes`); what Read does not see is sent with
the creation and kept, or sent by a handler of one request (`Conceals`). The
bucket is the exception to `Spaced`: its service answers when it is done.

Of the interpreter, `RecordInv` is the invariant. Its heart is `Tracking`, for
programs what `GoalAsSent` is to the balancer: while the first `k` calls of
Create or Update are made, and nothing moved behind the provider's back, the
object will have what they carried (`Sent[k]`), and otherwise what it was made
or recorded with, unless it failed to do what has been sent and not been waited
for (`Pending`); what none of them carried it has already. `SettlesBy` lists the
steps after which a run counts as ended well; for each of them `CreateAgrees`,
`UpdateAgrees` and `PlanAgrees` compare the record with the object and with the
configuration. `Present` says that an object which was seen, and has not moved
since, is still there; `Unread`, that without a fault what Read does not see is
remembered as it is. The latter has to follow every record, also those of a
Create that ends with an error and keeps what it was answered, or planned
(`KeepsMade`).

Only model-checked:

- liveness (`Convergence`, `HandlersReturn`), which is out of the prover's reach
  like ENABLED;
- the five disagreements of section 7, which are counterexamples.

## 7. Disagreements found

Each has a run that shows it; `PROJECT.json` quotes the lines.

| run | the code | what it disagrees with |
|---|---|---|
| `InstanceRetention` | an update of an instance without configured backup settings sends `backup_retention_days` 0 and an empty start time | the attribute's range, 1 to 35 |
| `InstanceScaling` | any change of a restored instance that leaves the engine to the snapshot destroys and recreates it | "can be changed to scale the instance" |
| `BalancerCertificate` | a changed certificate is not a difference, nothing is planned | "require destroying and recreating" |
| `InterfaceAddresses` | the loop over an interface's public addresses runs only when there is no list of them: they are never recorded, and an answer without the list crashes the provider | "Public IP configuration of the VPC interface" |
| `ImportedAddress` | an import of a public IP leaves `vpc_id` out of the state, the next run replaces the address | the documented import |

Met while reading, in the models where the models reach them, without a run of
their own:

- NAT gateway: Create needs an availability zone that is documented as
  optional; the documentation shows an import that the resource does not have.
- A description that is left out and read back as `""` replaces subnets,
  security groups, public IPs and NAT gateways at each run; VPCs and rules
  normalise it. An interface without `ip_address` likewise
  (`resource_vpcsinterfaces.go:102`).
- Security group: `disable_default_rules` is not read, so an imported group is
  replaced.
- Public IP: a failed Get in Create is followed by a nil dereference; so are the
  non-404 errors of the Get in the Deletes of DBaaS replicas, clusters and
  instances (`DeletePanics`).
- Replica: a configured volume size is not sent at creation, the record is
  inconsistent and the replica is replaced for ever.
- Schedule: a changed policy is neither replaced nor updatable. VM snapshot: a
  changed name is an inconsistent result, since Update does nothing. Volume
  snapshot: a rename whose wait failed is recorded all the same.
- Node pool: the waits never look for a failure state, and the one of Delete
  drops HTTP errors.
- Kubernetes: a removed description is not sent (`resource_cluster.go:355-357`),
  the service keeps it and each run ends as inconsistent.
- Kubernetes `version` and VM `image` are Optional, Computed and RequiresReplace
  without UseStateForUnknown: where they are not configured, any other change
  destroys the object. A VM with neither image nor snapshot adds an error and
  sends the request nonetheless. `deleting_network_error` is not among the error
  statuses of a VM, so a wait for it runs to its end.
- Load balancer: a changed health-check path is hidden by timing fields that
  are unknown, and a changed `close_connections` by an unknown panic threshold:
  neither is ever sent, though docs/guides/lbaas.md:710-716 lists the path as
  updatable in place (`Hides`, section 4); the removal of `health_checks` is no replacement
  (`planmodifiers.go:62`). The modifier of its sets compares their sizes only: of an exchanged element
  the modifiers of the element's own attributes have to tell.
- Load balancer: one that is configured without `acls` is recorded with an empty
  set (models.go:212, 314) where the plan has a null. What Create made is
  therefore refused as inconsistent, tainted, and replaced by the next run, which
  ends the same way. Of one that was imported, or whose ACLs were removed from the
  configuration, `hasACLChanges` (models.go:365) takes the two for a change: each
  run plans an update and sends an empty list. The attribute is Optional.
- Restored instance: `snapshot_id` is in the state alone, so its removal from
  the configuration, or an import, replaces the instance.
- Node pool: the comment on `UseStateForInt64AfterCreate` (planmodifiers.go:157)
  says that a changed configuration "will not produce a plan diff". The modifier
  keeps the recorded number, but the framework has by then marked the computed
  attributes that are not configured and not kept (the zones, `max_replicas`) as
  unknown: each run plans an update, which changes nothing.
  The zones' pattern accepts `br-mgl1-a`, which
  `ConvertAvailabilityZoneToXZone` refuses.
- NAT gateway: Read dereferences the description (`resource_natgateway.go:151`),
  as that of a security group rule does where none is recorded
  (`resource_securitygroupsrules.go:183`), that of an interface its addresses
  (`resource_vpcsinterfaces.go:132`) and the conversion of a machine its nested
  parts (`resource_instances.go:582, 583, 590`). The NAT gateway's data source records a bare letter as the zone, which the resource refuses.
- Regions: `br-mc1` is accepted and served by br-se1 outside of dev-qa, and
  `br-mgl1` by br-se1 for buckets, whose recorded region stays br-mgl1; the
  buckets of dev-qa are those of production.
- A NAT gateway that is configured with a zone of another region than the
  provider's is made in the provider's region, read back under its name, and
  replaced by each run (`ConvertAvailabilityZoneToXZone` drops the region).
- Data sources: `subnet.dhcp_pools` starts with empty elements
  (`datasource_vpcsubnet.go:144`); some Reads go on after an error of the
  configuration they could not read. Attributes that are in the schema and never
  assigned: `expiration_date` (`datasource_network_certificate.go:62`, Read
  95-102), `storage_usage_bytes` (`datasource_registries.go:71`, 108-119),
  `enabled_bastion`, `enabled_server_group` and control plane `labels`
  (`datasource_cluster.go:395-396, 485`), a rule's `remote_group_id`
  (`datasource_securitygroup.go:126`, 219-241). A snapshot's `virtual_machine_id`
  is that of its machine type (`datasource_snapshots.go:130`).
- Data sources that dereference an optional value: the NAT gateway (`:95`), nodes
  (`datasource_node.go:290`), a machine and the list of them
  (`datasource_instance.go:256`, `datasource_instances.go:124-125`), VM snapshots
  (`datasource_snapshots.go:129-131`), the interfaces
  (`datasource_vpcsinterfaces.go:179`), a security group
  (`datasource_securitygroup.go:209-227`), a subnet pool
  (`datasource_subnetpool.go:87`), the list of clusters
  (`datasource_clusters.go:115`).
- Buckets: `policy` and `cors` that are removed from a configuration stay, since
  an absent computed value is unknown or unchanged in a plan and never null:
  DeletePolicy and DeleteCORS (lines 429 and 460) are only reached, if at all, by
  an empty policy text. A `cors` block without its optional attributes leaves
  unknown values in the record of Create. A policy is read back as the SDK
  writes it, so one that was written otherwise is set again at each run (a
  policy is one value in the model).
- Attachments: Read of interface, security group and schedule attachments ends
  with an error when the attachment is gone, so the entry cannot leave the state
  by itself; a public IP that was detached elsewhere is read as attached to
  nothing and then detached from `""`.

## 8. What is not modelled, and why

- *Validators*, and the converters but those of zones: no state changes; they
  refuse a configuration before a run, or change the type or the wording of a
  value. Conversions that matter to a property are in the handlers that use them
  (`GoValue`, `Resolved`, `ToTerraformNetworkResource`).
- *HTTP logging*: the transport passes requests through.
- *Credentials* of the provider are passed on and decide nothing.
- *The SDK's paging*: a `ListAll` is one answer.
- *Booking of a CIDR* (`resource_subnetpoolsbookcidr.go`): not registered with
  the provider (`network.go:36`).
- A bucket's policy that is configured as an empty text, the one value that
  reaches DeletePolicy.
- Attributes that no handler treats differently from another one are merged;
  texts, numbers and times are values.

## 9. The plan

In the order of what matters most. Done: 1 to 11.

1. `ManagedResource` and `DBaaSInstance`, the largest protocol; its ledger.
2. The proofs of the instance: types, orphans, refinement.
3. `LoadBalancer`, the longest Update.
4. `HandlerPrograms` and `SimpleResources`, everything that is a sequence of
   calls.
5. `Attachments` and its proofs, the one place where handlers of several
   entries meet.
6. *Plan modifiers* as pure functions over null, unknown and known values and
   sets, in the plans of the programs, and what they promise proved.
7. *Data sources and regions*: the Reads against a service that changes, and
   their proofs.
8. *Proofs of the programs*: for whatever table has the shape of theirs, types,
   `NoServingOrphan` and the action properties; that each of the 25 rows has it.
9. *Proofs of the balancer*: types, orphans, records, successes, the order of the
   stages, no needless request.
10. *Records proved*: of the instance, whose invariant relates `goal`, `attrs`,
    `known` and `stale` at each point of the handlers; of the data sources, row
    by row; the successes of the attachments.
11. *Records and successes of the programs*: `RecordAgrees` and
    `SuccessMeansConfigured` of `SimpleResources`, with the attributes that a
    program has sent so far.
12. *Composition*: an instance and its replica, or a cluster and its node
    pools, in one configuration, where the deletion of the one races that of the
    other.
