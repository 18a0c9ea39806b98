------------------------- MODULE SimpleResourcesProofs -------------------------
(***************************************************************************)
(* What the resources whose handlers are sequences of calls promise, for   *)
(* any number of objects, values, faults and edits: the programs of the    *)
(* table have a common shape, and whatever has it loses no object.         *)
(***************************************************************************)
EXTENDS SimpleResources, SequenceTheorems, TLAPS

-----------------------------------------------------------------------------
(* The shape of the programs.                                              *)

(* Create begins with the creating request and makes no second one.        *)
Creates(code) ==
  /\ Len(code) \in Nat \ {0} /\ DOMAIN code = 1 .. Len(code)
  /\ code[1].call = "post" /\ code[1].only = {}
  /\ \A n \in 2 .. Len(code) :
       code[n].call \in {"get", "lookup", "poll", "send", "undo"}

(* Update records nothing before it ends.                                  *)
Updates(code) ==
  /\ Len(code) \in Nat /\ DOMAIN code = 1 .. Len(code)
  /\ \A n \in 1 .. Len(code) :
       /\ code[n].call \in {"get", "poll", "send", "unsupported"}
       /\ code[n].error \in {"stop", "goOn"}

(* Delete begins with the request for the deletion, and no error of it is  *)
(* dropped but an interface's.                                             *)
Deletes(k, code) ==
  /\ Len(code) \in Nat \ {0} /\ DOMAIN code = 1 .. Len(code)
  /\ code[1].call \in {"delete", "deleteAgain"}
  /\ \A n \in 1 .. Len(code) :
       /\ code[n].call \in {"delete", "deleteAgain", "pollGone"}
       /\ code[n].error \in {"stop", "goOn", "ignore"} /\ code[n].only = {}
       /\ code[n].error = "ignore" => code[n].call = "pollGone" \/ k = "interface"

(* These put the identifier into the state whatever comes after.           *)
KeepsAll(k, code) ==
  k \in Keeping =>
    \A n \in 2 .. Len(code) :
       code[n].call \in {"lookup", "poll"} /\ code[n].error = "keep"

Shaped(k, row) ==
  /\ Creates(row.create) /\ Updates(row.update) /\ Deletes(k, row.delete)
  /\ KeepsAll(k, row.create)

(* The calls of the programs.                                              *)
LEMMA CallFacts ==
  \A c : Call(c).call = c /\ Call(c).error = "stop" /\ Call(c).only = {}
BY DEF Call

LEMMA ErrorFacts ==
  \A c, e : /\ [Call(c) EXCEPT !.error = e].call = c
            /\ [Call(c) EXCEPT !.error = e].error = e
            /\ [Call(c) EXCEPT !.error = e].only = {}
            /\ [[Call(c) EXCEPT !.error = e] EXCEPT !.blind = TRUE].call = c
            /\ [[Call(c) EXCEPT !.error = e] EXCEPT !.blind = TRUE].error = e
            /\ [[Call(c) EXCEPT !.error = e] EXCEPT !.blind = TRUE].only = {}
            /\ [Call(c) EXCEPT !.error = e, !.blind = TRUE].call = c
            /\ [Call(c) EXCEPT !.error = e, !.blind = TRUE].error = e
            /\ [Call(c) EXCEPT !.error = e, !.blind = TRUE].only = {}
BY DEF Call

LEMMA PollFacts ==
  /\ [Poll EXCEPT !.blind = TRUE].call = "poll"
  /\ [Poll EXCEPT !.blind = TRUE].error = "stop"
  /\ KeepingPoll.call = "poll" /\ KeepingPoll.error = "keep"
  /\ [KeepingPoll EXCEPT !.blind = TRUE].call = "poll"
  /\ [KeepingPoll EXCEPT !.blind = TRUE].error = "keep"
BY DEF Poll, KeepingPoll, Call

LEMMA PollGoneFacts ==
  /\ PollGone.call = "pollGone" /\ PollGone.error = "stop" /\ PollGone.only = {}
  /\ [PollGone EXCEPT !.error = "ignore"].call = "pollGone"
  /\ [PollGone EXCEPT !.error = "ignore"].error = "ignore"
  /\ [PollGone EXCEPT !.error = "ignore"].only = {}
  /\ [PollGone EXCEPT !.error = "ignore", !.blind = TRUE].call = "pollGone"
  /\ [PollGone EXCEPT !.error = "ignore", !.blind = TRUE].error = "ignore"
  /\ [PollGone EXCEPT !.error = "ignore", !.blind = TRUE].only = {}
BY DEF PollGone, Call

LEMMA SendFacts ==
  \A F : Send(F).call = "send" /\ Send(F).error = "stop" /\ Send(F).only = {}
BY DEF Send, Call

LEMMA IfChangedFacts ==
  \A F, G : /\ IfChanged(F, Send(G)).call = "send"
            /\ IfChanged(F, Send(G)).error = "stop"
            /\ IfChanged(F, Poll).call = "poll" /\ IfChanged(F, Poll).error = "stop"
            /\ \A e : /\ IfChanged(F, [Poll EXCEPT !.error = e]).call = "poll"
                     /\ IfChanged(F, [Poll EXCEPT !.error = e]).error = e
BY DEF IfChanged, Send, Poll, Call

LEMMA UpdateCodes ==
  /\ Updates(InterfaceUpdate) /\ Updates(ReplicaUpdate) /\ Updates(ClusterUpdate)
  /\ Updates(StorageSnapshotUpdate) /\ Updates(VolumeUpdate) /\ Updates(VmUpdate)
  /\ Updates(ProxyCacheUpdate) /\ Updates(NodePoolUpdate) /\ Updates(KubernetesUpdate)
<1>1. Updates(InterfaceUpdate) /\ Updates(ProxyCacheUpdate)
  BY IfChangedFacts DEF Updates, InterfaceUpdate, ProxyCacheUpdate
<1>2. Updates(ReplicaUpdate)
  BY IfChangedFacts DEF Updates, ReplicaUpdate
<1>3. Updates(StorageSnapshotUpdate)
  BY IfChangedFacts DEF Updates, StorageSnapshotUpdate
<1>4. Updates(ClusterUpdate)
  BY IfChangedFacts DEF Updates, ClusterUpdate
<1>5. Updates(VolumeUpdate)
  BY IfChangedFacts DEF Updates, VolumeUpdate
<1>6. Updates(VmUpdate)
  BY IfChangedFacts, CallFacts DEF Updates, VmUpdate, Poll
<1>7. Updates(NodePoolUpdate)
  <2>1. Get.call = "get" /\ Get.error = "stop"
    BY DEF Get, Call
  <2>2. \A F : Send(F).call = "send" /\ Send(F).error = "stop"
    BY SendFacts
  <2>3. /\ [Poll EXCEPT !.blind = TRUE].call = "poll"
        /\ [Poll EXCEPT !.blind = TRUE].error = "stop"
    BY PollFacts
  <2> DEFINE c1 == Send({"edit", "size"})
             c2 == [Poll EXCEPT !.blind = TRUE]
  <2>4. NodePoolUpdate = <<c1, c2, Get>>
    BY DEF NodePoolUpdate
  <2> HIDE DEF c1, c2
  <2>5. /\ c1.call = "send" /\ c1.error = "stop"
        /\ c2.call = "poll" /\ c2.error = "stop"
    BY <2>2, <2>3 DEF c1, c2
  <2> QED BY <2>1, <2>4, <2>5 DEF Updates
<1>8. Updates(KubernetesUpdate)
  <2> DEFINE c1 == [Patch({"note", "once"}, {"note"}) EXCEPT !.omitted = {"note"}]
  <2>1. c1.call = "send" /\ c1.error = "stop"
    BY DEF Patch, Send, Call
  <2>2. KubernetesUpdate = <<c1, Poll>>
    BY DEF KubernetesUpdate
  <2>3. Poll.call = "poll" /\ Poll.error = "stop"
    BY DEF Poll, Call
  <2> HIDE DEF c1
  <2> QED BY <2>1, <2>2, <2>3 DEF Updates
<1> QED BY <1>1, <1>2, <1>3, <1>4, <1>5, <1>6, <1>7, <1>8

LEMMA CreateCodes ==
  /\ Creates(Plain.create) /\ Creates(VpcCreate) /\ Creates(SubnetCreate)
  /\ Creates(InterfaceCreate) /\ Creates(RouteCreate) /\ Creates(<<Post, Get>>)
  /\ Creates(ClusterCreate) /\ Creates(VolumeCreate) /\ Creates(VmCreate)
<1> USE DEF Creates, Call, Post, Get, Poll
<1>1. Creates(Plain.create) /\ Creates(VpcCreate) /\ Creates(SubnetCreate)
  BY DEF Plain, VpcCreate, SubnetCreate
<1>2. Creates(InterfaceCreate)
  BY DEF InterfaceCreate, Send
<1>3. Creates(RouteCreate) /\ Creates(<<Post, Get>>)
  BY DEF RouteCreate
<1>4. Creates(ClusterCreate) /\ Creates(VolumeCreate) /\ Creates(VmCreate)
  BY DEF ClusterCreate, VolumeCreate, VmCreate
<1> QED BY <1>1, <1>2, <1>3, <1>4

LEMMA KeepingCodes ==
  \A k : \A code \in {ReplicaCreate, InstanceSnapshotCreate, StorageSnapshotCreate,
                      NodePoolCreate, KubernetesCreate} :
    Creates(code) /\ KeepsAll(k, code)
<1>1. Post.call = "post" /\ Post.only = {}
  BY DEF Post, Call
<1>2. /\ [Lookup EXCEPT !.error = "keep"].call = "lookup"
      /\ [Lookup EXCEPT !.error = "keep"].error = "keep"
  BY DEF Lookup, Call
<1>3. \A k : Creates(<<Post, KeepingPoll>>) /\ KeepsAll(k, <<Post, KeepingPoll>>)
  BY <1>1, PollFacts DEF Creates, KeepsAll
<1>4. \A k : Creates(ReplicaCreate) /\ KeepsAll(k, ReplicaCreate)
  <2> DEFINE c == [Lookup EXCEPT !.error = "keep"]
  <2>1. ReplicaCreate = <<Post, KeepingPoll, c>> /\ c.call = "lookup" /\ c.error = "keep"
    BY <1>2 DEF ReplicaCreate
  <2> HIDE DEF c
  <2> QED BY <1>1, <2>1, PollFacts DEF Creates, KeepsAll
<1>5. \A k : Creates(NodePoolCreate) /\ KeepsAll(k, NodePoolCreate)
  <2> DEFINE c == [KeepingPoll EXCEPT !.blind = TRUE]
  <2>1. NodePoolCreate = <<Post, c>> /\ c.call = "poll" /\ c.error = "keep"
    BY PollFacts DEF NodePoolCreate
  <2> HIDE DEF c
  <2> QED BY <1>1, <2>1 DEF Creates, KeepsAll
<1> QED BY <1>3, <1>4, <1>5
        DEF InstanceSnapshotCreate, StorageSnapshotCreate, KubernetesCreate

LEMMA DeleteCodes ==
  /\ \A k : \A code \in {<<Delete>>, RouteDelete, ReplicaDelete, ClusterDelete,
                         VmDelete, NodePoolDelete, KubernetesDelete, BucketDelete} :
       Deletes(k, code)
  /\ Deletes("interface", InterfaceDelete)
<1>1. /\ Delete.call = "delete" /\ Delete.error = "stop" /\ Delete.only = {}
      /\ DeleteAgain.call = "deleteAgain" /\ DeleteAgain.error = "stop"
      /\ DeleteAgain.only = {}
  BY DEF Delete, DeleteAgain, Call
<1>2. \A k : /\ Deletes(k, <<Delete>>) /\ Deletes(k, RouteDelete)
             /\ Deletes(k, ClusterDelete) /\ Deletes(k, BucketDelete)
  BY <1>1, PollGoneFacts DEF Deletes, RouteDelete, ClusterDelete, BucketDelete
<1>3. \A k : Deletes(k, ReplicaDelete)
  <2> DEFINE c == [Delete EXCEPT !.error = "goOn"]
             d == [DeleteAgain EXCEPT !.error = "goOn"]
  <2>1. /\ ReplicaDelete = <<c, d, PollGone>>
        /\ c.call = "delete" /\ c.error = "goOn" /\ c.only = {}
        /\ d.call = "deleteAgain" /\ d.error = "goOn" /\ d.only = {}
    BY DEF ReplicaDelete, Delete, DeleteAgain, Call
  <2> HIDE DEF c, d
  <2> QED BY <2>1, PollGoneFacts DEF Deletes
<1>4. \A k : Deletes(k, VmDelete) /\ Deletes(k, NodePoolDelete) /\ Deletes(k, KubernetesDelete)
  <2> DEFINE c == [PollGone EXCEPT !.error = "ignore"]
             d == [PollGone EXCEPT !.error = "ignore", !.blind = TRUE]
  <2>1. /\ VmDelete = <<Delete, c>> /\ KubernetesDelete = <<Delete, c>>
        /\ NodePoolDelete = <<Delete, d>>
        /\ c.call = "pollGone" /\ c.error = "ignore" /\ c.only = {}
        /\ d.call = "pollGone" /\ d.error = "ignore" /\ d.only = {}
    BY PollGoneFacts DEF VmDelete, KubernetesDelete, NodePoolDelete
  <2> HIDE DEF c, d
  <2> QED BY <1>1, <2>1 DEF Deletes
<1>5. Deletes("interface", InterfaceDelete)
  <2> DEFINE c == [Delete EXCEPT !.error = "ignore"]
  <2>1. /\ InterfaceDelete = <<c>>
        /\ c.call = "delete" /\ c.error = "ignore" /\ c.only = {}
    BY DEF InterfaceDelete, Delete, Call
  <2> HIDE DEF c
  <2> QED BY <2>1 DEF Deletes
<1> QED BY <1>2, <1>3, <1>4, <1>5

(* A bucket's settings are sent one by one and rolled back when one fails. *)
LEMMA BucketProgram ==
  /\ Len(BucketCreate) = 6 /\ DOMAIN BucketCreate = 1 .. 6
  /\ BucketCreate[1] = Post /\ BucketCreate[6] = Undo
  /\ \A n \in 2 .. 5 :
       \E f \in {"edit", "size", "note", "once"} :
          BucketCreate[n] = [Setting(f) EXCEPT !.error = "rollback"]
  /\ \A f \in {"edit", "size", "note", "once"} :
       \E n \in 2 .. 5 : BucketCreate[n] = [Setting(f) EXCEPT !.error = "rollback"]
<1> DEFINE r(f) == [Setting(f) EXCEPT !.error = "rollback"]
           S == {Post, Undo, r("edit"), r("size"), r("note"), r("once")}
           b == <<r("edit"), r("size"), r("note"), r("once")>>
           ab == <<Post>> \o b
<1>1. RollingBack = b
  BY DEF RollingBack, Settings
<1> HIDE DEF r
<1>2. b \in Seq(S) /\ <<Post>> \in Seq(S) /\ <<Undo>> \in Seq(S)
  OBVIOUS
<1>3. /\ Len(b) = 4 /\ \A n \in 1 .. 4 : \E f \in {"edit", "size", "note", "once"} : b[n] = r(f)
      /\ b[1] = r("edit") /\ b[2] = r("size") /\ b[3] = r("note") /\ b[4] = r("once")
  OBVIOUS
<1> HIDE DEF b
<1> HIDE DEF S
<1>4. /\ ab \in Seq(S) /\ Len(ab) = 5 /\ ab[1] = Post
      /\ \A n \in 2 .. 5 : \E f \in {"edit", "size", "note", "once"} : ab[n] = r(f)
      /\ ab[2] = r("edit") /\ ab[3] = r("size") /\ ab[4] = r("note") /\ ab[5] = r("once")
  <2>1. Len(<<Post>>) = 1 /\ <<Post>>[1] = Post
    OBVIOUS
  <2>2. /\ ab \in Seq(S) /\ Len(ab) = Len(<<Post>>) + Len(b)
        /\ \A n \in 1 .. Len(<<Post>>) + Len(b) :
             ab[n] = IF n <= Len(<<Post>>) THEN <<Post>>[n] ELSE b[n - Len(<<Post>>)]
    BY <1>2, ConcatProperties, Zenon
  <2> HIDE DEF ab
  <2> QED BY <1>3, <2>1, <2>2
<1> HIDE DEF ab
<1>5. BucketCreate = ab \o <<Undo>>
  BY <1>1 DEF BucketCreate, ab
<1>6. /\ BucketCreate \in Seq(S) /\ Len(BucketCreate) = 6
      /\ \A n \in 1 .. 5 : BucketCreate[n] = ab[n]
      /\ BucketCreate[6] = Undo
  <2>1. Len(<<Undo>>) = 1 /\ <<Undo>>[1] = Undo
    OBVIOUS
  <2>2. /\ BucketCreate \in Seq(S) /\ Len(BucketCreate) = Len(ab) + Len(<<Undo>>)
        /\ \A n \in 1 .. Len(ab) + Len(<<Undo>>) :
             BucketCreate[n] = IF n <= Len(ab) THEN ab[n] ELSE <<Undo>>[n - Len(ab)]
    BY <1>2, <1>4, <1>5, ConcatProperties, Zenon
  <2> QED BY <1>4, <2>1, <2>2
<1>7. \A f \in {"edit", "size", "note", "once"} : \E n \in 2 .. 5 : BucketCreate[n] = r(f)
  <2>1. /\ BucketCreate[2] = r("edit") /\ BucketCreate[3] = r("size")
        /\ BucketCreate[4] = r("note") /\ BucketCreate[5] = r("once")
    BY <1>4, <1>6
  <2> QED BY <2>1
<1> QED BY <1>4, <1>6, <1>7 DEF r

LEMMA BucketCodes ==
  Creates(BucketCreate) /\ Updates(BucketUpdate)
<1> DEFINE r(f) == [Setting(f) EXCEPT !.error = "rollback"]
<1>1. \A f : /\ Setting(f).call = "send" /\ Setting(f).error = "stop"
             /\ r(f).call = "send"
  BY DEF Setting, IfChanged, Send, Call
<1>2. Updates(BucketUpdate)
  BY <1>1 DEF Updates, BucketUpdate, Settings
<1>3. Post.call = "post" /\ Post.only = {} /\ Undo.call = "undo"
  BY DEF Post, Undo, Call
<1> HIDE DEF r
<1>4. \A n \in 2 .. 5 : BucketCreate[n].call = "send"
  <2>1. \A n \in 2 .. 5 : \E f : BucketCreate[n] = r(f)
    BY BucketProgram, Zenon DEF r
  <2> QED BY <1>1, <2>1
<1> QED BY <1>2, <1>3, <1>4, BucketProgram DEF Creates

(* A program that takes all else from Plain.                               *)
LEMMA PlainCodes ==
  /\ Updates(<<Unsupported>>) /\ Updates(<< >>)
  /\ \A F : Updates(<<Send(F)>>)
  /\ Plain.create = <<Post>> /\ Plain.update = <<Unsupported>>
  /\ Plain.delete = <<Delete>>
<1>1. Unsupported.call = "unsupported" /\ Unsupported.error = "stop"
  BY DEF Unsupported, Call
<1> QED BY <1>1, SendFacts DEF Updates, Plain

LEMMA TableRows ==
  \A k \in AllKinds : Shaped(k, Table[k])
<1> USE CreateCodes, KeepingCodes, UpdateCodes, DeleteCodes, PlainCodes
    DEF Shaped, Keeping
<1>0. \A k : k \notin Keeping => \A code : KeepsAll(k, code)
  BY DEF KeepsAll
<1>1. /\ Shaped("vpc", Vpc) /\ Shaped("subnet", Subnet)
      /\ Shaped("interface", Interface) /\ Shaped("route", Route)
  BY <1>0 DEF Vpc, Subnet, SubnetUpdate, Interface, Route, Plain
<1>2. /\ Shaped("natGateway", NatGateway) /\ Shaped("subnetPool", SubnetPool)
      /\ Shaped("securityGroup", SecurityGroup)
      /\ Shaped("rule", SecurityGroupRule) /\ Shaped("publicIp", PublicIp)
  BY <1>0 DEF NatGateway, SubnetPool, SecurityGroup, SecurityGroupRule, PublicIp, Plain
<1>3. /\ Shaped("replica", Replica) /\ Shaped("instanceSnapshot", InstanceSnapshot)
      /\ Shaped("cluster", Cluster)
  BY <1>0 DEF Replica, InstanceSnapshot, Cluster, Plain
<1>4. /\ Shaped("parameterGroup", ParameterGroup) /\ Shaped("parameter", Parameter)
      /\ Shaped("schedule", Schedule) /\ Shaped("vmSnapshot", VmSnapshot)
  BY <1>0 DEF ParameterGroup, Parameter, Schedule, VmSnapshot, Plain
<1>5. /\ Shaped("storageSnapshot", StorageSnapshot) /\ Shaped("volume", Volume)
      /\ Shaped("registry", Registry) /\ Shaped("proxyCache", ProxyCache)
      /\ Shaped("sshKey", SshKey)
  BY <1>0 DEF StorageSnapshot, Volume, Registry, ProxyCache, SshKey, Plain
<1>6. /\ Shaped("nodePool", NodePool) /\ Shaped("virtualMachine", VirtualMachine)
      /\ Shaped("kubernetes", Kubernetes) /\ Shaped("bucket", Bucket)
  BY <1>0, BucketCodes DEF NodePool, VirtualMachine, Kubernetes, Bucket, Plain
<1> QED BY <1>1, <1>2, <1>3, <1>4, <1>5, <1>6 DEF AllKinds, Table

-----------------------------------------------------------------------------
(* The types, and where a handler stands.                                  *)

ProgramOK == kind \in Kinds /\ R = Resource[kind]

(* What the handler holds at each place of a run.                          *)
Placed ==
  /\ pc \in {"idle", "plan", "read", "update", "delete"} => made = NoId
  /\ pc \in {"read", "update", "delete"} => entry # NoId
  /\ pc \in {"create", "import"} => entry = NoId
  /\ pc = "import" => made # NoId
  /\ pc = "create" => (made = NoId <=> at = 1)
  /\ pc \notin HandlerPCs => at = 1 /\ failed = FALSE

Types == TypeOK /\ ProgramOK /\ Placed

LEMMA ProgramShaped ==
  ASSUME ProgramOK
  PROVE  Shaped(kind, R)
BY TableRows, TableAssumption DEF ProgramOK

Attrs == [Fields -> Recordable]
PlannedAttrs == [Fields -> Recordable \cup {Unknown}]

LEMMA DefaultTyped ==
  /\ Default \in Attrs /\ NoObject \in Object
  /\ \A c \in [want : BOOLEAN, attrs : Configs] :
        c \in [want : BOOLEAN, attrs : [Fields -> Values \cup {Null}]]
<1>1. Default \in [Fields -> Values \cup {Null}]
  BY ConfigAssumption
<1>2. Default \in Attrs
  BY <1>1 DEF Attrs, Recordable
<1> QED BY <1>2, ConfigAssumption DEF NoObject, Object, Status, Attrs

(* What is planned and what is recorded of it.                             *)
LEMMA PlanTyped ==
  ASSUME TypeOK
  PROVE  Planned \in PlannedAttrs
<1>1. \A f \in Fields : config.attrs[f] \in Recordable /\ known[f] \in Recordable
  BY DEF TypeOK, Recordable
<1>2. \A f \in Fields : Proposed(f) \in Recordable \cup {Unknown}
  BY <1>1 DEF Proposed
<1>3. \A f \in Fields : InState(f) \in Recordable
  BY <1>1 DEF InState, Recordable
<1> QED BY <1>2, <1>3 DEF Planned, PlannedAttrs, UseStateForInt64AfterCreate

LEMMA RecordTyped ==
  ASSUME TypeOK, NEW attrs \in Attrs
  PROVE  /\ \A old \in PlannedAttrs : Recorded(attrs, old) \in PlannedAttrs
         /\ \A old \in Attrs : Recorded(attrs, old) \in Attrs
         /\ Answered \in Attrs
         /\ CreateRecord(attrs) \in PlannedAttrs
         /\ UpdateRecord(attrs) \in PlannedAttrs
<1>1. Attrs \subseteq PlannedAttrs
  BY DEF Attrs, PlannedAttrs
<1>2. Answered \in Attrs
  BY DefaultTyped DEF Answered, Attrs, Recordable, TypeOK
<1>3. Null \in Recordable
  BY DEF Recordable
<1>4. \A old \in PlannedAttrs : Recorded(attrs, old) \in PlannedAttrs
  BY <1>1, <1>3 DEF Recorded, PlannedAttrs
<1>5. \A old \in Attrs : Recorded(attrs, old) \in Attrs
  BY <1>3 DEF Recorded, Attrs
<1>6. Planned \in PlannedAttrs /\ known \in PlannedAttrs
  BY <1>1, PlanTyped DEF TypeOK, Attrs
<1>7. CreateRecord(attrs) \in PlannedAttrs
  <2>1. Recorded(attrs, Planned) \in PlannedAttrs /\ Answered \in PlannedAttrs
    BY <1>1, <1>2, <1>4, <1>6
  <2> QED BY <1>3, <1>6, <2>1 DEF CreateRecord, PlannedAttrs
<1>8. UpdateRecord(attrs) \in PlannedAttrs
  <2>1. Recorded(attrs, known) \in PlannedAttrs
    BY <1>4, <1>6
  <2> QED BY <1>6, <2>1 DEF UpdateRecord, PlannedAttrs
<1> QED BY <1>2, <1>4, <1>5, <1>7, <1>8

LEMMA ResolvedTyped ==
  ASSUME NEW record \in PlannedAttrs
  PROVE  Resolved(record) \in Attrs
BY DEF Resolved, PlannedAttrs, Attrs, Recordable

-----------------------------------------------------------------------------
(* How a call ends.                                                        *)

Typed == cloud' \in [Ids -> Object] /\ faults' \in 0 .. MaxFaults

LEMMA CodeTyped ==
  ASSUME ProgramOK
  PROVE  \A c \in HandlerPCs : Len(R[c]) \in Nat /\ DOMAIN R[c] = 1 .. Len(R[c])
BY ProgramShaped DEF Shaped, Creates, Updates, Deletes, HandlerPCs

LEMMA ReturnsTypes ==
  ASSUME Types, pc \in HandlerPCs, Typed, stale' \in BOOLEAN,
         NEW m \in Ids \cup {NoId}, NEW e \in BOOLEAN, Ends, Returns(m, e),
         UNCHANGED <<disclosed, env, kind, R>>, pc = "create" => m # NoId
  PROVE  Types'
<1> USE DEF Types
<1>0. UNCHANGED <<disclosed, config, edits, kind, R>>
  BY DEF env
<1>1. at' = 1 /\ failed' = FALSE
  BY DEF Ends
<1>2. \A c \in HandlerPCs : Len(R'[c]) \in Nat
  BY <1>0, CodeTyped
<1>3. pc' \in HandlerPCs => at' \in 1 .. Len(Code') + 1
  BY <1>1, <1>2 DEF Code
<1>4. Default \in [Fields -> Recordable] /\ NoId \notin Ids
  BY DefaultTyped, IdsAssumption DEF Attrs
<1>5. CASE pc = "create" /\ CreateReturns(m, e)
  <2>1. m \in Ids
    BY <1>5
  <2>2. cloud'[m].attrs \in Attrs
    BY <2>1 DEF Typed, Object, Attrs
  <2>3. known' \in [Fields -> Recordable]
    BY <1>5, <2>2, RecordTyped, ResolvedTyped DEF CreateReturns, Attrs
  <2>4. tainted' \in BOOLEAN /\ settled' \in BOOLEAN
    BY <1>5 DEF CreateReturns
  <2>5. entry' = m /\ made' = NoId /\ pc' = "idle"
    BY <1>5 DEF CreateReturns
  <2>6. TypeOK'
    BY <1>0, <1>1, <1>3, <2>1, <2>3, <2>4, <2>5 DEF TypeOK, Typed, PCs
  <2> QED BY <1>0, <1>1, <2>5, <2>6 DEF Placed, ProgramOK, HandlerPCs
<1>6. CASE pc = "update" /\ UpdateReturns(e)
  <2>1. entry \in Ids /\ made = NoId
    BY <1>6 DEF Placed, TypeOK
  <2>2. cloud'[entry].attrs \in Attrs
    BY <2>1 DEF Typed, Object, Attrs
  <2>3. known' \in [Fields -> Recordable]
    BY <1>6, <2>2, RecordTyped, ResolvedTyped DEF UpdateReturns, Attrs
  <2>4. settled' \in BOOLEAN
    BY <1>6 DEF UpdateReturns
  <2>5. UNCHANGED <<entry, made, tainted>> /\ pc' = "idle"
    BY <1>6 DEF UpdateReturns
  <2>6. TypeOK'
    BY <1>0, <1>1, <1>3, <2>3, <2>4, <2>5 DEF TypeOK, Typed, PCs
  <2> QED BY <1>0, <1>1, <2>1, <2>5, <2>6 DEF Placed, ProgramOK, HandlerPCs
<1>7. CASE pc = "delete" /\ DeleteReturns(e)
  <2>1. made = NoId /\ made' = made
    BY <1>7 DEF Placed, DeleteReturns
  <2>2. \/ pc' = "idle" /\ UNCHANGED <<entry, known, tainted, settled>>
        \/ /\ pc' \in {"create", "idle"} /\ entry' = NoId /\ known' = Default
           /\ tainted' = FALSE /\ settled' = ~config.want
    BY <1>7 DEF DeleteReturns
  <2>3. TypeOK'
    BY <1>0, <1>1, <1>3, <1>4, <2>1, <2>2 DEF TypeOK, Typed, PCs, HandlerPCs
  <2> QED BY <1>0, <1>1, <2>1, <2>2, <2>3 DEF Placed, ProgramOK, HandlerPCs
<1> QED BY <1>5, <1>6, <1>7 DEF Returns

LEMMA GoesOnTypes ==
  ASSUME Types, pc \in HandlerPCs, Typed, stale' \in BOOLEAN,
         NEW m \in Ids \cup {NoId}, NEW e \in BOOLEAN, GoesOn(m, e),
         IF pc = "create" THEN m # NoId ELSE m = made
  PROVE  Types'
<1> USE DEF Types
<1>1. UNCHANGED <<disclosed, config, edits, kind, R>>
  BY DEF GoesOn, env
<1>2. Len(Code) \in Nat /\ at \in Nat
  BY CodeTyped DEF Code, TypeOK
<1>3. CASE /\ at < Len(Code) /\ at' = at + 1 /\ failed' = e /\ made' = m
           /\ UNCHANGED <<pc, entry, known, settled, tainted>>
  <2>1. at' \in 1 .. Len(Code) + 1 /\ Code' = Code /\ at' # 1
    BY <1>1, <1>2, <1>3 DEF Code, TypeOK
  <2>2. TypeOK'
    BY <1>1, <1>3, <2>1 DEF TypeOK, Typed
  <2> QED BY <1>1, <1>3, <2>1, <2>2 DEF Placed, ProgramOK, HandlerPCs
<1>4. CASE Ends /\ Returns(m, e)
  BY <1>4, ReturnsTypes DEF GoesOn
<1> QED BY <1>3, <1>4 DEF GoesOn

LEMMA StopTypes ==
  ASSUME Types, Typed, Stop
  PROVE  Types'
<1>1. /\ pc' = "idle" /\ made' = NoId /\ stale' = TRUE /\ at' = 1 /\ failed' = FALSE
      /\ UNCHANGED <<entry, known, settled, config, edits, kind, R, tainted>>
      /\ disclosed' = disclosed \cup {i \in {made} : i # NoId /\ Exists(i)}
  BY DEF Stop, Fail, Ends, env
<1>2. disclosed' \subseteq Ids
  BY <1>1 DEF Types, TypeOK
<1>3. TypeOK'
  BY <1>1, <1>2 DEF Types, TypeOK, Typed, PCs, HandlerPCs
<1> QED BY <1>1, <1>3 DEF Types, Placed, ProgramOK, HandlerPCs

LEMMA KeepTypes ==
  ASSUME Types, Typed, pc = "create", made # NoId, NEW record \in PlannedAttrs,
         Keep(record)
  PROVE  Types'
<1>1. /\ pc' = "idle" /\ made' = NoId /\ stale' = TRUE /\ at' = 1 /\ failed' = FALSE
      /\ entry' = made /\ tainted' = TRUE /\ known' = Resolved(record)
      /\ UNCHANGED <<disclosed, settled, config, edits, kind, R>>
  BY DEF Keep, Ends, env
<1>2. known' \in [Fields -> Recordable]
  BY <1>1, ResolvedTyped DEF Attrs
<1>3. TypeOK'
  BY <1>1, <1>2 DEF Types, TypeOK, Typed, PCs, HandlerPCs
<1> QED BY <1>1, <1>3 DEF Types, Placed, ProgramOK, HandlerPCs

(* A Create that rolls back goes on with its last call.                    *)
RollsBack ==
  /\ pc = "create" /\ at' = Len(Code) /\ failed' = TRUE
  /\ UNCHANGED <<pc, entry, known, made, disclosed, stale, settled, env, kind, R,
                 tainted>>
Keeps == pc = "create" /\ made # NoId /\ \E record \in PlannedAttrs : Keep(record)
GoesOnWith(e) == UNCHANGED stale /\ GoesOn(made, e)
(* Nothing is left to delete.                                              *)
FindsNothing ==
  /\ pc = "delete" /\ ~Exists(entry) /\ UNCHANGED <<cloud, stale>>
  /\ Ends /\ DeleteReturns(failed) /\ UNCHANGED <<disclosed, env, kind, R>>

(* An object that cannot serve without anyone knowing of it; a deletion    *)
(* goes on, without an error, with an entry that is one.                   *)
Safe(i) ==
  \/ ~Exists(i) \/ cloud[i].status \in {"DELETING", "ERROR"}
  \/ kind = "interface" /\ faults > 0
Effective == pc = "delete" /\ ~failed => \A i \in {entry} : Safe(i)'
Deleting == pc = "delete" /\ at > 1 /\ ~failed => Safe(entry)

Outcome ==
  \/ Stop \/ Keeps \/ RollsBack \/ FindsNothing
  \/ GoesOnWith(TRUE) \/ (Effective /\ GoesOnWith(failed))

(* A handler is at a call, and has made the creating request before it     *)
(* makes another.                                                          *)
InCall == pc \in HandlerPCs /\ (pc = "create" => at \in 2 .. Len(Code))

LEMMA OutcomeTypes ==
  ASSUME Types, Typed, InCall, Outcome
  PROVE  Types'
<1>0. Len(Code) \in Nat /\ at \in Nat
  BY CodeTyped DEF Code, InCall, Types, TypeOK
<1>1. pc = "create" => made # NoId
  BY <1>0 DEF InCall, Types, Placed
<1>2. made \in Ids \cup {NoId} /\ failed \in BOOLEAN /\ stale \in BOOLEAN
  BY DEF Types, TypeOK
<1>3. CASE Stop
  BY <1>3, StopTypes
<1>4. CASE Keeps
  BY <1>4, KeepTypes DEF Keeps
<1>5. CASE RollsBack
  <2>1. /\ UNCHANGED <<pc, entry, known, made, disclosed, stale, settled, config,
                       edits, kind, R, tainted>>
        /\ pc = "create" /\ at' = Len(Code) /\ failed' = TRUE
    BY <1>5 DEF RollsBack, env
  <2>2. Code' = Code /\ at' \in 2 .. Len(Code)
    BY <1>0, <2>1 DEF Code, InCall
  <2>3. TypeOK'
    BY <2>1, <2>2 DEF Types, TypeOK, Typed
  <2> QED BY <1>0, <1>1, <2>1, <2>2, <2>3 DEF Types, Placed, ProgramOK, HandlerPCs
<1>6. CASE FindsNothing
  BY <1>2, <1>6, ReturnsTypes DEF FindsNothing, Returns, InCall
<1>7. ASSUME NEW e \in BOOLEAN, GoesOnWith(e) PROVE Types'
  BY <1>1, <1>2, <1>7, GoesOnTypes DEF GoesOnWith, InCall
<1> QED BY <1>2, <1>3, <1>4, <1>5, <1>6, <1>7 DEF Outcome

(* Which calls the handlers make.                                          *)
LEMMA CallPlaces ==
  ASSUME Types, pc \in HandlerPCs, at \in DOMAIN Code
  PROVE  /\ at \in 1 .. Len(Code) /\ Len(Code) \in Nat
         /\ Cur.call = "post" <=> pc = "create" /\ at = 1
         /\ Cur.call = "post" => Cur.only = {}
         /\ Cur.call \in {"delete", "deleteAgain", "pollGone"} <=> pc = "delete"
         /\ pc = "update" => Cur.error \in {"stop", "goOn"}
         /\ pc = "delete" =>
              /\ Cur.error \in {"stop", "goOn", "ignore"} /\ Cur.only = {}
              /\ Cur.error = "ignore" => Cur.call = "pollGone" \/ kind = "interface"
              /\ Cur.call = "pollGone" => at > 1
<1>1. /\ Creates(R["create"]) /\ Updates(R["update"]) /\ Deletes(kind, R["delete"])
  BY ProgramShaped DEF Types, Shaped
<1>2. CASE pc = "create"
  BY <1>1, <1>2 DEF Creates, Code, Cur
<1>3. CASE pc = "update"
  BY <1>1, <1>3 DEF Updates, Code, Cur
<1>4. CASE pc = "delete"
  BY <1>1, <1>4 DEF Deletes, Code, Cur
<1> QED BY <1>2, <1>3, <1>4 DEF HandlerPCs

LEMMA CallFailsOutcome ==
  ASSUME Types, InCall, at \in DOMAIN Code, CallFails,
         pc = "delete" /\ Cur.error = "ignore" => Effective
  PROVE  Outcome
<1>1. pc = "create" => made \in Ids
  BY CallPlaces DEF InCall, Types, Placed, TypeOK
<1>2. pc # "create" => Cur.error \in {"stop", "goOn", "ignore"}
  BY CallPlaces DEF InCall, HandlerPCs
<1>3. pc # "delete" => Effective
  BY DEF Effective
<1>4. CASE Cur.error = "stop" /\ Stop
  BY <1>4 DEF Outcome
<1>5. CASE Cur.error = "keep" /\ Keep(IF R.early THEN Answered ELSE Planned)
  <2>1. pc = "create"
    BY <1>2, <1>5
  <2>2. Default \in Attrs
    BY DefaultTyped
  <2>3. Answered \in Attrs /\ Attrs \subseteq PlannedAttrs
    BY <2>2, RecordTyped DEF Types, Attrs, PlannedAttrs
  <2>4. Planned \in PlannedAttrs
    BY PlanTyped DEF Types
  <2>5. made # NoId
    BY <1>1, <2>1, IdsAssumption
  <2> QED BY <1>5, <2>1, <2>3, <2>4, <2>5 DEF Outcome, Keeps
<1>6. CASE /\ Cur.error = "refetch"
           /\ Stop \/ (Exists(made) /\ Keep(Recorded(cloud[made].attrs, Planned)))
  <2>1. pc = "create" /\ made \in Ids /\ made # NoId
    BY <1>1, <1>2, <1>6, IdsAssumption
  <2>2. cloud[made].attrs \in Attrs
    BY <2>1 DEF Types, TypeOK, Object, Attrs
  <2>3. Recorded(cloud[made].attrs, Planned) \in PlannedAttrs
    BY <2>2, RecordTyped, PlanTyped DEF Types
  <2> QED BY <1>6, <2>1, <2>3 DEF Outcome, Keeps
<1>7. CASE Cur.error = "goOn" /\ UNCHANGED stale /\ GoesOn(made, TRUE)
  BY <1>7 DEF Outcome, GoesOnWith
<1>8. CASE Cur.error = "ignore" /\ Tolerated
  <2>1. Effective
    BY <1>3, <1>8
  <2> QED BY <1>8, <2>1 DEF Tolerated, Proceeds, Outcome, GoesOnWith
<1>9. CASE /\ Cur.error = "rollback"
           /\ at' = Len(Code) /\ failed' = TRUE
           /\ UNCHANGED <<pc, entry, known, made, disclosed, stale, settled, env,
                          kind, R, tainted>>
  BY <1>2, <1>9 DEF Outcome, RollsBack
<1> QED BY <1>4, <1>5, <1>6, <1>7, <1>8, <1>9 DEF CallFails

-----------------------------------------------------------------------------
(* What a call does to the service: it creates and removes nothing, and    *)
(* only touches the object the handler is about.                           *)
Reaches ==
  /\ \A i \in Ids : Exists(i)' <=> Exists(i)
  /\ \A i \in Ids : i \notin {entry, made} => cloud'[i] = cloud[i]
  /\ faults' >= faults

LEMMA Calm ==
  ASSUME Types, UNCHANGED cloud, NoFault \/ Fault
  PROVE  Typed /\ Reaches
<1>1. faults' \in 0 .. MaxFaults /\ faults' >= faults
  BY BoundsAssumption DEF NoFault, Fault, Types, TypeOK
<1> QED BY <1>1 DEF Typed, Reaches, Exists, Types, TypeOK

(* A handler past its creating request has an object to ask for.           *)
LEMMA CallTarget ==
  ASSUME Types, InCall, at \in DOMAIN Code
  PROVE  /\ Target \in Ids /\ Target \in {entry, made}
         /\ pc = "delete" => Target = entry /\ entry \in Ids
<1>1. Len(Code) \in Nat /\ at \in Nat
  BY CallPlaces DEF InCall
<1>2. pc = "create" => at # 1
  BY <1>1 DEF InCall
<1> QED BY <1>2 DEF Target, InCall, HandlerPCs, Types, Placed, TypeOK

(* Where a call that is not the creating request is made.                  *)
LEMMA CallMade ==
  ASSUME Types, NEW c, At(c), c # "post"
  PROVE  InCall /\ at \in DOMAIN Code /\ Cur.call = c
<1>1. pc \in HandlerPCs /\ at \in DOMAIN Code /\ Cur.call = c
  BY DEF At
<1>2. at \in 1 .. Len(Code) /\ Len(Code) \in Nat /\ (Cur.call = "post" <=> pc = "create" /\ at = 1)
  BY <1>1, CallPlaces
<1> QED BY <1>1, <1>2 DEF InCall

LEMMA ProceedsOutcome ==
  ASSUME Types, Proceeds, Effective
  PROVE  Outcome
BY DEF Proceeds, Outcome, GoesOnWith

(* The calls of Create and Update that ask nothing of the service but an   *)
(* answer.                                                                 *)
Questions ==
  \/ Skip \/ NoCalls \/ UnsupportedFails \/ GetOk \/ LookupOk \/ GetFails
  \/ PollReady \/ PollFails \/ UndoNothing \/ UndoFails

LEMMA QuestionsOutcome ==
  ASSUME Types, Questions
  PROVE  InCall /\ Typed /\ Outcome /\ Reaches
<1>1. UNCHANGED cloud /\ (NoFault \/ Fault)
  BY DEF Questions, Skip, NoCalls, UnsupportedFails, GetOk, LookupOk, GetFails,
         PollReady, PollFails, UndoNothing, UndoFails, Quiet
<1>2. InCall /\ pc # "delete"
  <2>1. ASSUME NEW c \in {"unsupported", "get", "lookup", "poll", "undo"}, At(c)
        PROVE  InCall /\ pc # "delete"
    <3>1. InCall /\ at \in DOMAIN Code /\ Cur.call = c
      BY <2>1, CallMade
    <3> QED BY <2>1, <3>1, CallPlaces DEF InCall
  <2>2. CASE Skip
    <3>1. pc \in HandlerPCs /\ at \in DOMAIN Code /\ Cur.only # {}
      BY <2>2 DEF Skip
    <3>2. /\ at \in 1 .. Len(Code) /\ Len(Code) \in Nat
          /\ ~(pc = "create" /\ at = 1) /\ pc # "delete"
      BY <3>1, CallPlaces
    <3> QED BY <3>1, <3>2 DEF InCall
  <2>3. CASE NoCalls
    <3>1. pc \in HandlerPCs /\ Code = << >>
      BY <2>3 DEF NoCalls
    <3>2. Len(Code) = 0
      BY <3>1
    <3>3. Len(R["create"]) # 0 /\ Len(R["delete"]) # 0
      BY ProgramShaped DEF Types, Shaped, Creates, Deletes
    <3> QED BY <3>1, <3>2, <3>3 DEF InCall, Code
  <2> QED BY <2>1, <2>2, <2>3
          DEF Questions, UnsupportedFails, GetOk, LookupOk, GetFails, PollReady,
              PollFails, UndoNothing, UndoFails
<1>3. Effective
  BY <1>2 DEF Effective
<1>4. Proceeds => Outcome
  BY <1>3, ProceedsOutcome
<1>5. Stop => Outcome
  BY DEF Outcome
<1>6. CallFails /\ at \in DOMAIN Code => Outcome
  BY <1>2, <1>3, CallFailsOutcome
<1>7. Outcome
  BY <1>4, <1>5, <1>6
     DEF Questions, Skip, NoCalls, UnsupportedFails, GetOk, LookupOk, GetFails,
         PollReady, PollFails, UndoNothing, UndoFails, At
<1> QED BY <1>1, <1>2, <1>7, Calm

(* Those that ask for a change.                                            *)
Requests == SendAccepted \/ SendReplyLost \/ SendRefused \/ UndoDone

LEMMA RequestsOutcome ==
  ASSUME Types, Requests
  PROVE  InCall /\ Typed /\ Outcome /\ Reaches
<1>1. InCall /\ pc # "delete" /\ at \in DOMAIN Code
  <2>1. At("send") \/ At("undo")
    BY DEF Requests, SendAccepted, SendReplyLost, SendRefused, UndoDone, Asked
  <2>2. InCall /\ at \in DOMAIN Code /\ Cur.call \in {"send", "undo"}
    BY <2>1, CallMade
  <2> QED BY <2>2, CallPlaces DEF InCall
<1>2. Effective
  BY <1>1 DEF Effective
<1>3. Outcome
  <2>1. Proceeds => Outcome
    BY <1>2, ProceedsOutcome
  <2>2. CallFails => Outcome
    BY <1>1, <1>2, CallFailsOutcome
  <2> QED BY <2>1, <2>2
          DEF Requests, SendAccepted, SendReplyLost, SendRefused, UndoDone, Outcome
<1>4. Target \in Ids /\ Target \in {entry, made}
  BY <1>1, CallTarget
<1>5. faults' \in 0 .. MaxFaults /\ faults' >= faults
  BY BoundsAssumption
     DEF Requests, SendAccepted, SendReplyLost, SendRefused, UndoDone, NoFault, Fault,
         Types, TypeOK
<1>6. ASSUME Asked(Target) PROVE Typed /\ Reaches
  <2> DEFINE goal == [f \in Fields |-> IF f \in Carried(Cur) THEN Planned[f]
                                       ELSE cloud[Target].goal[f]]
             o == [cloud[Target] EXCEPT !.status = Accepted, !.goal = goal,
                     !.attrs = IF R.prompt THEN goal ELSE cloud[Target].attrs]
  <2>1. cloud[Target] \in Object /\ Planned \in PlannedAttrs
    BY <1>4, PlanTyped DEF Types, TypeOK
  <2>2. \A f \in Fields : f \in Carried(Cur) => Planned[f] \in Recordable
    <3>1. \A f \in Fields : f \in Carried(Cur) => Planned[f] # Unknown
      BY DEF Carried, Differs
    <3> QED BY <2>1, <3>1 DEF PlannedAttrs
  <2>3. goal \in [Fields -> Recordable]
    BY <2>1, <2>2 DEF Object
  <2>4. Accepted \in Status /\ Accepted # "GONE"
    BY DEF Accepted, Status
  <2>5. cloud' = [cloud EXCEPT ![Target] = o]
    BY <1>4, <1>6 DEF Asked, Types, TypeOK
  <2> HIDE DEF goal
  <2>6. o \in Object /\ o.status # "GONE"
    BY <2>1, <2>3, <2>4 DEF Object
  <2> HIDE DEF o
  <2>7. Exists(Target)
    BY <1>6 DEF Asked, Accepting, Exists
  <2> QED BY <1>4, <1>5, <2>5, <2>6, <2>7 DEF Typed, Reaches, Exists, Types, TypeOK
<1>7. CASE UndoDone
  <2>1. At("undo") /\ cloud' = IF Exists(made) THEN [cloud EXCEPT ![made].status = "DELETING"]
                               ELSE cloud
    BY <1>7 DEF UndoDone
  <2>2. (Exists(made) /\ made \in Ids) \/ UNCHANGED cloud
    <3>1. made \in Ids \cup {NoId} /\ (pc = "create" => made # NoId)
      BY <1>1, CallPlaces DEF Types, Placed, TypeOK, InCall
    <3>2. pc = "create"
      <4>1. Cur.call = "undo"
        BY <2>1 DEF At
      <4>2. /\ Updates(R["update"]) /\ pc \in HandlerPCs
        BY <1>1, ProgramShaped DEF Types, Shaped, InCall
      <4> QED BY <1>1, <4>1, <4>2 DEF Updates, HandlerPCs, Cur, Code
    <3> QED BY <2>1, <3>1, <3>2
  <2>3. CASE UNCHANGED cloud
    BY <1>1, <1>3, <1>7, <2>3, Calm DEF UndoDone
  <2>4. CASE Exists(made) /\ made \in Ids
    <3>1. cloud' = [cloud EXCEPT ![made].status = "DELETING"] /\ cloud \in [Ids -> Object]
      BY <2>1, <2>4 DEF Types, TypeOK
    <3>2. cloud' \in [Ids -> Object]
      BY <2>4, <3>1 DEF Object, Status
    <3>3. cloud'[made].status = "DELETING" /\ \A i \in Ids \ {made} : cloud'[i] = cloud[i]
      BY <2>4, <3>1 DEF Object
    <3> QED BY <1>1, <1>3, <1>5, <2>4, <3>2, <3>3 DEF Typed, Reaches, Exists
  <2> QED BY <1>1, <1>3, <2>2, <2>3, <2>4
<1>8. CASE SendRefused
  BY <1>1, <1>3, <1>8, Calm DEF SendRefused
<1> QED BY <1>1, <1>3, <1>6, <1>7, <1>8 DEF Requests, SendAccepted, SendReplyLost

(* The program of a resource stays the same.                               *)
LEMMA SameProgram ==
  /\ CallFails => UNCHANGED <<kind, R>>
  /\ Outcome => UNCHANGED <<kind, R>>
BY DEF CallFails, Outcome, Keeps, GoesOnWith, FindsNothing, RollsBack, Keep, Stop,
       Tolerated, Proceeds, GoesOn

(* What is safe from one moment to the next.                               *)
LEMMA StaysSafe ==
  ASSUME Types, NEW i \in Ids, Safe(i), kind' = kind, faults' >= faults,
         faults' \in Nat,
         cloud'[i] = cloud[i] \/ cloud'[i].status \in {"DELETING", "ERROR", "GONE"}
  PROVE  Safe(i)'
BY DEF Safe, Exists, Types, TypeOK

(* Delete's calls.                                                         *)
Deletions ==
  \/ DeleteAccepted \/ DeleteReplyLost \/ DeleteRefused
  \/ DeleteAgainGone \/ DeleteAgainDone \/ DeleteAgainFails
  \/ PollGoneDone \/ PollGoneFails

LEMMA DeletionsOutcome ==
  ASSUME Types, Deleting, Deletions
  PROVE  InCall /\ Typed /\ Outcome /\ Reaches
<1> USE DEF Deletions, DeleteAccepted, DeleteReplyLost, DeleteRefused,
            DeleteAgainGone, DeleteAgainDone, DeleteAgainFails, PollGoneDone,
            PollGoneFails
<1>1. \E c \in {"delete", "deleteAgain", "pollGone"} : At(c)
  OBVIOUS
<1>2. /\ InCall /\ at \in DOMAIN Code /\ pc = "delete"
      /\ Cur.call \in {"delete", "deleteAgain", "pollGone"}
  <2>1. InCall /\ at \in DOMAIN Code /\ Cur.call \in {"delete", "deleteAgain", "pollGone"}
    BY <1>1, CallMade
  <2> QED BY <2>1, CallPlaces DEF InCall
<1>3. entry \in Ids
  BY <1>2, CallTarget
<1>4. Cur.error = "ignore" => kind = "interface" \/ (Cur.call = "pollGone" /\ at > 1)
  BY <1>2, CallPlaces DEF InCall
<1>5. NoFault \/ Fault
  BY DEF Quiet
<1>6. faults' \in 0 .. MaxFaults /\ faults' >= faults
  BY <1>5, BoundsAssumption DEF NoFault, Fault, Types, TypeOK
<1>7. Typed /\ Reaches
  <2>1. CASE UNCHANGED cloud
    BY <1>5, <2>1, Calm
  <2>2. CASE RequestDelete
    <3>1. Exists(entry) /\ cloud' = [cloud EXCEPT ![entry].status = "DELETING"]
      BY <2>2 DEF RequestDelete
    <3>2. cloud \in [Ids -> Object]
      BY DEF Types, TypeOK
    <3>3. cloud' \in [Ids -> Object]
      BY <1>3, <3>1, <3>2 DEF Object, Status
    <3>4. cloud'[entry].status = "DELETING" /\ \A i \in Ids \ {entry} : cloud'[i] = cloud[i]
      BY <1>3, <3>1, <3>2 DEF Object
    <3> QED BY <1>3, <1>6, <3>1, <3>3, <3>4 DEF Typed, Reaches, Exists
  <2> QED BY <2>1, <2>2 DEF Quiet
<1>8. ASSUME RequestDelete PROVE \A i \in {entry} : Safe(i)'
  BY <1>3, <1>8 DEF RequestDelete, Safe, Types, TypeOK, Object
<1>9. ASSUME UNCHANGED cloud, ~Exists(entry) PROVE \A i \in {entry} : Safe(i)'
  BY <1>9 DEF Safe, Exists
<1>10. ASSUME kind' = kind, UNCHANGED cloud, Cur.call = "pollGone" PROVE Effective
  <2>1. at > 1
    BY <1>2, <1>10, CallPlaces DEF InCall
  <2>2. ~failed => Safe(entry)
    BY <1>2, <2>1 DEF Deleting
  <2>3. faults' \in Nat
    BY <1>6, BoundsAssumption
  <2> QED BY <1>3, <1>6, <1>10, <2>2, <2>3, StaysSafe DEF Effective
<1>11. CallFails /\ at \in DOMAIN Code => Outcome
  <2>1. ASSUME CallFails, Cur.error = "ignore" PROVE Effective
    <3>1. kind' = kind
      BY <2>1, SameProgram
    <3>2. CASE Cur.call = "pollGone"
      <4>1. UNCHANGED cloud
        BY <3>2 DEF At, Quiet
      <4> QED BY <1>10, <3>1, <3>2, <4>1
    <3>3. CASE Cur.call # "pollGone"
      <4>1. kind = "interface"
        BY <1>4, <2>1, <3>3
      <4>2. Fault => faults' > 0
        BY <1>6, BoundsAssumption DEF Fault, Types, TypeOK
      <4>3. RequestDelete \/ Fault \/ (UNCHANGED cloud /\ ~Exists(entry))
        BY <3>3 DEF At, Quiet
      <4> QED BY <1>8, <1>9, <3>1, <4>1, <4>2, <4>3 DEF Effective, Safe
    <3> QED BY <3>2, <3>3
  <2> QED BY <1>2, <2>1, CallFailsOutcome
<1>12. CASE DeleteAgainGone
  BY <1>2, <1>7, <1>12 DEF Outcome, FindsNothing
<1>13. CASE (DeleteAccepted \/ DeleteAgainDone \/ PollGoneDone)
  <2>1. Proceeds /\ Effective
    BY <1>8, <1>9, <1>13 DEF Effective, Quiet
  <2> QED BY <1>2, <1>7, <2>1, ProceedsOutcome
<1>14. CASE (DeleteReplyLost \/ DeleteRefused \/ DeleteAgainFails \/ PollGoneFails)
  <2>1. CallFails \/ Stop
    BY <1>14
  <2>2. Stop => Outcome
    BY DEF Outcome
  <2> QED BY <1>2, <1>7, <1>11, <2>1, <2>2
<1> QED BY <1>12, <1>13, <1>14

LEMMA TimeoutOutcome ==
  ASSUME Types, Deleting, Timeout
  PROVE  InCall /\ Typed /\ Outcome /\ Reaches
<1>1. (At("poll") \/ At("pollGone")) /\ UNCHANGED cloud /\ NoFault
  BY DEF Timeout, Quiet
<1>2. Typed /\ Reaches
  BY <1>1, Calm
<1>3. InCall /\ at \in DOMAIN Code
  BY <1>1, CallMade
<1>4. At("poll") => Effective
  <2>1. At("poll") => pc # "delete"
    BY <1>3, CallPlaces DEF At, InCall
  <2> QED BY <2>1 DEF Effective
<1>5. ASSUME At("pollGone"), Proceeds PROVE Effective
  <2>1. pc \in HandlerPCs /\ Cur.call = "pollGone"
    BY <1>5 DEF At
  <2>2. pc = "delete" /\ at > 1
    BY <1>3, <2>1, CallPlaces DEF InCall
  <2>3. entry \in Ids
    BY <1>3, <2>2, CallTarget
  <2>4. ~failed => Safe(entry)
    BY <2>2 DEF Deleting
  <2>5. kind' = kind
    BY <1>5 DEF Proceeds, GoesOn
  <2>6. faults' \in Nat /\ faults' >= faults
    BY <1>2, BoundsAssumption DEF Typed, Reaches
  <2> QED BY <1>1, <2>3, <2>4, <2>5, <2>6, StaysSafe DEF Effective
<1>6. CASE At("poll") /\ CallFails
  BY <1>2, <1>3, <1>4, <1>6, CallFailsOutcome
<1>7. CASE Stop
  BY <1>2, <1>3, <1>7 DEF Outcome
<1>8. CASE Proceeds
  BY <1>1, <1>2, <1>3, <1>4, <1>5, <1>8, ProceedsOutcome
<1> QED BY <1>6, <1>7, <1>8 DEF Timeout

Calls == Questions \/ Requests \/ Deletions \/ Timeout

LEMMA CallsOutcome ==
  ASSUME Types, Deleting, Calls
  PROVE  InCall /\ Typed /\ Outcome /\ Reaches
BY QuestionsOutcome, RequestsOutcome, DeletionsOutcome, TimeoutOutcome DEF Calls

-----------------------------------------------------------------------------
(* No object is lost without an error.                                     *)

(* Who knows of an object.                                                 *)
Kept(i) == i \in disclosed \cup {entry, made}

(* What is imported was left behind by a run that failed.                  *)
Importing == pc = "import" => made \in disclosed \/ ~Exists(made)

LedgerInv == Types /\ Deleting /\ Importing /\ NoServingOrphan

LEMMA Ledger ==
  ASSUME NoServingOrphan,
         \A i \in Ids : Safe(i) => Safe(i)' \/ Kept(i)',
         \A i \in Ids : Kept(i) => Kept(i)' \/ Safe(i)'
  PROVE  NoServingOrphan'
BY DEF NoServingOrphan, Safe, Kept

(* A call ends with the object recorded, held, left behind with an error,  *)
(* or safe.                                                                *)
LEMMA CallsKeep ==
  ASSUME LedgerInv, Calls
  PROVE  LedgerInv'
<1>1. InCall /\ Typed /\ Outcome /\ Reaches
  BY CallsOutcome DEF LedgerInv
<1>2. Types'
  BY <1>1, OutcomeTypes DEF LedgerInv
<1>3. kind' = kind /\ faults' >= faults /\ faults' \in Nat
  BY <1>1, SameProgram, BoundsAssumption DEF Reaches, Typed
<1>4. made \in Ids \cup {NoId} /\ (pc = "create" => entry = NoId /\ made \in Ids)
  <2>1. at \in Nat /\ (pc = "create" => at # 1)
    BY <1>1, CodeTyped DEF InCall, Code, LedgerInv, Types, TypeOK
  <2> QED BY <2>1 DEF LedgerInv, Types, Placed, TypeOK
<1>5. /\ pc' # "import"
      /\ pc' = "delete" => /\ pc = "delete"
                           /\ entry' = entry
                           /\ failed' \/ (Effective /\ failed' = failed) \/ at' = 1
  BY <1>1 DEF InCall, HandlerPCs, Outcome, Stop, Fail, Keeps, Keep, RollsBack,
              FindsNothing, DeleteReturns, GoesOnWith, GoesOn, Ends, Returns,
              CreateReturns, UpdateReturns
<1>6. Deleting' /\ Importing'
  BY <1>5 DEF Deleting, Importing, Effective
<1>7. ASSUME NEW i \in Ids, Kept(i) PROVE Kept(i)' \/ Safe(i)'
  <2>1. i # NoId
    BY IdsAssumption
  <2>2. Exists(i)' <=> Exists(i)
    BY <1>1 DEF Reaches
  <2>3. CASE Stop
    BY <1>7, <2>1, <2>2, <2>3 DEF Stop, Fail, Kept, Safe
  <2>4. CASE Keeps
    BY <1>4, <1>7, <2>1, <2>4 DEF Keeps, Keep, Kept
  <2>5. CASE RollsBack
    BY <1>7, <2>5 DEF RollsBack, Kept
  <2>6. CASE FindsNothing
    BY <1>7, <2>1, <2>2, <2>6 DEF FindsNothing, DeleteReturns, Kept, Safe
  <2>7. ASSUME GoesOn(made, TRUE) PROVE Kept(i)'
    BY <1>4, <1>7, <2>1, <2>7
       DEF GoesOn, Returns, CreateReturns, UpdateReturns, DeleteReturns, Kept
  <2>8. ASSUME GoesOn(made, failed), Effective PROVE Kept(i)' \/ Safe(i)'
    BY <1>4, <1>7, <2>1, <2>8
       DEF GoesOn, Returns, CreateReturns, UpdateReturns, DeleteReturns, Kept, Effective
  <2> QED BY <1>1, <2>3, <2>4, <2>5, <2>6, <2>7, <2>8 DEF Outcome, GoesOnWith
<1>8. ASSUME NEW i \in Ids, Safe(i) PROVE Safe(i)' \/ Kept(i)'
  <2>1. CASE i \in {entry, made}
    BY <1>7, <2>1 DEF Kept
  <2>2. CASE i \notin {entry, made}
    BY <1>1, <1>3, <1>8, <2>2, StaysSafe DEF Reaches, LedgerInv
  <2> QED BY <2>1, <2>2
<1> QED BY <1>2, <1>6, <1>7, <1>8, Ledger DEF LedgerInv

(* The creating request.                                                   *)
LEMMA PostKeeps ==
  ASSUME LedgerInv, PostRefused \/ \E i \in Ids : PostAccepted(i) \/ PostReplyLost(i)
  PROVE  LedgerInv'
<1>1. pc = "create" /\ at = 1 /\ made = NoId /\ entry = NoId /\ at \in DOMAIN Code
  <2>1. At("post")
    BY DEF PostRefused, PostAccepted, PostReplyLost, Posted
  <2>2. pc \in HandlerPCs /\ at \in DOMAIN Code /\ Cur.call = "post"
    BY <2>1 DEF At
  <2> QED BY <2>2, CallPlaces DEF LedgerInv, Types, Placed
<1>2. faults' \in 0 .. MaxFaults /\ faults' >= faults
  BY BoundsAssumption
     DEF PostRefused, PostAccepted, PostReplyLost, NoFault, Fault, LedgerInv, Types, TypeOK
<1>3. CASE PostRefused
  <2>1. Stop /\ UNCHANGED cloud
    BY <1>3 DEF PostRefused
  <2>2. Types'
    BY <1>2, <2>1, StopTypes DEF LedgerInv, Typed, Types, TypeOK
  <2>3. /\ pc' = "idle" /\ kind' = kind
        /\ entry' = entry /\ disclosed' = disclosed /\ made' = made
    BY <1>1, <2>1 DEF Stop, Fail
  <2>4. \A i \in Ids : (Safe(i) => Safe(i)') /\ (Kept(i) => Kept(i)')
    BY <1>2, <2>1, <2>3, StaysSafe, BoundsAssumption DEF LedgerInv, Kept
  <2> QED BY <2>2, <2>3, <2>4, Ledger DEF LedgerInv, Deleting, Importing
<1>4. ASSUME NEW i \in Ids, Posted(i)
      PROVE  /\ Typed
             /\ \A j \in Ids \ {i} : cloud'[j] = cloud[j]
  <2>1. PICK note \in Notes, left \in Left : cloud' = [cloud EXCEPT ![i] = Made(note, left)]
    BY <1>4 DEF Posted
  <2>2. Answered \in Attrs
    <3>1. Default \in Attrs
      BY DefaultTyped
    <3> QED BY <3>1, RecordTyped DEF LedgerInv, Types
  <2>3. note \in Recordable
    BY <2>2 DEF Notes, Attrs, Recordable, Fields
  <2>4. Made(note, left) \in Object
    <3> DEFINE a == [f \in Fields |-> IF f = "note" THEN note
                                      ELSE IF f \in left THEN Null ELSE Answered[f]]
    <3>1. a \in [Fields -> Recordable]
      BY <2>2, <2>3 DEF Attrs, Recordable
    <3>2. Accepted \in Status
      BY DEF Accepted, Status
    <3> HIDE DEF a
    <3>3. [status |-> Accepted, attrs |-> a, goal |-> a] \in Object
      BY <3>1, <3>2 DEF Object
    <3> QED BY <3>3 DEF Made, a
  <2> QED BY <1>2, <2>1, <2>4 DEF Typed, LedgerInv, Types, TypeOK
<1>5. ASSUME NEW i \in Ids, PostAccepted(i) PROVE LedgerInv'
  <2>1. /\ Typed /\ \A j \in Ids \ {i} : cloud'[j] = cloud[j]
        /\ stale' \in BOOLEAN /\ i # NoId
        /\ GoesOn(i, failed \/ Sourceless) /\ (failed \/ Sourceless) \in BOOLEAN
    BY <1>4, <1>5, IdsAssumption DEF PostAccepted, LedgerInv, Types, TypeOK
  <2>2. Types'
    BY <1>1, <2>1, GoesOnTypes DEF LedgerInv, HandlerPCs
  <2>3. /\ pc' \in {"create", "idle"} /\ kind' = kind /\ disclosed' = disclosed
        /\ entry' = i \/ made' = i
    BY <1>1, <2>1 DEF GoesOn, Returns, CreateReturns
  <2>4. \A j \in Ids : (Safe(j) => Safe(j)' \/ Kept(j)') /\ (Kept(j) => Kept(j)' \/ Safe(j)')
    <3>1. \A j \in Ids : j = i => Kept(j)'
      BY <2>3 DEF Kept
    <3>2. \A j \in Ids : Kept(j) => Kept(j)'
      BY <1>1, <2>3, IdsAssumption DEF Kept
    <3> QED BY <1>2, <2>1, <2>3, <3>1, <3>2, StaysSafe, BoundsAssumption DEF LedgerInv
  <2> QED BY <2>2, <2>3, <2>4, Ledger DEF LedgerInv, Deleting, Importing
<1>6. ASSUME NEW i \in Ids, PostReplyLost(i) PROVE LedgerInv'
  <2>1. Typed /\ \A j \in Ids \ {i} : cloud'[j] = cloud[j]
    BY <1>4, <1>6 DEF PostReplyLost
  <2>2. /\ pc' = "idle" /\ stale' = TRUE /\ disclosed' = disclosed \cup {i}
        /\ at' = 1 /\ failed' = FALSE
        /\ UNCHANGED <<entry, known, made, settled, config, edits, kind, R, tainted>>
    BY <1>6 DEF PostReplyLost, Ends, env
  <2>3. TypeOK'
    BY <2>1, <2>2 DEF LedgerInv, Types, TypeOK, Typed, PCs, HandlerPCs
  <2>4. Types'
    BY <1>1, <2>2, <2>3 DEF LedgerInv, Types, Placed, ProgramOK, HandlerPCs
  <2>5. \A j \in Ids : (Safe(j) => Safe(j)' \/ Kept(j)') /\ (Kept(j) => Kept(j)' \/ Safe(j)')
    <3>1. \A j \in Ids : (j = i => Kept(j)') /\ (Kept(j) => Kept(j)')
      BY <2>2 DEF Kept
    <3> QED BY <1>2, <2>1, <2>2, <3>1, StaysSafe, BoundsAssumption DEF LedgerInv
  <2> QED BY <2>2, <2>4, <2>5, Ledger DEF LedgerInv, Deleting, Importing
<1> QED BY <1>3, <1>5, <1>6

(* Terraform's steps, and the user's, leave the service alone.             *)
LEMMA QuietKeeps ==
  ASSUME LedgerInv, Types', UNCHANGED cloud, kind' = kind, faults' >= faults,
         pc' \in {"delete", "import"} => at' = 1 /\ pc # pc',
         pc' = "import" => made' \in disclosed',
         \A i \in Ids : Kept(i) => Kept(i)' \/ ~Exists(i)
  PROVE  LedgerInv'
<1>1. faults' \in Nat
  BY BoundsAssumption DEF Types, TypeOK
<1>2. \A i \in Ids : Safe(i) => Safe(i)'
  BY <1>1, StaysSafe DEF LedgerInv
<1>3. \A i \in Ids : ~Exists(i) => Safe(i)'
  BY <1>2 DEF Safe
<1> QED BY <1>2, <1>3, Ledger DEF LedgerInv, Deleting, Importing

LEMMA FaultTypes ==
  ASSUME TypeOK, NoFault \/ Fault
  PROVE  faults' \in 0 .. MaxFaults /\ faults' >= faults
BY BoundsAssumption DEF NoFault, Fault, TypeOK

LEMMA PlanKeeps ==
  ASSUME LedgerInv, PlanNothing \/ PlanCreate \/ PlanUpdate \/ PlanDelete
  PROVE  LedgerInv'
<1> USE DEF PlanNothing, PlanCreate, PlanUpdate, PlanDelete, NothingPlanned,
            CreatePlanned, UpdatePlanned, DeletePlanned, Goto, NoFault, env, program
<1>1. /\ UNCHANGED <<cloud, entry, known, made, disclosed, stale, config, faults,
                     edits, kind, R, at, failed, tainted>>
      /\ pc = "plan" /\ pc' \in {"idle", "create", "update", "delete"}
      /\ settled' \in BOOLEAN
      /\ pc' = "create" => entry = NoId
      /\ pc' \in {"update", "delete"} => entry # NoId
  BY DEF LedgerInv, Types, TypeOK
<1>2. made = NoId /\ at = 1 /\ failed = FALSE
  BY <1>1 DEF LedgerInv, Types, Placed, HandlerPCs
<1>3. \A c \in HandlerPCs : Len(R[c]) \in Nat
  BY CodeTyped DEF LedgerInv, Types
<1>4. TypeOK'
  BY <1>1, <1>2, <1>3 DEF LedgerInv, Types, TypeOK, PCs, HandlerPCs, Code
<1>5. Types'
  BY <1>1, <1>2, <1>4 DEF LedgerInv, Types, Placed, ProgramOK, HandlerPCs
<1>6. faults' >= faults
  BY <1>1 DEF LedgerInv, Types, TypeOK
<1> QED BY <1>1, <1>2, <1>5, <1>6, QuietKeeps DEF Kept

(* A Read and an import record what the service shows.                     *)
LEMMA ShownTyped ==
  ASSUME TypeOK, NEW i \in Ids
  PROVE  /\ Recorded(cloud[i].attrs, known) \in Attrs
         /\ Recorded(cloud[i].attrs, [f \in Fields |-> Null]) \in Attrs
         /\ MidChange(i) \in BOOLEAN
<1>1. cloud[i].attrs \in Attrs /\ known \in Attrs
  BY DEF TypeOK, Object, Attrs
<1>2. [f \in Fields |-> Null] \in Attrs
  BY DEF Attrs, Recordable
<1> QED BY <1>1, <1>2, RecordTyped DEF MidChange

LEMMA ReadKeeps ==
  ASSUME LedgerInv,
         ReadOk \/ ReadFails \/ ReadRemoves \/ (\E f \in Fields : ReadMisses(f))
  PROVE  LedgerInv'
<1>1. /\ pc = "read" /\ UNCHANGED cloud /\ faults' \in 0 .. MaxFaults /\ faults' >= faults
      /\ made = NoId /\ entry \in Ids
  BY FaultTypes DEF ReadOk, ReadFails, ReadRemoves, ReadMisses, NoFault,
                    LedgerInv, Types, Placed, TypeOK
<1>2. /\ Recorded(cloud[entry].attrs, known) \in Attrs
      /\ MidChange(entry) \in BOOLEAN
  BY <1>1, ShownTyped DEF LedgerInv, Types
<1>3. CASE ReadFails
  <2>1. Types'
    BY <1>1, <1>3, StopTypes DEF ReadFails, LedgerInv, Typed, Types, TypeOK
  <2>2. /\ pc' = "idle" /\ kind' = kind /\ entry' = entry
        /\ made' = made /\ disclosed' = disclosed
    BY <1>1, <1>3 DEF ReadFails, Stop, Fail
  <2> QED BY <1>1, <2>1, <2>2, QuietKeeps DEF Kept
<1>4. CASE ReadOk \/ ReadRemoves \/ (\E f \in Fields : ReadMisses(f))
  <2>1. known' \in [Fields -> Recordable]
    <3>1. Default \in Attrs
      BY DefaultTyped
    <3>2. \A f \in Fields : Absent(f) \in Recordable
      BY <3>1 DEF Absent, Attrs, Recordable
    <3>3. \A f \in Fields : ReadMisses(f) => known' \in [Fields -> Recordable]
      BY <1>2, <3>2 DEF ReadMisses, Attrs
    <3> QED BY <1>2, <1>4, <3>1, <3>3 DEF ReadOk, ReadRemoves, Attrs
  <2>2. /\ pc' = "plan" /\ stale' \in BOOLEAN /\ tainted' \in BOOLEAN
        /\ UNCHANGED <<made, disclosed, settled, config, edits, kind, R, at, failed>>
        /\ entry' = entry \/ (entry' = NoId /\ ~Exists(entry))
    BY <1>2, <1>4 DEF ReadOk, ReadRemoves, ReadMisses, env, program, handler,
                      LedgerInv, Types, TypeOK
  <2>3. TypeOK'
    BY <1>1, <2>1, <2>2 DEF LedgerInv, Types, TypeOK, PCs, HandlerPCs
  <2>4. Types'
    BY <1>1, <2>2, <2>3 DEF LedgerInv, Types, Placed, ProgramOK, HandlerPCs
  <2> QED BY <1>1, <2>2, <2>4, QuietKeeps, IdsAssumption DEF Kept
<1> QED BY <1>3, <1>4

LEMMA ImportKeeps ==
  ASSUME LedgerInv, ImportOk \/ ImportFails
  PROVE  LedgerInv'
<1>1. /\ pc = "import" /\ UNCHANGED cloud /\ faults' \in 0 .. MaxFaults /\ faults' >= faults
      /\ made \in Ids /\ entry = NoId /\ at = 1 /\ failed = FALSE
  BY FaultTypes DEF ImportOk, ImportFails, Unrecorded, NoFault, HandlerPCs,
                    LedgerInv, Types, Placed, TypeOK
<1>2. /\ pc' = "idle" /\ made' = NoId
      /\ UNCHANGED <<settled, config, edits, kind, R, at, failed>>
  BY DEF ImportOk, ImportFails, env, program, handler
<1>3. CASE ImportOk
  <2>1. /\ entry' = made /\ disclosed' = disclosed \ {made} /\ tainted' = FALSE
        /\ stale' = MidChange(made)
        /\ known' = Recorded(cloud[made].attrs, [f \in Fields |-> Null])
    BY <1>3 DEF ImportOk, Unrecorded
  <2>2. known' \in [Fields -> Recordable] /\ stale' \in BOOLEAN
    BY <1>1, <2>1, ShownTyped DEF Attrs, LedgerInv, Types
  <2>3. TypeOK'
    BY <1>1, <1>2, <2>1, <2>2 DEF LedgerInv, Types, TypeOK, PCs, HandlerPCs
  <2>4. Types'
    BY <1>1, <1>2, <2>1, <2>3 DEF LedgerInv, Types, Placed, ProgramOK, HandlerPCs
  <2> QED BY <1>1, <1>2, <2>1, <2>4, QuietKeeps, IdsAssumption DEF Kept
<1>4. CASE ImportFails
  <2>1. UNCHANGED <<entry, known, disclosed, stale, tainted>>
    BY <1>4 DEF ImportFails, program
  <2>2. TypeOK'
    BY <1>1, <1>2, <2>1 DEF LedgerInv, Types, TypeOK, PCs, HandlerPCs
  <2>3. Types'
    BY <1>1, <1>2, <2>1, <2>2 DEF LedgerInv, Types, Placed, ProgramOK, HandlerPCs
  <2>4. made \in disclosed \/ ~Exists(made)
    BY <1>1 DEF LedgerInv, Importing
  <2> QED BY <1>1, <1>2, <2>1, <2>3, <2>4, QuietKeeps, IdsAssumption DEF Kept
<1> QED BY <1>3, <1>4

LEMMA UserKeeps ==
  ASSUME LedgerInv, User \/ Stopped
  PROVE  LedgerInv'
<1>1. CASE EditConfig /\ UNCHANGED program
  <2>1. /\ pc = "idle" /\ settled' = FALSE /\ edits' \in 0 .. MaxEdits
        /\ config' \in [want : BOOLEAN, attrs : Configs]
        /\ UNCHANGED <<cloud, entry, known, pc, made, disclosed, stale, faults,
                       kind, R, at, failed, tainted>>
    BY <1>1, BoundsAssumption DEF EditConfig, program, LedgerInv, Types, TypeOK
  <2>2. config' \in [want : BOOLEAN, attrs : [Fields -> Values \cup {Null}]]
    BY <2>1, DefaultTyped
  <2>3. TypeOK'
    BY <2>1, <2>2 DEF LedgerInv, Types, TypeOK, PCs, HandlerPCs
  <2>4. Types'
    BY <2>1, <2>3 DEF LedgerInv, Types, Placed, ProgramOK, HandlerPCs
  <2>5. faults' >= faults
    BY <2>1 DEF LedgerInv, Types, TypeOK
  <2> QED BY <2>1, <2>4, <2>5, QuietKeeps DEF Kept
<1>2. CASE (StartRun \/ \E i \in Ids : StartImport(i)) /\ UNCHANGED program
  <2>1. /\ pc = "idle" /\ settled' = FALSE
        /\ UNCHANGED <<cloud, entry, known, disclosed, stale, faults, config, edits,
                       kind, R, at, failed, tainted>>
        /\ \/ pc' = "plan" /\ entry = NoId /\ made' = made
           \/ pc' = "read" /\ entry # NoId /\ made' = made
           \/ pc' = "import" /\ entry = NoId /\ made' \in disclosed
    BY <1>2 DEF StartRun, StartImport, Goto, NoFault, env, program
  <2>2. /\ at = 1 /\ failed = FALSE /\ made = NoId
        /\ made' \in Ids \cup {NoId} /\ (pc' = "import" => made' \in Ids)
    BY <2>1 DEF LedgerInv, Types, Placed, TypeOK, HandlerPCs
  <2>3. TypeOK'
    BY <2>1, <2>2 DEF LedgerInv, Types, TypeOK, PCs, HandlerPCs
  <2>4. Types'
    BY <2>1, <2>2, <2>3, IdsAssumption DEF LedgerInv, Types, Placed, ProgramOK, HandlerPCs
  <2>5. faults' >= faults
    BY <2>1 DEF LedgerInv, Types, TypeOK
  <2> QED BY <2>1, <2>2, <2>4, <2>5, QuietKeeps DEF Kept
<1>3. CASE Stopped
  <2>1. Stop /\ UNCHANGED cloud /\ Fault
    BY <1>3 DEF Stopped, Crash, Stop
  <2>2. faults' \in 0 .. MaxFaults /\ faults' >= faults
    BY <2>1, FaultTypes DEF LedgerInv, Types
  <2>3. Types'
    BY <2>1, <2>2, StopTypes DEF LedgerInv, Typed, Types, TypeOK
  <2>4. /\ pc' = "idle" /\ kind' = kind /\ entry' = entry
        /\ disclosed' = disclosed \cup {i \in {made} : i # NoId /\ Exists(i)}
    BY <2>1 DEF Stop, Fail
  <2>5. \A i \in Ids : Kept(i) => Kept(i)' \/ ~Exists(i)
    BY <2>4, IdsAssumption DEF Kept
  <2> QED BY <2>1, <2>2, <2>3, <2>4, <2>5, QuietKeeps
<1> QED BY <1>1, <1>2, <1>3 DEF User

(* The service completes, breaks and removes objects, and other clients    *)
(* use it: none of that makes an object serve again.                       *)
LEMMA ServiceKeeps ==
  ASSUME LedgerInv, Service
  PROVE  LedgerInv'
<1> USE DEF LedgerInv
<1>1. PICK i \in Ids :
        \/ Settle(i) \/ Vanish(i) \/ Break(i) \/ ExternalDelete(i)
        \/ \E f \in Fields, v \in Values : Drift(i, f, v)
  BY DEF Service
<1>2. cloud[i] \in Object /\ NoObject \in Object /\ cloud \in [Ids -> Object]
  BY <1>1, DefaultTyped DEF Types, TypeOK
<1>3. faults' \in 0 .. MaxFaults /\ faults' >= faults
  BY <1>1, FaultTypes
     DEF Types, Settle, Vanish, Break, ExternalDelete, Drift, Completes, Disappears,
         Breaks, DeletedElsewhere, Drifts
<1>4. /\ UNCHANGED <<entry, known, config, pc, made, edits, kind, R, at, failed, tainted>>
      /\ disclosed' = disclosed \/ (disclosed' = disclosed \ {i} /\ Vanish(i))
      /\ stale' \in BOOLEAN /\ settled' \in BOOLEAN
  BY <1>1 DEF Settle, Vanish, Break, ExternalDelete, Drift, Completes, Disappears,
              Breaks, DeletedElsewhere, Drifts, Behind, ServiceOnly, env, program,
              Types, TypeOK
<1>5. PICK o \in Object :
        /\ cloud' = [cloud EXCEPT ![i] = o]
        /\ \/ o.status \in {"DELETING", "ERROR", "GONE"}
           \/ o.status = "READY" /\ cloud[i].status \in {"PENDING", "READY"}
        /\ Vanish(i) => o.status = "GONE"
        /\ o.status = "GONE" \/ cloud[i].status # "GONE"
  <2>1. CASE Settle(i)
    <3>1. [cloud[i] EXCEPT !.status = "READY", !.attrs = cloud[i].goal] \in Object
      BY <1>2 DEF Object, Status
    <3> QED BY <1>2, <2>1, <3>1 DEF Settle, Completes, Vanish, Object
  <2>2. CASE Vanish(i)
    BY <1>2, <2>2 DEF Vanish, Disappears, NoObject
  <2>3. CASE Break(i)
    <3>1. [cloud[i] EXCEPT !.status = "ERROR", !.goal = cloud[i].attrs] \in Object
      BY <1>2 DEF Object, Status
    <3>2. ~Vanish(i)
      <4>1. cloud'[i].status = "ERROR"
        BY <1>2, <2>3 DEF Break, Breaks, Object
      <4> QED BY <1>2, <4>1 DEF Vanish, Disappears, NoObject
    <3> QED BY <1>2, <2>3, <3>1, <3>2 DEF Break, Breaks, Object
  <2>4. CASE ExternalDelete(i)
    <3>1. [cloud[i] EXCEPT !.status = "DELETING"] \in Object
      BY <1>2 DEF Object, Status
    <3> QED BY <1>2, <2>4, <3>1 DEF ExternalDelete, DeletedElsewhere, Vanish, Object
  <2>5. ASSUME NEW f \in Fields, NEW v \in Values, Drift(i, f, v)
        PROVE  \E o \in Object :
                 /\ cloud' = [cloud EXCEPT ![i] = o]
                 /\ o.status = "READY" /\ cloud[i].status = "READY"
    <3> DEFINE o == [cloud[i] EXCEPT !.attrs[f] = v, !.goal[f] = v]
    <3>1. v \in Recordable
      BY DEF Recordable
    <3>2. o \in Object /\ o.status = cloud[i].status
      BY <1>2, <3>1 DEF Object
    <3>3. cloud' = [cloud EXCEPT ![i] = o] /\ cloud[i].status = "READY"
      BY <1>2, <2>5 DEF Drift, Drifts, Object
    <3> HIDE DEF o
    <3> QED BY <3>2, <3>3
  <2> QED BY <1>1, <2>1, <2>2, <2>3, <2>4, <2>5 DEF Drift, Vanish
<1>6. /\ cloud' \in [Ids -> Object] /\ cloud'[i] = o
      /\ \A j \in Ids \ {i} : cloud'[j] = cloud[j]
  BY <1>2, <1>5
<1>7. TypeOK'
  BY <1>3, <1>4, <1>6 DEF Types, TypeOK, Code
<1>8. Types'
  BY <1>4, <1>7 DEF Types, Placed, ProgramOK
<1>9. \A j \in Ids : Safe(j) => Safe(j)'
  <2>1. Safe(i) => Safe(i)'
    BY <1>3, <1>4, <1>5, <1>6 DEF Safe, Exists, Types, TypeOK
  <2> QED BY <1>3, <1>4, <1>6, <2>1, StaysSafe, BoundsAssumption
<1>10. \A j \in Ids : ~Exists(j) => ~Exists(j)'
  BY <1>5, <1>6 DEF Exists
<1>11. Vanish(i) => ~Exists(i)'
  BY <1>5, <1>6 DEF Exists
<1>12. \A j \in Ids : Kept(j) => Kept(j)' \/ Safe(j)'
  BY <1>4, <1>11 DEF Kept, Safe
<1>13. Deleting' /\ Importing'
  <2>1. pc = "delete" => entry \in Ids
    BY DEF Types, Placed, TypeOK
  <2>2. pc = "import" => made \in Ids
    BY DEF Types, Placed, TypeOK
  <2>3. Deleting'
    <3>1. ASSUME pc = "delete", at > 1, ~failed PROVE \A e \in {entry} : Safe(e)'
      BY <1>9, <2>1, <3>1 DEF Deleting
    <3> QED BY <1>4, <3>1 DEF Deleting, Safe, Exists
  <2>4. Importing'
    <3>1. ASSUME pc = "import" PROVE \A m \in {made} : m \in disclosed' \/ ~Exists(m)'
      BY <1>4, <1>10, <1>11, <2>2, <3>1 DEF Importing
    <3> QED BY <1>4, <3>1 DEF Importing, Exists
  <2> QED BY <2>3, <2>4
<1> QED BY <1>8, <1>9, <1>12, <1>13, Ledger

LEMMA StutterKeeps ==
  ASSUME LedgerInv, UNCHANGED allVars
  PROVE  LedgerInv'
BY DEF LedgerInv, Types, TypeOK, ProgramOK, Placed, Deleting, Importing,
       NoServingOrphan, Safe, Exists, Code, allVars, vars, program

LEMMA NextKeeps ==
  ASSUME LedgerInv, [Next]_allVars
  PROVE  LedgerInv'
<1>1. CASE Calls
  BY <1>1, CallsKeep
<1>2. CASE PostRefused \/ \E i \in Ids : PostAccepted(i) \/ PostReplyLost(i)
  BY <1>2, PostKeeps
<1>3. CASE PlanNothing \/ PlanCreate \/ PlanUpdate \/ PlanDelete
  BY <1>3, PlanKeeps
<1>4. CASE ReadOk \/ ReadFails \/ ReadRemoves \/ (\E f \in Fields : ReadMisses(f))
  BY <1>4, ReadKeeps
<1>5. CASE ImportOk \/ ImportFails
  BY <1>5, ImportKeeps
<1>6. CASE User \/ Stopped
  BY <1>6, UserKeeps
<1>7. CASE Service
  BY <1>7, ServiceKeeps
<1>8. CASE UNCHANGED allVars
  BY <1>8, StutterKeeps
<1> QED BY <1>1, <1>2, <1>3, <1>4, <1>5, <1>6, <1>7, <1>8
        DEF Next, Handler, Calls, Questions, Requests, Deletions

LEMMA InitLedger ==
  ASSUME PInit
  PROVE  LedgerInv
<1>1. /\ cloud = [i \in Ids |-> NoObject] /\ entry = NoId /\ made = NoId
      /\ known = Default /\ pc = "idle" /\ disclosed = {}
      /\ stale = FALSE /\ settled = FALSE /\ faults = 0 /\ edits = 0
      /\ config \in [want : {TRUE}, attrs : Configs]
      /\ kind \in Kinds /\ R = Resource[kind]
      /\ at = 1 /\ failed = FALSE /\ tainted = FALSE
  BY DEF PInit, Init
<1>2. NoObject \in Object /\ Default \in [Fields -> Recordable]
  BY DefaultTyped DEF Attrs
<1>3. config \in [want : BOOLEAN, attrs : [Fields -> Values \cup {Null}]]
  BY <1>1, DefaultTyped
<1>4. TypeOK
  <2>1. cloud \in [Ids -> Object] /\ known \in [Fields -> Recordable]
    BY <1>1, <1>2
  <2>2. faults \in 0 .. MaxFaults /\ edits \in 0 .. MaxEdits
    BY <1>1, BoundsAssumption
  <2> QED BY <1>1, <1>3, <2>1, <2>2 DEF TypeOK, PCs, HandlerPCs
<1>5. Types
  BY <1>1, <1>4 DEF Types, ProgramOK, Placed, HandlerPCs
<1>6. \A i \in Ids : ~Exists(i)
  BY <1>1 DEF Exists, NoObject
<1> QED BY <1>1, <1>5, <1>6 DEF LedgerInv, Deleting, Importing, NoServingOrphan

THEOREM LedgerInvariant == Spec => []LedgerInv
<1>1. PInit => LedgerInv
  BY InitLedger
<1>2. LedgerInv /\ [Next]_allVars => LedgerInv'
  BY NextKeeps
<1> QED BY <1>1, <1>2, PTL DEF Spec

(* Every handler of the table stays where the code has a line for it, and  *)
(* holds and records only what the schema has room for: nothing unknown    *)
(* reaches the state.                                                      *)
THEOREM ResourceTypesKept == Spec => []TypeOK
<1>1. LedgerInv => TypeOK
  BY DEF LedgerInv, Types
<1> QED BY <1>1, LedgerInvariant, PTL

(* Whatever calls fail, wherever Terraform stops and whatever others do to *)
(* the objects: none of the twenty-five resources loses an object that can *)
(* still serve without an error, but the interface to a failed Delete.     *)
THEOREM NoneServesUnseen == Spec => []NoServingOrphan
<1>1. LedgerInv => NoServingOrphan
  BY DEF LedgerInv
<1> QED BY <1>1, LedgerInvariant, PTL

-----------------------------------------------------------------------------
(* What was created is put into the state whatever comes of the wait.      *)

LEMMA KeepsStep ==
  ASSUME LedgerInv, Next, pc = "create", made # NoId, kind \in Keeping,
         Handler \/ Timeout
  PROVE  made' = made \/ entry' = made
<1> USE DEF LedgerInv
<1>1. at # 1 /\ pc \in HandlerPCs
  BY DEF Types, Placed, HandlerPCs
<1>2. /\ Len(Code) \in Nat /\ DOMAIN Code = 1 .. Len(Code) /\ Len(Code) # 0
      /\ \A n \in 2 .. Len(Code) :
            Code[n].call \in {"lookup", "poll"} /\ Code[n].error = "keep"
  BY ProgramShaped DEF Types, Shaped, Creates, KeepsAll, Code
<1>3. at \in DOMAIN Code => Cur.call \in {"lookup", "poll"} /\ Cur.error = "keep"
  BY <1>1, <1>2 DEF Cur
<1>4. \A c : At(c) => c \in {"lookup", "poll"} /\ Cur.error = "keep"
  BY <1>3 DEF At
<1>5. CASE Proceeds
  BY <1>5 DEF Proceeds, GoesOn, Returns, CreateReturns
<1>6. CASE CallFails /\ Cur.error = "keep"
  BY <1>6 DEF CallFails, Keep
<1>7. Skip \/ LookupOk \/ GetFails \/ PollReady \/ PollFails \/ Timeout
  <2>1. /\ ~NoCalls
        /\ ~(PlanNothing \/ PlanCreate \/ PlanUpdate \/ PlanDelete)
        /\ ~(ReadOk \/ ReadFails \/ ReadRemoves \/ \E f \in Fields : ReadMisses(f))
        /\ ~(ImportOk \/ ImportFails)
    BY <1>2 DEF NoCalls, PlanNothing, PlanCreate, PlanUpdate, PlanDelete,
                NothingPlanned, CreatePlanned, UpdatePlanned, DeletePlanned,
                ReadOk, ReadFails, ReadRemoves, ReadMisses, ImportOk, ImportFails
  <2>2. /\ ~(PostRefused \/ \E i \in Ids : PostAccepted(i) \/ PostReplyLost(i))
        /\ ~(UnsupportedFails \/ GetOk)
        /\ ~(SendAccepted \/ SendReplyLost \/ SendRefused)
        /\ ~(UndoNothing \/ UndoDone \/ UndoFails)
    <3>1. ~(At("post") \/ At("unsupported") \/ At("get") \/ At("send") \/ At("undo"))
      BY <1>4
    <3> QED BY <3>1
            DEF PostRefused, PostAccepted, PostReplyLost, Posted, UnsupportedFails, GetOk,
                SendAccepted, SendReplyLost, SendRefused, Asked, UndoNothing, UndoDone,
                UndoFails
  <2>3. ~Deletions
    BY <1>4 DEF Deletions, DeleteAccepted, DeleteReplyLost, DeleteRefused,
                DeleteAgainGone, DeleteAgainDone, DeleteAgainFails, PollGoneDone,
                PollGoneFails
  <2> QED BY <2>1, <2>2, <2>3 DEF Handler, Deletions
<1>8. ~At("pollGone")
  BY <1>4
<1> QED BY <1>4, <1>5, <1>6, <1>7, <1>8
        DEF Skip, LookupOk, GetFails, PollReady, PollFails, Timeout, At

(* The replicas, the snapshots of instances and of volumes, the node pools *)
(* and the Kubernetes clusters put the identifier of what they created     *)
(* into the state: neither a failed wait nor one that takes too long loses *)
(* it, so that the next run can replace what did not come up.              *)
THEOREM WaitsLoseNothing == Spec => KeepsIdentifier
<1>1. LedgerInv /\ Next /\ pc = "create" /\ made # NoId /\ kind \in Keeping
      /\ (Handler \/ Timeout) => made' = made \/ entry' = made
  BY KeepsStep
<1>2. LedgerInv /\ [Next]_allVars
        => [pc = "create" /\ made # NoId /\ kind \in Keeping /\ (Handler \/ Timeout)
              => made' = made \/ entry' = made]_allVars
  BY <1>1
<1> QED BY <1>2, LedgerInvariant, PTL DEF Spec, KeepsIdentifier

-----------------------------------------------------------------------------
(* No request puts an outdated value back.                                 *)

(* The requests of a program carry attributes of the resource that are     *)
(* still decided by the configuration, and those that a plan keeps only    *)
(* when they are to change.                                                *)
Fine(c, row) ==
  c.call = "send" =>
    /\ c.fields \subseteq row.fields \ row.pinned
    /\ c.fields \cap row.keeps \subseteq c.changed
Carries(code, row) == \A n \in DOMAIN code : Fine(code[n], row)
Asking(row) == Carries(row.create, row) /\ Carries(row.update, row)

LEMMA FineCalls ==
  \A row :
    /\ Fine(Post, row) /\ Fine(Get, row) /\ Fine(Poll, row) /\ Fine(KeepingPoll, row)
    /\ Fine(Undo, row) /\ Fine(Unsupported, row)
    /\ Fine([Lookup EXCEPT !.error = "keep"], row)
    /\ Fine([Poll EXCEPT !.late = "passes"], row)
    /\ Fine([Poll EXCEPT !.error = "refetch"], row)
    /\ Fine([Poll EXCEPT !.blind = TRUE], row)
    /\ Fine([KeepingPoll EXCEPT !.blind = TRUE], row)
    /\ \A F : /\ Fine(IfChanged(F, Poll), row)
              /\ Fine(IfChanged(F, [Poll EXCEPT !.error = "goOn"]), row)
BY DEF Fine, Post, Get, Poll, KeepingPoll, Undo, Unsupported, Lookup, IfChanged, Call

LEMMA FineRequests ==
  \A row : \A F : F \subseteq row.fields \ row.pinned =>
    /\ F \cap row.keeps = {} => Fine(Send(F), row)
    /\ Fine(IfChanged(F, Send(F)), row)
    /\ \A G : F \cap row.keeps \subseteq G =>
         Fine(Patch(F, G), row) /\ \A H : Fine([Patch(F, G) EXCEPT !.omitted = H], row)
BY DEF Fine, Send, IfChanged, Patch, Call

LEMMA FineSettings ==
  \A row : \A f \in row.fields \ row.pinned :
    Fine(Setting(f), row) /\ Fine([Setting(f) EXCEPT !.error = "rollback"], row)
BY DEF Fine, Setting, Send, IfChanged, Call

LEMMA CarriesShort ==
  \A row, a, b, c, d, e, f :
    /\ Carries(<< >>, row)
    /\ Fine(a, row) => Carries(<<a>>, row)
    /\ Fine(a, row) /\ Fine(b, row) => Carries(<<a, b>>, row)
    /\ Fine(a, row) /\ Fine(b, row) /\ Fine(c, row) => Carries(<<a, b, c>>, row)
    /\ Fine(a, row) /\ Fine(b, row) /\ Fine(c, row) /\ Fine(d, row)
         => Carries(<<a, b, c, d>>, row)
    /\ Fine(a, row) /\ Fine(b, row) /\ Fine(c, row) /\ Fine(d, row) /\ Fine(e, row)
       /\ Fine(f, row) => Carries(<<a, b, c, d, e, f>>, row)
BY DEF Carries

(* Most Creates ask for nothing but the creation.                          *)
LEMMA CreatesCarry ==
  \A row : \A code \in {<<Post>>, VpcCreate, SubnetCreate, RouteCreate, <<Post, Get>>,
                        ClusterCreate, VolumeCreate, VmCreate, ReplicaCreate,
                        InstanceSnapshotCreate, StorageSnapshotCreate, NodePoolCreate,
                        KubernetesCreate} :
    Carries(code, row)
<1> USE FineCalls, CarriesShort
<1>1. \A row : /\ Carries(<<Post>>, row) /\ Carries(<<Post, Get>>, row)
               /\ Carries(<<Post, Poll>>, row) /\ Carries(<<Post, KeepingPoll>>, row)
  OBVIOUS
<1>2. \A row : Carries(VpcCreate, row) /\ Carries(RouteCreate, row)
  BY DEF VpcCreate, RouteCreate
<1>3. \A row : Carries(ReplicaCreate, row) /\ Carries(NodePoolCreate, row)
  BY DEF ReplicaCreate, NodePoolCreate
<1> QED BY <1>1, <1>2, <1>3
        DEF SubnetCreate, ClusterCreate, VolumeCreate, VmCreate,
            InstanceSnapshotCreate, StorageSnapshotCreate, KubernetesCreate

LEMMA UpdatesCarry ==
  \A row :
    /\ Carries(<<Unsupported>>, row) /\ Carries(<< >>, row)
    /\ \A F : F \subseteq row.fields \ row.pinned /\ F \cap row.keeps = {}
               => Carries(<<Send(F)>>, row)
BY FineCalls, FineRequests, CarriesShort

LEMMA TableCarries ==
  \A k \in AllKinds : Asking(Table[k])
<1>1. /\ Asking(Vpc) /\ Asking(Route) /\ Asking(NatGateway) /\ Asking(SubnetPool)
      /\ Asking(SecurityGroup) /\ Asking(SecurityGroupRule) /\ Asking(PublicIp)
  BY CreatesCarry, UpdatesCarry, PlainCodes
     DEF Vpc, Route, NatGateway, SubnetPool, SecurityGroup, SecurityGroupRule,
         PublicIp, Plain, Asking
<1>2. /\ Asking(Schedule) /\ Asking(VmSnapshot) /\ Asking(Registry) /\ Asking(SshKey)
  BY CreatesCarry, UpdatesCarry, PlainCodes
     DEF Schedule, VmSnapshot, Registry, SshKey, Plain, Asking
<1>3. Asking(Subnet)
  <2>1. /\ Subnet.create = SubnetCreate /\ Subnet.update = <<Send({"edit"})>>
        /\ {"edit"} \subseteq Subnet.fields \ Subnet.pinned
        /\ {"edit"} \cap Subnet.keeps = {}
    BY DEF Subnet, SubnetUpdate, Plain
  <2>2. Carries(<<Send({"edit"})>>, Subnet)
    BY <2>1, UpdatesCarry, Zenon
  <2> QED BY <2>1, <2>2, CreatesCarry DEF Asking
<1>4. Asking(InstanceSnapshot) /\ Asking(ParameterGroup) /\ Asking(Parameter)
  <2>1. Asking(InstanceSnapshot)
    <3>1. /\ InstanceSnapshot.create = InstanceSnapshotCreate /\ InstanceSnapshot.update = <<Send({"name", "note"})>>
          /\ {"name", "note"} \subseteq InstanceSnapshot.fields \ InstanceSnapshot.pinned
          /\ {"name", "note"} \cap InstanceSnapshot.keeps = {}
      BY DEF InstanceSnapshot, Plain
    <3>2. Carries(<<Send({"name", "note"})>>, InstanceSnapshot)
      BY <3>1, UpdatesCarry, Zenon
    <3> QED BY <3>1, <3>2, CreatesCarry DEF Asking
  <2>2. Asking(ParameterGroup)
    <3>1. /\ ParameterGroup.create = <<Post>> /\ ParameterGroup.update = <<Send({"note", "edit"})>>
          /\ {"note", "edit"} \subseteq ParameterGroup.fields \ ParameterGroup.pinned
          /\ {"note", "edit"} \cap ParameterGroup.keeps = {}
      BY DEF ParameterGroup, Plain
    <3>2. Carries(<<Send({"note", "edit"})>>, ParameterGroup)
      BY <3>1, UpdatesCarry, Zenon
    <3> QED BY <3>1, <3>2, CreatesCarry DEF Asking
  <2>3. Asking(Parameter)
    <3>1. /\ Parameter.create = <<Post>> /\ Parameter.update = <<Send({"edit"})>>
          /\ {"edit"} \subseteq Parameter.fields \ Parameter.pinned
          /\ {"edit"} \cap Parameter.keeps = {}
      BY DEF Parameter, Plain
    <3>2. Carries(<<Send({"edit"})>>, Parameter)
      BY <3>1, UpdatesCarry, Zenon
    <3> QED BY <3>1, <3>2, CreatesCarry DEF Asking
  <2> QED BY <2>1, <2>2, <2>3
<1>5. Asking(Interface)
  <2>1. /\ Interface.create = <<Post, Send({"edit"}), Get>>
        /\ Interface.update = <<IfChanged({"edit"}, Send({"edit"}))>>
        /\ {"edit"} \subseteq Interface.fields \ Interface.pinned
        /\ {"edit"} \cap Interface.keeps = {}
    BY DEF Interface, InterfaceCreate, InterfaceUpdate, Plain
  <2>2. Fine(Send({"edit"}), Interface) /\ Fine(IfChanged({"edit"}, Send({"edit"})), Interface)
    BY <2>1, FineRequests
  <2>3. Carries(<<Post, Send({"edit"}), Get>>, Interface)
    BY <2>2, FineCalls, CarriesShort, Zenon
  <2>4. Carries(<<IfChanged({"edit"}, Send({"edit"}))>>, Interface)
    BY <2>2, CarriesShort, Zenon
  <2> QED BY <2>1, <2>3, <2>4, Zenon DEF Asking
<1>6. Asking(Replica)
  <2>1. /\ Replica.create = ReplicaCreate /\ Replica.update = ReplicaUpdate
        /\ Resized \subseteq Replica.fields \ Replica.pinned
    BY DEF Replica, Resized, Plain
  <2>2. Fine(IfChanged(Resized, Send(Resized)), Replica)
    BY <2>1, FineRequests, Zenon
  <2>3. Carries(ReplicaUpdate, Replica)
    BY <2>2, FineCalls, CarriesShort, Zenon DEF ReplicaUpdate
  <2> QED BY <2>1, <2>3, CreatesCarry DEF Asking
<1>7. Asking(Cluster)
  <2>1. /\ Cluster.create = ClusterCreate /\ Cluster.update = ClusterUpdate
        /\ {"size"} \subseteq Cluster.fields \ Cluster.pinned
        /\ {"edit"} \subseteq Cluster.fields \ Cluster.pinned
    BY DEF Cluster, Plain
  <2>2. Fine(IfChanged({"size"}, Send({"size"})), Cluster)
    BY <2>1, FineRequests, Zenon
  <2>3. Fine(IfChanged({"edit"}, Send({"edit"})), Cluster)
    BY <2>1, FineRequests, Zenon
  <2>4. Carries(ClusterUpdate, Cluster)
    BY <2>2, <2>3, FineCalls, CarriesShort, Zenon DEF ClusterUpdate
  <2> QED BY <2>1, <2>4, CreatesCarry DEF Asking
<1>8. Asking(StorageSnapshot)
  <2>1. /\ StorageSnapshot.create = StorageSnapshotCreate /\ StorageSnapshot.update = StorageSnapshotUpdate
        /\ {"edit"} \subseteq StorageSnapshot.fields \ StorageSnapshot.pinned
    BY DEF StorageSnapshot, Plain
  <2>2. Fine(IfChanged({"edit"}, Send({"edit"})), StorageSnapshot)
    BY <2>1, FineRequests, Zenon
  <2>3. Carries(StorageSnapshotUpdate, StorageSnapshot)
    BY <2>2, FineCalls, CarriesShort, Zenon DEF StorageSnapshotUpdate
  <2> QED BY <2>1, <2>3, CreatesCarry DEF Asking
<1>9. Asking(Volume)
  <2>1. /\ Volume.create = VolumeCreate /\ Volume.update = VolumeUpdate
        /\ {"name"} \subseteq Volume.fields \ Volume.pinned
        /\ {"edit"} \subseteq Volume.fields \ Volume.pinned
        /\ {"size"} \subseteq Volume.fields \ Volume.pinned
    BY DEF Volume, Fields, Plain
  <2>2. Fine(IfChanged({"name"}, Send({"name"})), Volume)
    BY <2>1, FineRequests, Zenon
  <2>3. Fine(IfChanged({"edit"}, Send({"edit"})), Volume)
    BY <2>1, FineRequests, Zenon
  <2>4. Fine(IfChanged({"size"}, Send({"size"})), Volume)
    BY <2>1, FineRequests, Zenon
  <2>5. Carries(VolumeUpdate, Volume)
    BY <2>2, <2>3, <2>4, FineCalls, CarriesShort, Zenon DEF VolumeUpdate
  <2> QED BY <2>1, <2>5, CreatesCarry DEF Asking
<1>10. Asking(VirtualMachine)
  <2>1. /\ VirtualMachine.create = VmCreate /\ VirtualMachine.update = VmUpdate
        /\ {"name"} \subseteq VirtualMachine.fields \ VirtualMachine.pinned
        /\ {"edit"} \subseteq VirtualMachine.fields \ VirtualMachine.pinned
    BY DEF VirtualMachine, Plain
  <2>2. Fine(IfChanged({"name"}, Send({"name"})), VirtualMachine)
    BY <2>1, FineRequests, Zenon
  <2>3. Fine(IfChanged({"edit"}, Send({"edit"})), VirtualMachine)
    BY <2>1, FineRequests, Zenon
  <2>4. Carries(VmUpdate, VirtualMachine)
    BY <2>2, <2>3, FineCalls, CarriesShort, Zenon DEF VmUpdate
  <2> QED BY <2>1, <2>4, CreatesCarry DEF Asking
<1>11. Asking(ProxyCache)
  <2>1. /\ ProxyCache.create = <<Post, Get>> /\ ProxyCache.update = ProxyCacheUpdate
        /\ {"edit", "once"} \subseteq ProxyCache.fields \ ProxyCache.pinned
    BY DEF ProxyCache, Plain
  <2>2. Fine(IfChanged({"edit", "once"}, Send({"edit", "once"})), ProxyCache)
    BY <2>1, FineRequests, Zenon
  <2>3. Carries(ProxyCacheUpdate, ProxyCache)
    BY <2>2, FineCalls, CarriesShort, Zenon DEF ProxyCacheUpdate
  <2> QED BY <2>1, <2>3, CreatesCarry DEF Asking
<1>12. Asking(Kubernetes)
  <2>1. /\ Kubernetes.create = KubernetesCreate /\ Kubernetes.update = KubernetesUpdate
        /\ {"note", "once"} \subseteq Kubernetes.fields \ Kubernetes.pinned
        /\ {"note", "once"} \cap Kubernetes.keeps \subseteq {"note"}
    BY DEF Kubernetes, Plain
  <2>2. Fine([Patch({"note", "once"}, {"note"}) EXCEPT !.omitted = {"note"}], Kubernetes)
    BY <2>1, FineRequests, Zenon
  <2>3. Carries(KubernetesUpdate, Kubernetes)
    BY <2>2, FineCalls, CarriesShort, Zenon DEF KubernetesUpdate
  <2> QED BY <2>1, <2>3, CreatesCarry DEF Asking
<1>13. Asking(NodePool)
  <2>1. /\ NodePool.create = NodePoolCreate /\ NodePool.update = NodePoolUpdate
        /\ {"edit", "size"} \subseteq NodePool.fields \ NodePool.pinned
        /\ {"edit", "size"} \cap NodePool.keeps = {}
    BY DEF NodePool, NodePoolDetail, Plain
  <2>2. Fine(Send({"edit", "size"}), NodePool)
    BY <2>1, FineRequests, Zenon
  <2>3. Carries(NodePoolUpdate, NodePool)
    BY <2>2, FineCalls, CarriesShort, Zenon DEF NodePoolUpdate
  <2> QED BY <2>1, <2>3, CreatesCarry DEF Asking
<1>14. Asking(Bucket)
  <2>1. /\ Bucket.create = BucketCreate /\ Bucket.update = BucketUpdate
        /\ {"edit", "size", "note", "once"} \subseteq Bucket.fields \ Bucket.pinned
    BY DEF Bucket, Plain
  <2>2. \A f \in {"edit", "size", "note", "once"} :
          Fine(Setting(f), Bucket) /\ Fine([Setting(f) EXCEPT !.error = "rollback"], Bucket)
    BY <2>1, FineSettings, Zenon
  <2>3. Carries(BucketUpdate, Bucket)
    BY <2>2, CarriesShort, Zenon DEF BucketUpdate, Settings
  <2>4. \A n \in 2 .. 5 : Fine(BucketCreate[n], Bucket)
    <3>1. \A n \in 2 .. 5 :
            \E f \in {"edit", "size", "note", "once"} :
               BucketCreate[n] = [Setting(f) EXCEPT !.error = "rollback"]
      BY BucketProgram, Zenon
    <3> QED BY <2>2, <3>1, Zenon
  <2>5. Carries(BucketCreate, Bucket)
    <3>1. \A n \in 1 .. 6 : n = 1 \/ n = 6 \/ n \in 2 .. 5
      OBVIOUS
    <3>2. Fine(Post, Bucket) /\ Fine(Undo, Bucket)
      BY FineCalls, Zenon
    <3> QED BY <2>4, <3>1, <3>2, BucketProgram, Zenon DEF Carries
  <2> QED BY <2>1, <2>3, <2>5 DEF Asking
<1> QED BY <1>1, <1>2, <1>3, <1>4, <1>5, <1>6, <1>7, <1>8, <1>9, <1>10, <1>11, <1>12,
           <1>13, <1>14 DEF AllKinds, Table

(* An Update that runs has something to change, until it ends.             *)
Changing == pc = "update" => Planned # known

LEMMA UpdateFrom ==
  ASSUME LedgerInv, [Next]_allVars, pc' = "update"
  PROVE  /\ pc = "update" \/ PlanUpdate
         /\ UNCHANGED <<config, known, entry, R, tainted>>
<1> USE DEF env
<1>1. CASE Calls
  <2>1. InCall /\ Outcome
    BY <1>1, CallsOutcome DEF LedgerInv
  <2> QED BY <2>1 DEF InCall, HandlerPCs, Outcome, Stop, Fail, Keeps, Keep, RollsBack,
                      FindsNothing, DeleteReturns, GoesOnWith, GoesOn, Ends, Returns,
                      CreateReturns, UpdateReturns
<1>2. CASE PostRefused \/ \E i \in Ids : PostAccepted(i) \/ PostReplyLost(i)
  <2>1. pc = "create"
    <3>1. At("post")
      BY <1>2 DEF PostRefused, PostAccepted, PostReplyLost, Posted
    <3>2. pc \in HandlerPCs /\ at \in DOMAIN Code /\ Cur.call = "post"
      BY <3>1 DEF At
    <3> QED BY <3>2, CallPlaces DEF LedgerInv
  <2> QED BY <1>2, <2>1 DEF PostRefused, PostAccepted, PostReplyLost, Stop, Fail, GoesOn,
                            Returns, CreateReturns
<1>3. CASE PlanNothing \/ PlanCreate \/ PlanUpdate \/ PlanDelete
  BY <1>3 DEF PlanNothing, PlanCreate, PlanUpdate, PlanDelete, NothingPlanned,
              CreatePlanned, UpdatePlanned, DeletePlanned, Goto, program
<1>4. CASE ReadOk \/ ReadFails \/ ReadRemoves \/ (\E f \in Fields : ReadMisses(f))
  BY <1>4 DEF ReadOk, ReadFails, ReadRemoves, ReadMisses, Stop, Fail
<1>5. CASE ImportOk \/ ImportFails
  BY <1>5 DEF ImportOk, ImportFails
<1>6. CASE User \/ Stopped
  BY <1>6 DEF User, EditConfig, StartRun, StartImport, Goto, Stopped, Crash, Fail
<1>7. CASE Service
  BY <1>7 DEF Service, Settle, Vanish, Break, ExternalDelete, Drift, Completes,
              Disappears, Breaks, DeletedElsewhere, Drifts, ServiceOnly, program
<1>8. CASE UNCHANGED allVars
  BY <1>8 DEF allVars, vars, program
<1> QED BY <1>1, <1>2, <1>3, <1>4, <1>5, <1>6, <1>7, <1>8
        DEF Next, Handler, Calls, Questions, Requests, Deletions

LEMMA ChangingKept ==
  ASSUME LedgerInv, Changing, [Next]_allVars
  PROVE  Changing'
<1>1. SUFFICES ASSUME pc' = "update"
               PROVE  (Planned # known)'
  BY DEF Changing
<1>2. Planned # known
  BY <1>1, UpdateFrom DEF Changing, PlanUpdate, UpdatePlanned
<1>3. UNCHANGED <<config, known, entry, R>>
  BY <1>1, UpdateFrom
<1>4. Planned' = Planned
  BY <1>3 DEF Planned, Proposed, InState, HasDiff
<1> QED BY <1>2, <1>3, <1>4

(* What a request carries is what the configuration asks for.              *)
LEMMA CarriedConfigured ==
  ASSUME LedgerInv, Changing, pc \in {"create", "update"}, at \in DOMAIN Code,
         Cur.call = "send", NEW f \in Fields, f \in Carried(Cur)
  PROVE  Planned[f] = config.attrs[f] /\ f \notin R.pinned
<1>1. Fine(Cur, R)
  <2>1. Asking(R)
    BY TableCarries, TableAssumption DEF LedgerInv, Types, ProgramOK
  <2> QED BY <2>1 DEF Asking, Carries, Cur, Code
<1>2. /\ f \in R.fields /\ f \notin R.pinned
      /\ f \in R.keeps => f \in Cur.changed
  BY <1>1 DEF Fine, Carried
<1>3. Planned[f] = Proposed(f) /\ Proposed(f) # Unknown
  <2>1. Planned[f] = Proposed(f)
    BY <1>2 DEF Planned
  <2> QED BY <2>1 DEF Carried, Differs
<1>4. pc = "update" => HasDiff
  <2>1. SUFFICES ASSUME ~HasDiff, pc = "update"
                 PROVE  Planned = known
    BY DEF Changing
  <2>2. \A g \in Fields : Proposed(g) = known[g]
    <3>1. entry # NoId
      BY <2>1 DEF LedgerInv, Types, Placed
    <3> QED BY <2>1, <3>1 DEF Proposed, HasDiff
  <2>3. \A g \in Fields : InState(g) = known[g]
    BY <2>1 DEF LedgerInv, Types, Placed, InState
  <2>4. \A g \in Fields : Planned[g] = known[g]
    BY <2>2, <2>3 DEF Planned, UseStateForInt64AfterCreate
  <2> QED BY <2>4, PlanTyped DEF PlannedAttrs, LedgerInv, Types, TypeOK
<1>5. pc = "create" => entry = NoId
  BY DEF LedgerInv, Types, Placed
<1>6. ~(entry # NoId /\ f \in R.keeps /\ config.attrs[f] = Null /\ f \in R.computed)
  <2>1. SUFFICES ASSUME entry # NoId, f \in R.keeps, config.attrs[f] = Null, f \in R.computed
                 PROVE  FALSE
    OBVIOUS
  <2>2. Planned[f] = known[f]
    BY <1>2, <1>3, <2>1 DEF Proposed
  <2> QED BY <1>2, <2>1, <2>2 DEF Carried, Differs
<1> QED BY <1>2, <1>3, <1>4, <1>5, <1>6 DEF Proposed

LEMMA SendStep ==
  ASSUME LedgerInv, Changing, At("send"), SendAccepted \/ SendReplyLost
  PROVE  \A f \in Fields :
           LET goal == cloud'[Target].goal[f]
           IN  \/ goal = cloud[Target].goal[f]
               \/ goal = config.attrs[f] /\ (pc = "update" => f \notin R.pinned)
<1>1. InCall /\ at \in DOMAIN Code /\ Cur.call = "send"
  BY CallMade DEF LedgerInv
<1>2. pc \in {"create", "update"}
  BY <1>1, CallPlaces DEF LedgerInv, InCall, HandlerPCs
<1>3. Target \in Ids
  BY <1>1, CallTarget DEF LedgerInv
<1> DEFINE goal == [f \in Fields |-> IF f \in Carried(Cur) THEN Planned[f]
                                     ELSE cloud[Target].goal[f]]
<1>4. cloud'[Target].goal = goal
  <2>1. cloud[Target] \in Object /\ cloud \in [Ids -> Object]
    BY <1>3 DEF LedgerInv, Types, TypeOK
  <2>2. Asked(Target)
    BY DEF SendAccepted, SendReplyLost
  <2> QED BY <1>3, <2>1, <2>2 DEF Asked, Object
<1> HIDE DEF goal
<1>5. \A f \in Fields : f \in Carried(Cur) => Planned[f] = config.attrs[f] /\ f \notin R.pinned
  BY <1>1, <1>2, CarriedConfigured
<1>6. \A f \in Fields : goal[f] = IF f \in Carried(Cur) THEN Planned[f] ELSE cloud[Target].goal[f]
  BY DEF goal
<1> QED BY <1>4, <1>5, <1>6

(* No change request puts back an outdated value: what another client, or  *)
(* an autoscaler, made of an attribute that the configuration leaves out   *)
(* is not part of any request of the twenty-five resources.                *)
THEOREM UpdatesLoseNothing == Spec => NoLostUpdate
<1>1. PInit => Changing
  BY DEF PInit, Init, Changing
<1>2. LedgerInv /\ Changing /\ [Next]_allVars => Changing'
  BY ChangingKept
<1>3. LedgerInv /\ Changing /\ [Next]_allVars =>
        [At("send") /\ (SendAccepted \/ SendReplyLost) =>
           \A f \in Fields :
              LET goal == cloud'[Target].goal[f]
              IN  \/ goal = cloud[Target].goal[f]
                  \/ goal = config.attrs[f] /\ (pc = "update" => f \notin R.pinned)]_allVars
  BY SendStep
<1> QED BY <1>1, <1>2, <1>3, LedgerInvariant, PTL DEF Spec, NoLostUpdate

-----------------------------------------------------------------------------
(* Nothing is destroyed without a reason.                                  *)

(* One resource hides a blank description only while it has recorded none, *)
(* and never changes one.                                                  *)
Hiding(row) ==
  row.hides = "absent" =>
    /\ row.create = <<Post>> /\ row.update = <<Unsupported>>
    /\ row.learns = {} /\ row.fills = {} /\ row.computed = {} /\ row.misses = {}
    /\ row.pinned = {} /\ row.posted = Fields /\ "note" \in row.fields

LEMMA TableHides ==
  \A k \in AllKinds : /\ Hiding(Table[k]) /\ Table[k].fields \subseteq Fields
                      /\ Table[k].hides \in {"never", "always", "absent"}
<1> DEFINE H(row) == row.hides \in {"never", "always"} /\ row.fields \subseteq Fields
<1> USE DEF Fields
<1>1. H(Vpc) /\ H(Subnet) /\ H(Interface) /\ H(Route) /\ H(NatGateway) /\ H(SubnetPool)
  BY DEF Vpc, Subnet, Interface, Route, NatGateway, SubnetPool, Plain
<1>2. H(SecurityGroup) /\ H(PublicIp) /\ H(Replica) /\ H(InstanceSnapshot) /\ H(Cluster)
  BY DEF SecurityGroup, PublicIp, Replica, InstanceSnapshot, Cluster, Plain
<1>3. H(ParameterGroup) /\ H(Parameter) /\ H(StorageSnapshot) /\ H(Schedule) /\ H(Volume)
  BY DEF ParameterGroup, Parameter, StorageSnapshot, Schedule, Volume, Plain
<1>4. H(VirtualMachine) /\ H(VmSnapshot) /\ H(Registry) /\ H(ProxyCache) /\ H(SshKey)
  BY DEF VirtualMachine, VmSnapshot, Registry, ProxyCache, SshKey, Plain
<1>5. H(NodePool) /\ H(Kubernetes) /\ H(Bucket)
  BY DEF NodePool, NodePoolDetail, Kubernetes, Bucket, Plain
<1>6. /\ Hiding(SecurityGroupRule) /\ SecurityGroupRule.hides = "absent"
      /\ SecurityGroupRule.fields \subseteq Fields
  BY DEF Hiding, SecurityGroupRule, Plain
<1>7. \A row : H(row) => Hiding(row)
  BY DEF Hiding
<1> HIDE DEF H
<1>8. \A k \in AllKinds : H(Table[k]) \/ Table[k] = SecurityGroupRule
  BY <1>1, <1>2, <1>3, <1>4, <1>5 DEF AllKinds, Table
<1> QED BY <1>6, <1>7, <1>8 DEF H

(* What a call leaves of the objects.                                      *)
SameContents ==
  \A i \in Ids : cloud'[i].attrs = cloud[i].attrs /\ cloud'[i].goal = cloud[i].goal

LEMMA CallsContents ==
  ASSUME LedgerInv, Calls
  PROVE  SameContents \/ Asked(Target)
<1>1. cloud \in [Ids -> Object]
  BY DEF LedgerInv, Types, TypeOK
<1>2. CASE UNCHANGED cloud
  BY <1>2 DEF SameContents
<1>3. CASE Asked(Target)
  BY <1>3
<1>4. CASE RequestDelete
  BY <1>1, <1>4 DEF RequestDelete, SameContents, Object
<1>5. CASE UndoDone
  BY <1>1, <1>5 DEF UndoDone, SameContents, Object
<1> QED BY <1>2, <1>3, <1>4, <1>5
        DEF Calls, Questions, Skip, NoCalls, UnsupportedFails, GetOk, LookupOk, GetFails,
            PollReady, PollFails, UndoNothing, UndoFails, Quiet, Requests, SendAccepted,
            SendReplyLost, SendRefused, Deletions, DeleteAccepted, DeleteReplyLost,
            DeleteRefused, DeleteAgainGone, DeleteAgainDone, DeleteAgainFails,
            PollGoneDone, PollGoneFails, Timeout

(* Only a note is ever blank; a blank one that the refresh hides is not    *)
(* recorded otherwise; and after a refresh that saw the service as it is,  *)
(* what is recorded is what the service has and will have.                 *)
Blanks ==
  \A i \in Ids : \A f \in Fields \ {"note"} :
     cloud[i].attrs[f] # Empty /\ cloud[i].goal[f] # Empty
HiddenNotes ==
  R.hides = "absent" =>
    /\ \A i \in Ids : cloud[i].attrs["note"] = cloud[i].goal["note"]
    /\ entry # NoId /\ cloud[entry].attrs["note"] = Empty => known["note"] = Null
Seen ==
  pc = "plan" /\ entry # NoId /\ ~stale =>
    /\ cloud[entry].attrs = cloud[entry].goal
    /\ \A f \in R.reads \cap Fields :
         \/ known[f] = cloud[entry].attrs[f] /\ (known[f] = Empty => R.hides = "never")
         \/ f = "note" /\ known[f] = Null /\ cloud[entry].attrs[f] = Empty
SeenInv == Blanks /\ HiddenNotes /\ Seen

LEMMA RowHides ==
  ASSUME LedgerInv
  PROVE  /\ Hiding(R) /\ R.fields \subseteq Fields
         /\ R.hides \in {"never", "always", "absent"}
BY TableHides, TableAssumption DEF LedgerInv, Types, ProgramOK

(* What no one ever makes blank.                                           *)
LEMMA NotBlank ==
  /\ Empty \notin Values \cup {Null}
  /\ \A f \in Fields : Default[f] # Empty
  /\ LedgerInv => \A f \in Fields : config.attrs[f] # Empty /\ Answered[f] # Empty
<1>1. Empty \notin Values \cup {Null}
  BY MarksAssumption
<1>2. Default \in [Fields -> Values \cup {Null}]
  BY ConfigAssumption
<1>3. LedgerInv => \A f \in Fields : config.attrs[f] \in Values \cup {Null}
  BY DEF LedgerInv, Types, TypeOK
<1> QED BY <1>1, <1>2, <1>3 DEF Answered

LEMMA AskedContents ==
  ASSUME LedgerInv, Changing, Blanks, Asked(Target)
  PROVE  Blanks' /\ R.hides # "absent"
<1>1. InCall /\ at \in DOMAIN Code /\ Cur.call = "send"
  BY CallMade DEF LedgerInv, Asked
<1>2. pc \in {"create", "update"} /\ Target \in Ids
  BY <1>1, CallPlaces, CallTarget DEF LedgerInv, InCall, HandlerPCs
<1> DEFINE goal == [f \in Fields |-> IF f \in Carried(Cur) THEN Planned[f]
                                     ELSE cloud[Target].goal[f]]
<1>3. \A f \in Fields \ {"note"} : goal[f] # Empty
  BY <1>1, <1>2, NotBlank, CarriedConfigured DEF Blanks
<1>4. /\ cloud' = [cloud EXCEPT ![Target].status = Accepted, ![Target].goal = goal,
                     ![Target].attrs = IF R.prompt THEN goal ELSE cloud[Target].attrs]
      /\ cloud \in [Ids -> Object]
  BY DEF Asked, LedgerInv, Types, TypeOK
<1> HIDE DEF goal
<1>5. /\ cloud'[Target].goal = goal /\ cloud'[Target].attrs \in {goal, cloud[Target].attrs}
      /\ \A i \in Ids \ {Target} : cloud'[i] = cloud[i]
  BY <1>2, <1>4 DEF Object
<1>6. Blanks'
  BY <1>2, <1>3, <1>5 DEF Blanks
<1>7. R.hides # "absent"
  <2>1. Post.call = "post" /\ Unsupported.call = "unsupported"
    BY DEF Post, Unsupported, Call
  <2> QED BY <1>1, <1>2, <2>1, RowHides DEF Hiding, Cur, Code
<1> QED BY <1>6, <1>7

LEMMA CallsSee ==
  ASSUME LedgerInv, Changing, SeenInv, Calls
  PROVE  SeenInv'
<1>1. InCall /\ Outcome
  BY CallsOutcome DEF LedgerInv
<1>2. pc' # "plan" /\ R' = R
  BY <1>1, SameProgram DEF InCall, HandlerPCs, Outcome, Stop, Fail, Keeps, Keep, RollsBack,
              FindsNothing, DeleteReturns, GoesOnWith, GoesOn, Ends, Returns,
              CreateReturns, UpdateReturns
<1>3. CASE Asked(Target)
  BY <1>2, <1>3, AskedContents DEF SeenInv, Seen, HiddenNotes
<1>4. CASE SameContents
  <2>1. Blanks'
    BY <1>4 DEF SeenInv, Blanks, SameContents
  <2>2. ASSUME R.hides = "absent"
        PROVE  (entry' = entry /\ known' = known) \/ entry' = NoId
    <3>1. Code \in {<<Post>>, <<Unsupported>>} \/ pc = "delete"
      BY <1>1, <2>2, RowHides DEF Hiding, InCall, HandlerPCs, Code
    <3>2. CASE pc = "delete"
      BY <1>1, <3>2 DEF Outcome, Stop, Fail, Keeps, RollsBack,
              FindsNothing, DeleteReturns, GoesOnWith, GoesOn, Returns
    <3>3. CASE pc = "create"
      <4>1. Len(Code) = 1
        BY <2>2, <3>3, RowHides DEF Hiding, Code
      <4> QED BY <1>1, <3>3, <4>1 DEF InCall
    <3>4. CASE pc = "update"
      <4>1. Code = <<Unsupported>>
        BY <2>2, <3>4, RowHides DEF Hiding, Code
      <4>2. Unsupported.call = "unsupported" /\ Unsupported.only = {}
        BY DEF Unsupported, Call
      <4>3. \A c : At(c) => c = "unsupported"
        BY <4>1, <4>2 DEF At, Cur
      <4>4. ~Skip /\ ~NoCalls
        BY <4>1, <4>2 DEF Skip, NoCalls, Cur
      <4>5. UnsupportedFails
        <5>1. ~(At("post") \/ At("get") \/ At("lookup") \/ At("send") \/ At("undo")
                  \/ At("poll") \/ At("delete") \/ At("deleteAgain") \/ At("pollGone"))
          BY <4>3
        <5> QED BY <4>4, <5>1
                DEF Calls, Questions, GetOk, LookupOk, GetFails,
                    PollReady, PollFails, UndoNothing, UndoFails, Requests, SendAccepted,
                    SendReplyLost, SendRefused, Asked, UndoDone, Deletions, DeleteAccepted,
                    DeleteReplyLost, DeleteRefused, DeleteAgainGone, DeleteAgainDone,
                    DeleteAgainFails, PollGoneDone, PollGoneFails, Timeout
      <4> QED BY <4>5 DEF UnsupportedFails, Stop, Fail
    <3> QED BY <1>1, <3>2, <3>3, <3>4 DEF InCall, HandlerPCs
  <2>3. HiddenNotes'
    <3>1. entry # NoId => entry \in Ids
      BY DEF LedgerInv, Types, TypeOK
    <3> QED BY <1>2, <1>4, <2>2, <3>1 DEF SeenInv, HiddenNotes, SameContents
  <2> QED BY <1>2, <2>1, <2>3 DEF SeenInv, Seen
<1> QED BY <1>3, <1>4, CallsContents

LEMMA PostSees ==
  ASSUME LedgerInv, SeenInv,
         PostRefused \/ \E i \in Ids : PostAccepted(i) \/ PostReplyLost(i)
  PROVE  SeenInv'
<1>1. pc = "create" /\ at = 1 /\ made = NoId /\ entry = NoId
  <2>1. At("post")
    BY DEF PostRefused, PostAccepted, PostReplyLost, Posted
  <2>2. pc \in HandlerPCs /\ at \in DOMAIN Code /\ Cur.call = "post"
    BY <2>1 DEF At
  <2> QED BY <2>2, CallPlaces DEF LedgerInv, Types, Placed
<1>2. CASE PostRefused
  BY <1>1, <1>2 DEF PostRefused, Stop, Fail, SeenInv, Blanks, HiddenNotes, Seen
<1>3. ASSUME NEW i \in Ids, Posted(i)
      PROVE  /\ Blanks'
             /\ R.hides = "absent" =>
                  /\ \A j \in Ids : cloud'[j].attrs["note"] = cloud'[j].goal["note"]
                  /\ cloud'[i].attrs["note"] = Empty => config.attrs["note"] = Null
  <2>1. PICK note \in Notes, left \in Left : cloud' = [cloud EXCEPT ![i] = Made(note, left)]
    BY <1>3 DEF Posted
  <2>2. Answered \in Attrs
    <3>1. Default \in Attrs
      BY DefaultTyped
    <3> QED BY <3>1, RecordTyped DEF LedgerInv, Types
  <2>3. cloud \in [Ids -> Object]
    BY DEF LedgerInv, Types, TypeOK
  <2> DEFINE a == [f \in Fields |-> IF f = "note" THEN note
                                    ELSE IF f \in left THEN Null ELSE Answered[f]]
  <2>4. /\ cloud'[i].attrs = a /\ cloud'[i].goal = a
        /\ \A j \in Ids \ {i} : cloud'[j] = cloud[j]
    BY <2>1, <2>3 DEF Made
  <2>5. "note" \in Fields
    BY DEF Fields
  <2>6. Blanks'
    <3>1. \A f \in Fields : Answered[f] # Empty
      BY NotBlank
    <3>2. \A f \in Fields \ {"note"} :
             cloud'[i].attrs[f] = cloud'[i].goal[f] /\ cloud'[i].attrs[f] \in {Null, Answered[f]}
      BY <2>4
    <3>3. \A j \in Ids \ {i} : cloud'[j] = cloud[j]
      BY <2>4
    <3>4. SUFFICES ASSUME NEW j \in Ids, NEW f \in Fields \ {"note"}
                   PROVE  cloud'[j].attrs[f] # Empty /\ cloud'[j].goal[f] # Empty
      BY DEF Blanks
    <3>5. CASE j = i
      BY <3>1, <3>2, <3>5, MarksAssumption
    <3>6. CASE j # i
      BY <3>3, <3>6 DEF SeenInv, Blanks
    <3> QED BY <3>5, <3>6
  <2>7. cloud'[i].attrs["note"] = note /\ cloud'[i].goal["note"] = note
    BY <2>4, <2>5
  <2>8. ASSUME R.hides = "absent", note = Empty PROVE config.attrs["note"] = Null
    <3>1. "note" \in R.fields /\ R.posted = Fields
      BY <2>8, RowHides DEF Hiding
    <3>2. Answered["note"] = Null
      BY <2>5, <2>8, <3>1, NotBlank DEF Notes
    <3> QED BY <2>5, <3>1, <3>2 DEF Answered
  <2> QED BY <2>4, <2>6, <2>7, <2>8 DEF SeenInv, HiddenNotes
<1>4. ASSUME NEW i \in Ids, PostReplyLost(i) PROVE SeenInv'
  BY <1>1, <1>3, <1>4 DEF PostReplyLost, SeenInv, HiddenNotes, Seen
<1>5. ASSUME NEW i \in Ids, PostAccepted(i) PROVE SeenInv'
  <2>1. Posted(i) /\ GoesOn(i, failed \/ Sourceless)
    BY <1>5 DEF PostAccepted
  <2>2. pc' \in {"create", "idle"} /\ R' = R
    BY <1>1, <2>1 DEF GoesOn, Returns, CreateReturns
  <2>3. ASSUME R.hides = "absent" PROVE entry' = i /\ known'["note"] = config.attrs["note"]
    <3>1. Len(Code) = 1 /\ Hiding(R)
      BY <1>1, <2>3, RowHides DEF Hiding, Code
    <3>2. CreateReturns(i, failed \/ Sourceless)
      BY <1>1, <2>1, <3>1 DEF GoesOn, Returns
    <3> DEFINE record == CreateRecord(cloud'[i].attrs)
    <3>3. known' = Resolved(record) /\ entry' = i
      BY <3>2 DEF CreateReturns
    <3>4. "note" \in Fields /\ config.attrs["note"] \in Values \cup {Null}
      BY DEF Fields, LedgerInv, Types, TypeOK
    <3>5. Planned["note"] = config.attrs["note"] /\ config.attrs["note"] # Unknown
      BY <2>3, <3>1, <3>4, MarksAssumption DEF Hiding, Planned, Proposed
    <3>6. record["note"] = Planned["note"]
      BY <2>3, <3>1, <3>4 DEF Hiding, CreateRecord
    <3> HIDE DEF record
    <3> QED BY <3>3, <3>4, <3>5, <3>6 DEF Resolved
  <2> QED BY <1>3, <2>1, <2>2, <2>3 DEF SeenInv, HiddenNotes, Seen
<1> QED BY <1>2, <1>4, <1>5

LEMMA TerraformSees ==
  ASSUME LedgerInv, SeenInv,
         \/ PlanNothing \/ PlanCreate \/ PlanUpdate \/ PlanDelete
         \/ ReadOk \/ ReadFails \/ ReadRemoves \/ (\E f \in Fields : ReadMisses(f))
         \/ ImportOk \/ ImportFails \/ User \/ Stopped
  PROVE  SeenInv'
<1>1. "note" \in Fields
  BY DEF Fields
<1>2. ASSUME UNCHANGED <<cloud, R, entry, known>>, pc' # "plan" \/ entry = NoId
      PROVE  SeenInv'
  BY <1>2 DEF SeenInv, Blanks, HiddenNotes, Seen
<1>3. CASE PlanNothing \/ PlanCreate \/ PlanUpdate \/ PlanDelete
  BY <1>2, <1>3 DEF PlanNothing, PlanCreate, PlanUpdate, PlanDelete, NothingPlanned,
              CreatePlanned, UpdatePlanned, DeletePlanned, Goto, program
<1>4. CASE ReadFails \/ ImportFails \/ User \/ Stopped
  BY <1>2, <1>4 DEF ReadFails, ImportFails, User, EditConfig, StartRun, StartImport, Goto,
                    Stopped, Stop, Crash, Fail, program
<1>5. CASE ReadRemoves
  BY <1>5 DEF ReadRemoves, SeenInv, Blanks, HiddenNotes, Seen
<1>6. ASSUME NEW i \in Ids, UNCHANGED <<cloud, R>>, entry' = i
      PROVE  Blanks' /\ (R.hides = "absent" /\ (cloud[i].attrs["note"] = Empty => known'["note"] = Null)
                           => HiddenNotes')
  BY <1>6 DEF SeenInv, Blanks, HiddenNotes
<1>7. CASE ReadOk
  <2>1. /\ UNCHANGED <<cloud, R>> /\ entry' = entry /\ entry \in Ids
        /\ stale' = MidChange(entry)
        /\ known' = Recorded(cloud[entry].attrs, known)
    BY <1>7 DEF ReadOk, program, LedgerInv, Types, Placed, TypeOK
  <2>2. \A f \in Fields :
          known'[f] = IF f \notin R.reads THEN known[f]
                      ELSE IF /\ f = "note" /\ cloud[entry].attrs[f] = Empty
                              /\ R.hides = "always" \/ (R.hides = "absent" /\ known[f] = Null)
                      THEN Null ELSE cloud[entry].attrs[f]
    BY <2>1 DEF Recorded
  <2>3. R.hides = "absent" /\ cloud[entry].attrs["note"] = Empty
          => known["note"] = Null /\ known'["note"] = Null
    BY <1>1, <2>1, <2>2, IdsAssumption DEF SeenInv, HiddenNotes
  <2>4. Blanks' /\ HiddenNotes'
    BY <1>6, <2>1, <2>3 DEF HiddenNotes
  <2>5. \A f \in R.reads \cap Fields :
          \/ known'[f] = cloud[entry].attrs[f] /\ (known'[f] = Empty => R.hides = "never")
          \/ f = "note" /\ known'[f] = Null /\ cloud[entry].attrs[f] = Empty
    <3>1. \A f \in Fields \ {"note"} : cloud[entry].attrs[f] # Empty
      BY <2>1 DEF SeenInv, Blanks
    <3> QED BY <2>2, <2>3, <3>1, RowHides
  <2>6. ~stale' => cloud[entry].attrs = cloud[entry].goal
    BY <2>1 DEF MidChange
  <2> QED BY <2>1, <2>4, <2>5, <2>6 DEF SeenInv, Seen
<1>8. ASSUME NEW f \in Fields, ReadMisses(f) PROVE SeenInv'
  <2>1. /\ UNCHANGED <<cloud, R>> /\ entry' = entry /\ entry \in Ids /\ stale' = TRUE
        /\ f \in R.misses
    BY <1>8 DEF ReadMisses, program, LedgerInv, Types, Placed, TypeOK
  <2>2. R.hides # "absent"
    BY <2>1, RowHides DEF Hiding
  <2> QED BY <2>1, <2>2 DEF SeenInv, Blanks, HiddenNotes, Seen
<1>9. CASE ImportOk
  <2>1. /\ UNCHANGED <<cloud, R>> /\ entry' = made /\ made \in Ids /\ pc' = "idle"
        /\ known' = Recorded(cloud[made].attrs, [f \in Fields |-> Null])
    BY <1>9 DEF ImportOk, Unrecorded, LedgerInv, Types, Placed, TypeOK
  <2>2. R.hides = "absent" /\ cloud[made].attrs["note"] = Empty => known'["note"] = Null
    BY <1>1, <2>1 DEF Recorded
  <2>3. Blanks' /\ HiddenNotes'
    BY <1>6, <2>1, <2>2 DEF HiddenNotes
  <2> QED BY <2>1, <2>3 DEF SeenInv, Seen
<1> QED BY <1>3, <1>4, <1>5, <1>7, <1>8, <1>9

LEMMA ServiceSees ==
  ASSUME LedgerInv, SeenInv, Service
  PROVE  SeenInv'
<1> USE DEF LedgerInv
<1>1. PICK i \in Ids :
        \/ Settle(i) \/ Vanish(i) \/ Break(i) \/ ExternalDelete(i)
        \/ \E f \in Fields, v \in Values : Drift(i, f, v)
  BY DEF Service
<1>2. cloud[i] \in Object /\ cloud \in [Ids -> Object] /\ entry \in Ids \cup {NoId}
  BY <1>1 DEF Types, TypeOK
<1>3. UNCHANGED <<entry, known, pc, R>> /\ "note" \in Fields
  BY <1>1 DEF Settle, Vanish, Break, ExternalDelete, Drift, Completes, Disappears,
              Breaks, DeletedElsewhere, Drifts, ServiceOnly, program, Fields
(* What the object has and will have afterwards.                           *)
<1>4. /\ \A j \in Ids \ {i} : cloud'[j] = cloud[j]
      /\ \A f \in Fields :
           \/ cloud'[i].attrs[f] \in {cloud[i].attrs[f], cloud[i].goal[f]}
              /\ cloud'[i].goal[f] \in {cloud'[i].attrs[f], cloud[i].goal[f]}
           \/ cloud'[i].attrs[f] # Empty /\ cloud'[i].goal[f] = cloud'[i].attrs[f]
      /\ \/ stale' \/ i # entry
         \/ cloud'[i].attrs \in {cloud[i].attrs, cloud[i].goal}
            /\ cloud'[i].goal \in {cloud[i].attrs, cloud[i].goal}
      /\ stale => stale'
  <2>1. CASE Settle(i)
    BY <1>2, <2>1 DEF Settle, Completes, Object
  <2>2. CASE Vanish(i)
    BY <1>2, <2>2, NotBlank DEF Vanish, Disappears, Behind, NoObject
  <2>3. CASE Break(i)
    BY <1>2, <2>3 DEF Break, Breaks, Object
  <2>4. CASE ExternalDelete(i)
    BY <1>2, <2>4 DEF ExternalDelete, DeletedElsewhere, Behind, Object
  <2>5. ASSUME NEW g \in Fields, NEW v \in Values, Drift(i, g, v)
        PROVE  /\ \A j \in Ids \ {i} : cloud'[j] = cloud[j]
               /\ \A f \in Fields :
                    IF f = g THEN cloud'[i].attrs[f] = v /\ cloud'[i].goal[f] = v
                    ELSE cloud'[i].attrs[f] = cloud[i].attrs[f] /\ cloud'[i].goal[f] = cloud[i].goal[f]
               /\ stale' = (stale \/ i \in {entry, made})
    <3>1. cloud' = [cloud EXCEPT ![i].attrs[g] = v, ![i].goal[g] = v]
      BY <2>5 DEF Drift, Drifts
    <3>2. stale' = (stale \/ i \in {entry, made})
      BY <2>5 DEF Drift, Drifts, Behind
    <3> QED BY <1>2, <3>1, <3>2 DEF Object
  <2>6. \A v \in Values : v # Empty
    BY NotBlank
  <2> QED BY <1>1, <2>1, <2>2, <2>3, <2>4, <2>5, <2>6
<1>5. Blanks'
  BY <1>4 DEF SeenInv, Blanks
<1>6. HiddenNotes'
  BY <1>2, <1>3, <1>4 DEF SeenInv, HiddenNotes
<1>7. Seen'
  <2>1. SUFFICES ASSUME pc = "plan", entry # NoId, ~stale'
                 PROVE  cloud'[entry].attrs = cloud[entry].attrs /\ cloud'[entry].goal = cloud[entry].goal
    BY <1>3, <1>4 DEF SeenInv, Seen
  <2>2. cloud[entry].attrs = cloud[entry].goal
    BY <1>4, <2>1 DEF SeenInv, Seen
  <2> QED BY <1>2, <1>4, <2>1, <2>2
<1> QED BY <1>5, <1>6, <1>7 DEF SeenInv

LEMMA NextSees ==
  ASSUME LedgerInv, Changing, SeenInv, [Next]_allVars
  PROVE  SeenInv'
<1>1. CASE UNCHANGED allVars
  BY <1>1 DEF SeenInv, Blanks, HiddenNotes, Seen, allVars, vars, program
<1> QED BY <1>1, CallsSee, PostSees, TerraformSees, ServiceSees
        DEF Next, Handler, Calls, Questions, Requests, Deletions

LEMMA ReplacementStep ==
  ASSUME LedgerInv, SeenInv, PlanDelete, config.want, ~stale, ~tainted
  PROVE  \E f \in R.replace \cap R.fields : Reason(f)
<1>1. pc = "plan" /\ entry # NoId /\ Replaces
  BY DEF PlanDelete, DeletePlanned
<1>2. PICK f \in R.replace \cap R.fields : ReplacesFor(f)
  BY <1>1 DEF Replaces
<1>3. f \in Fields /\ R.hides \in {"never", "always", "absent"}
  BY RowHides
<1>4. /\ known[f] \in Recordable /\ config.attrs[f] \in Values \cup {Null}
      /\ known[f] # Unknown /\ config.attrs[f] # Unknown
  BY <1>3, MarksAssumption DEF LedgerInv, Types, TypeOK, Recordable
<1>5. \/ Planned[f] # Unknown /\ known[f] # Planned[f]
      \/ f \in R.strict /\ Planned[f] = Unknown
  <2>1. CASE f \in R.sets
    <3>1. SetRequiresReplaceOnChange(AsSet(known[f]), AsSet(Planned[f]), FALSE)
      BY <1>2, <2>1 DEF ReplacesFor
    <3>2. Planned[f] # Unknown
      BY <3>1 DEF SetRequiresReplaceOnChange, AsSet, Known
    <3>3. known[f] # Planned[f]
      BY <3>1 DEF SetRequiresReplaceOnChange, Known
    <3> QED BY <3>2, <3>3
  <2>2. CASE f \notin R.sets
    BY <1>2, <2>2 DEF ReplacesFor, ReplaceIfChangeAndNotIsNotSetOnPlan
  <2> QED BY <2>1, <2>2
<1>6. /\ Planned[f] = Proposed(f) \/ Planned[f] = known[f]
      /\ Planned[f] = Unknown => Proposed(f) = Unknown
  BY <1>1, <1>3, <1>4 DEF Planned, UseStateForInt64AfterCreate, InState
<1>7. CASE f \in R.strict /\ Proposed(f) = Unknown
  <2>1. config.attrs[f] = Null /\ f \in R.computed /\ HasDiff
    BY <1>1, <1>3, <1>4, <1>7 DEF Proposed
  <2>2. PICK g \in R.fields : /\ config.attrs[g] # known[g]
                              /\ config.attrs[g] = Null => g \notin R.computed
    BY <2>1 DEF HasDiff
  <2>3. g # f
    BY <2>1, <2>2
  <2> QED BY <1>2, <1>7, <2>1, <2>2, <2>3 DEF Reason
<1>8. CASE Proposed(f) # Unknown /\ known[f] # Proposed(f)
  <2>1. /\ Proposed(f) = config.attrs[f] /\ config.attrs[f] # known[f]
        /\ config.attrs[f] # Null \/ f \notin R.computed
    BY <1>2, <1>8 DEF Proposed
  <2>2. CASE f \notin R.reads
    BY <1>2, <2>1, <2>2 DEF Reason
  <2>3. CASE f \in R.reads
    <3>1. \/ known[f] = cloud[entry].attrs[f] /\ (known[f] = Empty => R.hides = "never")
          \/ f = "note" /\ known[f] = Null /\ cloud[entry].attrs[f] = Empty
      BY <1>1, <1>3, <2>3 DEF SeenInv, Seen
    <3>2. config.attrs[f] # Empty /\ Null # Empty
      BY <1>3, NotBlank, MarksAssumption
    <3>3. CASE config.attrs[f] # Null
      BY <1>2, <2>1, <2>3, <3>1, <3>2, <3>3 DEF Reason
    <3>4. CASE config.attrs[f] = Null
      BY <1>2, <1>4, <2>1, <2>3, <3>1, <3>2, <3>4 DEF Reason, Recordable
    <3> QED BY <3>3, <3>4
  <2> QED BY <2>2, <2>3
<1> QED BY <1>5, <1>6, <1>7, <1>8

LEMMA InitSees == PInit => SeenInv
<1>1. SUFFICES ASSUME PInit PROVE SeenInv
  OBVIOUS
<1>2. /\ \A i \in Ids : cloud[i].attrs = Default /\ cloud[i].goal = Default
      /\ entry = NoId
  BY <1>1 DEF PInit, Init, NoObject
<1> QED BY <1>2, NotBlank DEF SeenInv, Blanks, HiddenNotes, Seen

(* After a refresh that saw the service as it is, no object is destroyed   *)
(* for a replacement that neither the service nor the configuration gives  *)
(* a reason for.                                                           *)
THEOREM NothingDestroyedInVain == Spec => ReplacedForAReason
<1>1. PInit => Changing
  BY DEF PInit, Init, Changing
<1>2. PInit => SeenInv
  BY InitSees
<1>3. LedgerInv /\ Changing /\ [Next]_allVars => Changing'
  BY ChangingKept
<1>4. LedgerInv /\ Changing /\ SeenInv /\ [Next]_allVars => SeenInv'
  BY NextSees
<1>5. LedgerInv /\ SeenInv /\ [Next]_allVars =>
        [pc = "plan" /\ pc' = "delete" /\ config.want /\ ~stale /\ ~tainted =>
           \E f \in R.replace \cap R.fields : Reason(f)]_allVars
  <2>1. ASSUME LedgerInv, Next, pc = "plan", pc' = "delete" PROVE PlanDelete
    <3>1. ~Calls
      <4>1. Calls => InCall
        BY <2>1, CallsOutcome DEF LedgerInv
      <4> QED BY <2>1, <4>1 DEF InCall, HandlerPCs
    <3>2. ~(PostRefused \/ \E i \in Ids : PostAccepted(i) \/ PostReplyLost(i))
      BY <2>1 DEF PostRefused, PostAccepted, PostReplyLost, Posted, At, HandlerPCs
    <3>3. ~(User \/ Stopped \/ Service)
      BY <2>1 DEF User, EditConfig, StartRun, StartImport, Stopped, Crash, Fail,
                  Service, Settle, Vanish, Break, ExternalDelete, Drift, Completes,
                  Disappears, Breaks, DeletedElsewhere, Drifts, ServiceOnly
    <3>4. ~(ReadOk \/ ReadFails \/ ReadRemoves \/ ImportOk \/ ImportFails
            \/ \E f \in Fields : ReadMisses(f))
      BY <2>1 DEF ReadOk, ReadFails, ReadRemoves, ReadMisses, ImportOk, ImportFails
    <3>5. ~(PlanNothing \/ PlanCreate \/ PlanUpdate)
      BY <2>1 DEF PlanNothing, PlanCreate, PlanUpdate, NothingPlanned, CreatePlanned,
                  UpdatePlanned, Goto
    <3> QED BY <2>1, <3>1, <3>2, <3>3, <3>4, <3>5
            DEF Next, Handler, Calls, Questions, Requests, Deletions
  <2> QED BY <2>1, ReplacementStep
<1> QED BY <1>1, <1>2, <1>3, <1>4, <1>5, LedgerInvariant, PTL DEF Spec, ReplacedForAReason

-----------------------------------------------------------------------------
(* A success is reported only of what is ready.                            *)

(* The calls of a code that are made when D is to change: its last wait    *)
(* comes after the last request.                                           *)
Hit(c, D) == c.only = {} \/ c.only \cap D # {}
EndsWaiting(code, D) ==
  \E n \in 1 .. Len(code) :
     /\ code[n].call = "poll" /\ Hit(code[n], D)
     /\ \A m \in n + 1 .. Len(code) : code[m].call = "send" => ~Hit(code[m], D)
(* No error, and no wait that takes too long, counts as a success.         *)
Minds(k, code) ==
  \A n \in 1 .. Len(code) :
     /\ code[n].error \in {"stop", "keep", "refetch", "goOn"}
     /\ code[n].late = "error" \/ k = "vpc"
Waits(k, row) ==
  /\ Minds(k, row.create) /\ Minds(k, row.update)
  /\ \A D : EndsWaiting(row.create, D)
  /\ \/ row.update = <<Unsupported>>
     \/ \A D : D \cap (row.fields \ row.replace) # {} \/ row.pinned # {}
               => EndsWaiting(row.update, D)
  /\ row.pinned = {} => row.sets = {}
  /\ k = "vpc" => Len(row.create) = 2 /\ row.update = <<Unsupported>>

(* What is asked of a single call.                                         *)
Heeds(c, F) ==
  c.only = F /\ c.error \in {"stop", "keep", "refetch", "goOn"} /\ c.late = "error"

LEMMA HeedingCalls ==
  /\ \A c : Call(c).call = c /\ Heeds(Call(c), {})
  /\ \A F : Send(F).call = "send" /\ Heeds(Send(F), {})
  /\ \A F, G : Patch(F, G).call = "send" /\ Heeds(Patch(F, G), {})
  /\ \A F, G, H : [Patch(F, G) EXCEPT !.omitted = H].call = "send"
                  /\ Heeds([Patch(F, G) EXCEPT !.omitted = H], {})
  /\ \A F, G : IfChanged(F, Send(G)).call = "send" /\ Heeds(IfChanged(F, Send(G)), F)
  /\ \A F : IfChanged(F, Poll).call = "poll" /\ Heeds(IfChanged(F, Poll), F)
  /\ \A F : /\ IfChanged(F, [Poll EXCEPT !.error = "goOn"]).call = "poll"
            /\ Heeds(IfChanged(F, [Poll EXCEPT !.error = "goOn"]), F)
  /\ [Poll EXCEPT !.blind = TRUE].call = "poll" /\ Heeds([Poll EXCEPT !.blind = TRUE], {})
  /\ KeepingPoll.call = "poll" /\ Heeds(KeepingPoll, {})
  /\ [KeepingPoll EXCEPT !.blind = TRUE].call = "poll"
  /\ Heeds([KeepingPoll EXCEPT !.blind = TRUE], {})
  /\ [Lookup EXCEPT !.error = "keep"].call = "lookup"
  /\ Heeds([Lookup EXCEPT !.error = "keep"], {})
  /\ [Poll EXCEPT !.error = "refetch"].call = "poll"
  /\ Heeds([Poll EXCEPT !.error = "refetch"], {})
BY DEF Heeds, Call, Send, Patch, IfChanged, Poll, KeepingPoll, Lookup

(* Codes of two and three calls.                                           *)
LEMMA WaitingPairs ==
  ASSUME NEW k, NEW c, NEW d, Heeds(c, {}), Heeds(d, {}), d.call = "poll"
  PROVE  Minds(k, <<c, d>>) /\ \A D : EndsWaiting(<<c, d>>, D)
<1> DEFINE code == <<c, d>>
<1>1. Len(code) = 2 /\ code[1] = c /\ code[2] = d
  OBVIOUS
<1> HIDE DEF code
<1>2. Minds(k, code)
  BY <1>1 DEF Minds, Heeds
<1>3. ASSUME NEW D PROVE EndsWaiting(code, D)
  <2>1. code[2].call = "poll" /\ Hit(code[2], D) /\ 2 \in 1 .. Len(code)
    BY <1>1 DEF Hit, Heeds
  <2>2. \A m \in 2 + 1 .. Len(code) : FALSE
    BY <1>1
  <2> QED BY <2>1, <2>2 DEF EndsWaiting
<1> QED BY <1>2, <1>3 DEF code

LEMMA WaitingTriples ==
  ASSUME NEW k, NEW c, NEW d, NEW e, NEW F, NEW G, Heeds(c, F), Heeds(d, G), Heeds(e, {}),
         e.call = "poll" \/ (d.call = "poll" /\ G = {} /\ e.call # "send")
  PROVE  Minds(k, <<c, d, e>>) /\ \A D : EndsWaiting(<<c, d, e>>, D)
<1> DEFINE code == <<c, d, e>>
<1>1. Len(code) = 3 /\ code[1] = c /\ code[2] = d /\ code[3] = e
  OBVIOUS
<1> HIDE DEF code
<1>2. Minds(k, code)
  BY <1>1 DEF Minds, Heeds
<1>3. ASSUME NEW D, e.call = "poll" PROVE EndsWaiting(code, D)
  <2>1. code[3].call = "poll" /\ Hit(code[3], D) /\ 3 \in 1 .. Len(code)
    BY <1>1, <1>3 DEF Hit, Heeds
  <2>2. \A m \in 3 + 1 .. Len(code) : FALSE
    BY <1>1
  <2> QED BY <2>1, <2>2 DEF EndsWaiting
<1>4. ASSUME NEW D, d.call = "poll" /\ G = {} /\ e.call # "send" PROVE EndsWaiting(code, D)
  <2>1. code[2].call = "poll" /\ Hit(code[2], D) /\ 2 \in 1 .. Len(code)
    BY <1>1, <1>4 DEF Hit, Heeds
  <2>2. \A m \in 2 + 1 .. Len(code) : code[m].call # "send"
    BY <1>1, <1>4
  <2> QED BY <2>1, <2>2 DEF EndsWaiting
<1> QED BY <1>2, <1>3, <1>4 DEF code

(* Pairs of a request and a wait that are made for one attribute each.     *)
LEMMA WaitingSteps ==
  ASSUME NEW k, NEW F, NEW c, NEW d, Heeds(c, F), Heeds(d, F), d.call = "poll"
  PROVE  /\ Minds(k, <<c, d>>)
         /\ \A D : D \cap F # {} => EndsWaiting(<<c, d>>, D)
<1> DEFINE code == <<c, d>>
<1>1. Len(code) = 2 /\ code[1] = c /\ code[2] = d
  OBVIOUS
<1> HIDE DEF code
<1>2. Minds(k, code)
  BY <1>1 DEF Minds, Heeds
<1>3. ASSUME NEW D, D \cap F # {} PROVE EndsWaiting(code, D)
  <2>1. code[2].call = "poll" /\ Hit(code[2], D) /\ 2 \in 1 .. Len(code)
    BY <1>1, <1>3 DEF Hit, Heeds
  <2>2. \A m \in 2 + 1 .. Len(code) : FALSE
    BY <1>1
  <2> QED BY <2>1, <2>2 DEF EndsWaiting
<1> QED BY <1>2, <1>3 DEF code

LEMMA WaitingUpdates ==
  /\ Minds("cluster", ClusterUpdate)
  /\ \A D : D \cap {"size", "edit"} # {} => EndsWaiting(ClusterUpdate, D)
  /\ Minds("volume", VolumeUpdate)
  /\ \A D : D \cap {"name", "edit", "size"} # {} => EndsWaiting(VolumeUpdate, D)
<1> DEFINE S(f) == IfChanged({f}, Send({f}))
           P(f) == IfChanged({f}, Poll)
<1>1. \A f : /\ S(f).call = "send" /\ Heeds(S(f), {f})
             /\ P(f).call = "poll" /\ Heeds(P(f), {f})
  BY HeedingCalls
<1>2. /\ ClusterUpdate = <<S("size"), P("size"), S("edit"), P("edit")>>
      /\ VolumeUpdate = <<S("name"), P("name"), S("edit"), P("edit"), S("size"), P("size")>>
  BY DEF ClusterUpdate, VolumeUpdate
<1> HIDE DEF S, P
<1>3. /\ Len(ClusterUpdate) = 4 /\ ClusterUpdate[1] = S("size") /\ ClusterUpdate[2] = P("size")
      /\ ClusterUpdate[3] = S("edit") /\ ClusterUpdate[4] = P("edit")
  BY <1>2
<1>4. /\ Len(VolumeUpdate) = 6 /\ VolumeUpdate[1] = S("name") /\ VolumeUpdate[2] = P("name")
      /\ VolumeUpdate[3] = S("edit") /\ VolumeUpdate[4] = P("edit")
      /\ VolumeUpdate[5] = S("size") /\ VolumeUpdate[6] = P("size")
  BY <1>2
<1>5. Minds("cluster", ClusterUpdate)
  BY <1>1, <1>3 DEF Minds, Heeds
<1>6. Minds("volume", VolumeUpdate)
  BY <1>1, <1>4 DEF Minds, Heeds
<1>7. /\ \A f : S(f).call = "send" /\ P(f).call = "poll"
      /\ \A D, f : (Hit(S(f), D) <=> f \in D) /\ (Hit(P(f), D) <=> f \in D)
  <2>1. \A f : S(f).only = {f} /\ P(f).only = {f}
    BY <1>1 DEF Heeds
  <2>2. ASSUME NEW D, NEW f, NEW c, c.only = {f} PROVE (Hit(c, D) <=> f \in D)
    BY <2>2 DEF Hit
  <2> QED BY <1>1, <2>1, <2>2, Zenon
<1>10. \A D :
        /\ ClusterUpdate[1].call = "send" /\ (Hit(ClusterUpdate[1], D) <=> "size" \in D)
        /\ ClusterUpdate[2].call = "poll" /\ (Hit(ClusterUpdate[2], D) <=> "size" \in D)
        /\ ClusterUpdate[3].call = "send" /\ (Hit(ClusterUpdate[3], D) <=> "edit" \in D)
        /\ ClusterUpdate[4].call = "poll" /\ (Hit(ClusterUpdate[4], D) <=> "edit" \in D)
  BY <1>7, <1>3
<1>11. \A D :
        /\ VolumeUpdate[1].call = "send" /\ (Hit(VolumeUpdate[1], D) <=> "name" \in D)
        /\ VolumeUpdate[2].call = "poll" /\ (Hit(VolumeUpdate[2], D) <=> "name" \in D)
        /\ VolumeUpdate[3].call = "send" /\ (Hit(VolumeUpdate[3], D) <=> "edit" \in D)
        /\ VolumeUpdate[4].call = "poll" /\ (Hit(VolumeUpdate[4], D) <=> "edit" \in D)
        /\ VolumeUpdate[5].call = "send" /\ (Hit(VolumeUpdate[5], D) <=> "size" \in D)
        /\ VolumeUpdate[6].call = "poll" /\ (Hit(VolumeUpdate[6], D) <=> "size" \in D)
  BY <1>7, <1>4
<1>8. ASSUME NEW D, D \cap {"size", "edit"} # {} PROVE EndsWaiting(ClusterUpdate, D)
  <2>1. CASE "edit" \in D
    <3>1. ClusterUpdate[4].call = "poll" /\ Hit(ClusterUpdate[4], D) /\ 4 \in 1 .. Len(ClusterUpdate)
      BY <1>3, <1>10, <2>1
    <3>2. \A m \in 4 + 1 .. Len(ClusterUpdate) : ClusterUpdate[m].call = "send" => ~Hit(ClusterUpdate[m], D)
      BY <1>3, <1>10, <2>1
    <3> QED BY <3>1, <3>2 DEF EndsWaiting
  <2>2. CASE "edit" \notin D
    <3>1. ClusterUpdate[2].call = "poll" /\ Hit(ClusterUpdate[2], D) /\ 2 \in 1 .. Len(ClusterUpdate)
      BY <1>3, <1>10, <1>8, <2>2
    <3>2. \A m \in 2 + 1 .. Len(ClusterUpdate) : ClusterUpdate[m].call = "send" => ~Hit(ClusterUpdate[m], D)
      BY <1>3, <1>10, <1>8, <2>2
    <3> QED BY <3>1, <3>2 DEF EndsWaiting
  <2> QED BY <2>1, <2>2
<1>9. ASSUME NEW D, D \cap {"name", "edit", "size"} # {} PROVE EndsWaiting(VolumeUpdate, D)
  <2>1. CASE "size" \in D
    <3>1. VolumeUpdate[6].call = "poll" /\ Hit(VolumeUpdate[6], D) /\ 6 \in 1 .. Len(VolumeUpdate)
      BY <1>4, <1>11, <2>1
    <3>2. \A m \in 6 + 1 .. Len(VolumeUpdate) : VolumeUpdate[m].call = "send" => ~Hit(VolumeUpdate[m], D)
      BY <1>4, <1>11, <2>1
    <3> QED BY <3>1, <3>2 DEF EndsWaiting
  <2>2. CASE "size" \notin D /\ "edit" \in D
    <3>1. VolumeUpdate[4].call = "poll" /\ Hit(VolumeUpdate[4], D) /\ 4 \in 1 .. Len(VolumeUpdate)
      BY <1>4, <1>11, <2>2
    <3>2. \A m \in 4 + 1 .. Len(VolumeUpdate) : VolumeUpdate[m].call = "send" => ~Hit(VolumeUpdate[m], D)
      BY <1>4, <1>11, <2>2
    <3> QED BY <3>1, <3>2 DEF EndsWaiting
  <2>3. CASE "size" \notin D /\ "edit" \notin D
    <3>1. VolumeUpdate[2].call = "poll" /\ Hit(VolumeUpdate[2], D) /\ 2 \in 1 .. Len(VolumeUpdate)
      BY <1>4, <1>11, <1>9, <2>3
    <3>2. \A m \in 2 + 1 .. Len(VolumeUpdate) : VolumeUpdate[m].call = "send" => ~Hit(VolumeUpdate[m], D)
      BY <1>4, <1>11, <1>9, <2>3
    <3> QED BY <3>1, <3>2 DEF EndsWaiting
  <2> QED BY <2>1, <2>2, <2>3
<1> QED BY <1>5, <1>6, <1>8, <1>9

LEMMA WaitingRows ==
  \A k \in Waiting : Waits(k, Table[k])
<1> DEFINE Lone(code, k) == Minds(k, code) /\ \A D : EndsWaiting(code, D)
<1>1. \A c \in {"post", "get", "poll", "unsupported"} : Call(c).call = c /\ Heeds(Call(c), {})
  BY HeedingCalls
<1>2. /\ Post.call = "post" /\ Heeds(Post, {}) /\ Poll.call = "poll" /\ Heeds(Poll, {})
      /\ Get.call = "get" /\ Heeds(Get, {}) /\ Unsupported.call = "unsupported"
      /\ Heeds(Unsupported, {})
  BY <1>1 DEF Post, Poll, Get, Unsupported
<1>3. \A k : Lone(<<Post, Poll>>, k) /\ Lone(<<Post, KeepingPoll>>, k)
             /\ Lone(RouteCreate, k) /\ Lone(NodePoolCreate, k)
  BY <1>2, HeedingCalls, WaitingPairs DEF RouteCreate, NodePoolCreate
<1>4. ASSUME NEW k PROVE Lone(ReplicaCreate, k)
  <2>1. /\ Heeds(KeepingPoll, {}) /\ KeepingPoll.call = "poll"
        /\ Heeds([Lookup EXCEPT !.error = "keep"], {})
        /\ [Lookup EXCEPT !.error = "keep"].call # "send"
    BY HeedingCalls
  <2> QED BY <1>2, <2>1, WaitingTriples DEF ReplicaCreate
<1>5. ASSUME NEW k, NEW c, NEW F, Heeds(c, F) PROVE Minds(k, <<c>>)
  BY <1>5 DEF Minds, Heeds
<1>6. \A k : Minds(k, <<Unsupported>>) /\ \A F : Minds(k, <<Send(F)>>)
  BY <1>2, <1>5, HeedingCalls
<1>7. Waits("vpc", Vpc)
  <2> DEFINE c == [Poll EXCEPT !.late = "passes"]
  <2>1. VpcCreate = <<Post, c>> /\ c.call = "poll" /\ c.only = {} /\ c.error = "stop"
    BY DEF VpcCreate, Poll, Call
  <2> HIDE DEF c
  <2>2. /\ Len(VpcCreate) = 2 /\ VpcCreate[1] = Post /\ VpcCreate[2] = c
    BY <2>1
  <2>3. Minds("vpc", VpcCreate)
    BY <1>2, <2>1, <2>2 DEF Minds, Heeds
  <2>4. ASSUME NEW D PROVE EndsWaiting(VpcCreate, D)
    <3>1. VpcCreate[2].call = "poll" /\ Hit(VpcCreate[2], D) /\ 2 \in 1 .. Len(VpcCreate)
      BY <2>1, <2>2 DEF Hit
    <3>2. \A m \in 2 + 1 .. Len(VpcCreate) : FALSE
      BY <2>2
    <3> QED BY <3>1, <3>2 DEF EndsWaiting
  <2>5. /\ Vpc.create = VpcCreate /\ Vpc.update = <<Unsupported>> /\ Vpc.sets = {}
    BY DEF Vpc, Plain
  <2> QED BY <1>6, <2>2, <2>3, <2>4, <2>5 DEF Waits
<1>8. Waits("route", Route)
  <2>1. Route.create = RouteCreate /\ Route.update = <<Unsupported>> /\ Route.sets = {}
    BY DEF Route, Plain
  <2> QED BY <1>3, <1>6, <2>1 DEF Waits
<1>9. Waits("replica", Replica)
  <2>1. /\ Replica.create = ReplicaCreate /\ Replica.update = ReplicaUpdate
        /\ Replica.sets = {} /\ Replica.pinned = {}
        /\ Replica.fields \ Replica.replace = Resized
    BY DEF Replica, Plain, Resized
  <2>2. \A k : Minds(k, ReplicaUpdate) /\ \A D : D \cap Resized # {} => EndsWaiting(ReplicaUpdate, D)
    BY HeedingCalls, WaitingSteps DEF ReplicaUpdate
  <2> QED BY <1>4, <2>1, <2>2 DEF Waits
<1>10. Waits("instanceSnapshot", InstanceSnapshot)
  <2>1. /\ InstanceSnapshot.create = <<Post, KeepingPoll>>
        /\ InstanceSnapshot.update = <<Send({"name", "note"})>>
        /\ InstanceSnapshot.sets = {} /\ InstanceSnapshot.pinned = {}
        /\ InstanceSnapshot.fields \ InstanceSnapshot.replace = {}
    BY DEF InstanceSnapshot, InstanceSnapshotCreate, Plain, Fields
  <2> QED BY <1>3, <1>6, <2>1 DEF Waits
<1>11. Waits("storageSnapshot", StorageSnapshot)
  <2>1. /\ StorageSnapshot.create = <<Post, KeepingPoll>>
        /\ StorageSnapshot.update = StorageSnapshotUpdate
        /\ StorageSnapshot.sets = {} /\ StorageSnapshot.pinned = {}
        /\ StorageSnapshot.fields \ StorageSnapshot.replace = {"edit"}
    BY DEF StorageSnapshot, StorageSnapshotCreate, Plain
  <2>2. \A k : /\ Minds(k, StorageSnapshotUpdate)
               /\ \A D : D \cap {"edit"} # {} => EndsWaiting(StorageSnapshotUpdate, D)
    BY HeedingCalls, WaitingSteps DEF StorageSnapshotUpdate
  <2> QED BY <1>3, <2>1, <2>2 DEF Waits
<1>12. Waits("volume", Volume)
  <2>1. /\ Volume.create = <<Post, Poll>> /\ Volume.update = VolumeUpdate
        /\ Volume.sets = {} /\ Volume.pinned = {}
        /\ Volume.fields \ Volume.replace = {"name", "edit", "size"}
    BY DEF Volume, VolumeCreate, Plain, Fields
  <2> QED BY <1>3, <2>1, WaitingUpdates DEF Waits
<1>13. Waits("cluster", Cluster)
  <2>1. /\ Cluster.create = <<Post, Poll>> /\ Cluster.update = ClusterUpdate
        /\ Cluster.sets = {} /\ Cluster.pinned = {}
        /\ Cluster.fields \ Cluster.replace = {"size", "edit"}
    BY DEF Cluster, ClusterCreate, Plain
  <2> QED BY <1>3, <2>1, WaitingUpdates DEF Waits
<1>14. Waits("nodePool", NodePool)
  <2>1. /\ NodePool.create = NodePoolCreate /\ NodePool.update = NodePoolUpdate
        /\ NodePool.pinned # {}
    BY DEF NodePool, Plain
  <2>2. \A k : Lone(NodePoolUpdate, k)
    <3>1. /\ Heeds(Send({"edit", "size"}), {}) /\ Heeds([Poll EXCEPT !.blind = TRUE], {})
          /\ [Poll EXCEPT !.blind = TRUE].call = "poll"
      BY HeedingCalls
    <3> QED BY <1>2, <3>1, WaitingTriples DEF NodePoolUpdate
  <2> QED BY <1>3, <2>1, <2>2 DEF Waits
<1>15. Waits("virtualMachine", VirtualMachine)
  <2>1. /\ VirtualMachine.create = <<Post, Poll>> /\ VirtualMachine.update = VmUpdate
        /\ VirtualMachine.sets = {}
    BY DEF VirtualMachine, VmCreate, Plain
  <2>2. \A k : Lone(VmUpdate, k)
    <3>1. \A f : Heeds(IfChanged({f}, Send({f})), {f})
      BY HeedingCalls
    <3> QED BY <1>2, <3>1, WaitingTriples DEF VmUpdate
  <2> QED BY <1>3, <2>1, <2>2 DEF Waits
<1>16. Waits("kubernetes", Kubernetes)
  <2>1. /\ Kubernetes.create = <<Post, KeepingPoll>> /\ Kubernetes.update = KubernetesUpdate
        /\ Kubernetes.sets = {}
    BY DEF Kubernetes, KubernetesCreate, Plain
  <2>2. \A k : Lone(KubernetesUpdate, k)
    BY <1>2, HeedingCalls, WaitingPairs DEF KubernetesUpdate
  <2> QED BY <1>3, <2>1, <2>2 DEF Waits
<1> QED BY <1>7, <1>8, <1>9, <1>10, <1>11, <1>12, <1>13, <1>14, <1>15, <1>16 DEF Waiting, Table

(* A resource that the service has done, at the end of a wait, stays done  *)
(* until the handler asks for another change: what the waits so far have   *)
(* shown still holds, unless the service moved behind the provider's back. *)
Diff == {f \in R.fields \cup UNION {Code[n].only : n \in DOMAIN Code} : Differs(f)}
Polled ==
  /\ pc \in {"create", "update"} /\ kind \in Waiting \ {"vpc"}
  /\ ~stale /\ ~failed
  => \A n \in 1 .. at - 1 :
       /\ Code[n].call = "poll" /\ Hit(Code[n], Diff)
       /\ \A m \in n + 1 .. at - 1 : Code[m].call = "send" => ~Hit(Code[m], Diff)
       => cloud[Target].status = "READY"
Resting == settled => pc = "idle"
Staying == pc = "update" => ~Replaces

LEMMA Needing ==
  ASSUME NEW n \in DOMAIN Code
  PROVE  Hit(Code[n], Diff) <=> Code[n].only = {} \/ \E f \in Code[n].only : Differs(f)
BY DEF Hit, Diff

LEMMA RowWaits ==
  ASSUME LedgerInv, kind \in Waiting
  PROVE  Waits(kind, R)
<1>1. kind \in AllKinds /\ R = Table[kind]
  BY TableAssumption DEF LedgerInv, Types, ProgramOK
<1> QED BY <1>1, WaitingRows

(* How a call of Create or Update ends when no error is added.             *)
LEMMA FailsSeen ==
  ASSUME CallFails, Cur.error \in {"stop", "keep", "refetch", "goOn"}
  PROVE  stale' \/ GoesOnWith(TRUE)
BY DEF CallFails, Stop, Fail, Keep, GoesOnWith

LEMMA CallAnswers ==
  ASSUME LedgerInv, Calls, pc \in {"create", "update"}, kind \in Waiting
  PROVE  \/ stale'
         \/ GoesOnWith(TRUE)
         \/ Len(Code) = 0
         \/ /\ at \in DOMAIN Code /\ Code # <<Unsupported>> /\ Proceeds
            /\ Cur.call = "poll" /\ Hit(Cur, Diff)
                 => \/ cloud[Target].status = "READY"
                    \/ kind = "vpc" /\ Timeout
            /\ ~(Cur.call = "send" /\ Hit(Cur, Diff)) => UNCHANGED cloud
<1> DEFINE Goal ==
       \/ stale'
       \/ GoesOnWith(TRUE)
       \/ /\ at \in DOMAIN Code /\ Code # <<Unsupported>> /\ Proceeds
          /\ Cur.call = "poll" /\ Hit(Cur, Diff)
               => \/ cloud[Target].status = "READY"
                  \/ kind = "vpc" /\ Timeout
          /\ ~(Cur.call = "send" /\ Hit(Cur, Diff)) => UNCHANGED cloud
<1>0. Code = <<Unsupported>> /\ at \in DOMAIN Code => Cur.call = "unsupported" /\ Cur.only = {}
  BY DEF Cur, Unsupported, Call
<1>1. /\ Minds(kind, R.create) /\ Minds(kind, R.update)
      /\ DOMAIN Code = 1 .. Len(Code)
  BY RowWaits, CodeTyped DEF Waits, Code, LedgerInv, Types, HandlerPCs
<1>2. ASSUME at \in DOMAIN Code
      PROVE  /\ Cur.error \in {"stop", "keep", "refetch", "goOn"}
             /\ Cur.late = "error" \/ kind = "vpc"
  BY <1>1, <1>2 DEF Minds, Cur, Code
<1>3. at \in DOMAIN Code => (Hit(Cur, Diff) <=> Needed)
  BY Needing DEF Needed, Cur
<1>4. at \in DOMAIN Code => Cur.call \notin {"delete", "deleteAgain", "pollGone"}
  BY CallPlaces DEF LedgerInv, HandlerPCs
<1>5. ~Deletions
  <2>1. ~(At("delete") \/ At("deleteAgain") \/ At("pollGone"))
    BY <1>4 DEF At
  <2> QED BY <2>1 DEF Deletions, DeleteAccepted, DeleteReplyLost, DeleteRefused,
             DeleteAgainGone, DeleteAgainDone, DeleteAgainFails, PollGoneDone, PollGoneFails
<1>6. ASSUME at \in DOMAIN Code, CallFails PROVE Goal
  BY <1>2, <1>6, FailsSeen
<1>7. ASSUME Stop PROVE Goal
  BY <1>7 DEF Stop, Fail
<1>8. CASE Skip
  <2>1. at \in DOMAIN Code /\ ~Needed /\ Proceeds /\ UNCHANGED cloud
    BY <1>8 DEF Skip, Needed, Quiet
  <2> QED BY <1>0, <1>3, <2>1, <1>8 DEF Skip
<1>9. CASE NoCalls
  BY <1>9 DEF NoCalls
<1>10. CASE UnsupportedFails \/ UndoDone \/ UndoFails
  BY <1>7, <1>10 DEF UnsupportedFails, UndoDone, UndoFails
<1>11. CASE GetOk \/ LookupOk \/ UndoNothing
  BY <1>0, <1>11 DEF GetOk, LookupOk, UndoNothing, At, Quiet
<1>12. CASE PollReady
  BY <1>0, <1>12 DEF PollReady, At, Quiet
<1>13. CASE GetFails \/ PollFails \/ SendReplyLost \/ SendRefused
  BY <1>6, <1>13 DEF GetFails, PollFails, SendReplyLost, SendRefused, Asked, At
<1>14. CASE SendAccepted
  <2>1. At("send") /\ Needed /\ Proceeds
    BY <1>14 DEF SendAccepted, Asked
  <2> QED BY <1>0, <1>3, <2>1 DEF At
<1>15. CASE Timeout
  <2>1. At("poll") /\ at \in DOMAIN Code /\ Cur.call = "poll" /\ UNCHANGED cloud
    BY <1>4, <1>15 DEF Timeout, At, Quiet
  <2>2. CASE Cur.late = "error"
    BY <1>6, <1>15, <2>1, <2>2 DEF Timeout
  <2>3. CASE Cur.late # "error"
    BY <1>0, <1>2, <1>15, <2>1, <2>3 DEF Timeout
  <2> QED BY <2>2, <2>3
<1> QED BY <1>5, <1>8, <1>9, <1>10, <1>11, <1>12, <1>13, <1>14, <1>15
        DEF Calls, Questions, Requests

(* A run that updates has something to change that the handler can change. *)
LEMMA StayingKept ==
  ASSUME LedgerInv, Staying, [Next]_allVars
  PROVE  Staying'
<1>1. SUFFICES ASSUME pc' = "update"
               PROVE  ~Replaces'
  BY DEF Staying
<1>2. ~Replaces
  BY <1>1, UpdateFrom DEF Staying, PlanUpdate, UpdatePlanned
<1>3. UNCHANGED <<config, known, entry, R, tainted>>
  BY <1>1, UpdateFrom
<1>4. Planned' = Planned
  BY <1>3 DEF Planned, Proposed, InState, HasDiff
<1> QED BY <1>2, <1>3, <1>4 DEF Replaces, ReplacesFor

LEMMA SomethingDiffers ==
  ASSUME LedgerInv, Changing, Staying, pc = "update", R.pinned = {}, R.sets = {}
  PROVE  \E f \in R.fields \ R.replace : Differs(f)
<1>1. R.fields \subseteq Fields /\ entry # NoId
  BY RowHides DEF LedgerInv, Types, Placed
<1>2. \A f \in Fields : Planned[f] = Proposed(f)
  BY DEF Planned
<1>3. HasDiff
  <2>1. SUFFICES ASSUME ~HasDiff PROVE Planned = known
    BY DEF Changing
  <2>2. \A f \in Fields : Planned[f] = known[f]
    BY <1>1, <1>2, <2>1 DEF Proposed, HasDiff
  <2> QED BY <2>2, PlanTyped DEF PlannedAttrs, LedgerInv, Types, TypeOK
<1>4. PICK f \in R.fields : /\ config.attrs[f] # known[f]
                            /\ config.attrs[f] = Null => f \notin R.computed
  BY <1>3 DEF HasDiff
<1>5. Planned[f] = config.attrs[f] /\ config.attrs[f] # Unknown
  BY <1>1, <1>2, <1>4, MarksAssumption DEF Proposed, LedgerInv, Types, TypeOK
<1>6. f \notin R.replace
  <2>1. SUFFICES ASSUME f \in R.replace PROVE FALSE
    OBVIOUS
  <2>2. ~ReplacesFor(f)
    BY <2>1 DEF Staying, Replaces
  <2> QED BY <1>4, <1>5, <2>2 DEF ReplacesFor, ReplaceIfChangeAndNotIsNotSetOnPlan
<1> QED BY <1>4, <1>5, <1>6 DEF Differs

LEMMA RestingKept ==
  ASSUME LedgerInv, Resting, [Next]_allVars
  PROVE  Resting'
<1>1. CASE Calls
  <2>1. InCall /\ Outcome
    BY <1>1, CallsOutcome DEF LedgerInv
  <2> QED BY <2>1 DEF InCall, HandlerPCs, Outcome, Stop, Fail, Keeps, Keep, RollsBack,
                      FindsNothing, DeleteReturns, GoesOnWith, GoesOn, Ends, Returns,
                      CreateReturns, UpdateReturns, Resting
<1>2. CASE PostRefused \/ \E i \in Ids : PostAccepted(i) \/ PostReplyLost(i)
  <2>1. pc = "create"
    <3>1. At("post")
      BY <1>2 DEF PostRefused, PostAccepted, PostReplyLost, Posted
    <3>2. pc \in HandlerPCs /\ at \in DOMAIN Code /\ Cur.call = "post"
      BY <3>1 DEF At
    <3> QED BY <3>2, CallPlaces DEF LedgerInv
  <2> QED BY <1>2, <2>1 DEF PostRefused, PostAccepted, PostReplyLost, Stop, Fail, GoesOn,
                            Returns, CreateReturns, Resting
<1>3. CASE PlanNothing \/ PlanCreate \/ PlanUpdate \/ PlanDelete
  BY <1>3 DEF PlanNothing, PlanCreate, PlanUpdate, PlanDelete, NothingPlanned,
              CreatePlanned, UpdatePlanned, DeletePlanned, Goto, Resting
<1>4. CASE ReadOk \/ ReadFails \/ ReadRemoves \/ (\E f \in Fields : ReadMisses(f))
  BY <1>4 DEF ReadOk, ReadFails, ReadRemoves, ReadMisses, Stop, Fail, Resting
<1>5. CASE ImportOk \/ ImportFails
  BY <1>5 DEF ImportOk, ImportFails, Resting
<1>6. CASE User \/ Stopped
  BY <1>6 DEF User, EditConfig, StartRun, StartImport, Goto, Stopped, Crash, Fail, Resting
<1>7. CASE Service
  BY <1>7 DEF Service, Settle, Vanish, Break, ExternalDelete, Drift, Completes,
              Disappears, Breaks, DeletedElsewhere, Drifts, Behind, ServiceOnly, Resting
<1>8. CASE UNCHANGED allVars
  BY <1>8 DEF allVars, vars, Resting
<1> QED BY <1>1, <1>2, <1>3, <1>4, <1>5, <1>6, <1>7, <1>8
        DEF Next, Handler, Calls, Questions, Requests, Deletions

LEMMA SameDiff ==
  ASSUME UNCHANGED <<pc, R, config, known, entry>>
  PROVE  Code' = Code /\ Diff' = Diff
<1>1. Code' = Code
  BY DEF Code
<1>2. Planned' = Planned
  BY DEF Planned, Proposed, InState, HasDiff
<1> QED BY <1>1, <1>2 DEF Diff, Differs

LEMMA CallsPoll ==
  ASSUME LedgerInv, Polled, Calls
  PROVE  Polled'
<1>1. InCall /\ Outcome /\ kind' = kind
  BY CallsOutcome, SameProgram DEF LedgerInv
<1>2. SUFFICES ASSUME pc' \in {"create", "update"}, kind \in Waiting \ {"vpc"}, ~stale', ~failed',
                      at' # 1
               PROVE  Polled'
  BY <1>1 DEF Polled
<1>3. /\ pc \in {"create", "update"} /\ pc' = pc /\ at' = at + 1
      /\ UNCHANGED <<R, config, known, entry, made, stale, failed>>
      /\ ~GoesOnWith(TRUE) /\ at < Len(Code)
  <2>1. pc # "delete"
    BY <1>1, <1>2 DEF Outcome, Stop, Fail, Keeps, Keep, RollsBack, FindsNothing, DeleteReturns,
                      GoesOnWith, GoesOn, Ends, Returns
  <2> QED BY <1>1, <1>2, <2>1
          DEF InCall, HandlerPCs, Outcome, Stop, Fail, Keeps, Keep, RollsBack,
              FindsNothing, DeleteReturns, GoesOnWith, GoesOn, Ends, Returns,
              CreateReturns, UpdateReturns, env
<1>4. at \in Nat /\ at >= 1 /\ Len(Code) # 0
  <2>1. at \in 1 .. Len(Code) + 1 /\ Len(Code) \in Nat
    BY <1>1, CodeTyped DEF LedgerInv, Types, TypeOK, InCall, Code
  <2> QED BY <1>3, <2>1
<1>5. /\ Cur.call = "poll" /\ Hit(Cur, Diff) => cloud'[Target].status = "READY"
      /\ ~(Cur.call = "send" /\ Hit(Cur, Diff)) => UNCHANGED cloud
  BY <1>2, <1>3, <1>4, CallAnswers
<1>6. Code' = Code /\ Diff' = Diff /\ Target' = Target
  BY <1>3, SameDiff DEF Target
<1>7. ASSUME NEW n \in 1 .. at, Code[n].call = "poll", Hit(Code[n], Diff),
             \A m \in n + 1 .. at : Code[m].call = "send" => ~Hit(Code[m], Diff)
      PROVE  cloud'[Target].status = "READY"
  <2>1. CASE n = at
    BY <1>5, <1>7, <2>1 DEF Cur
  <2>2. CASE n # at
    <3>1. n \in 1 .. at - 1 /\ at \in n + 1 .. at
      BY <1>4, <2>2
    <3>2. \A m \in n + 1 .. at - 1 : Code[m].call = "send" => ~Hit(Code[m], Diff)
      BY <1>4, <1>7
    <3>3. cloud[Target].status = "READY"
      BY <1>2, <1>3, <1>7, <3>1, <3>2 DEF Polled
    <3> QED BY <1>5, <1>7, <3>1, <3>3 DEF Cur
  <2> QED BY <2>1, <2>2
<1>8. at' - 1 = at
  BY <1>3, <1>4
<1> QED BY <1>6, <1>7, <1>8 DEF Polled

(* The service leaves an object that is ready as it is, or the handler is  *)
(* about something else than what the refresh saw.                         *)
LEMMA StaysReady ==
  ASSUME LedgerInv, Service, Target \in Ids, ~stale', cloud[Target].status = "READY"
  PROVE  cloud'[Target].status = "READY"
<1>1. cloud \in [Ids -> Object] /\ Target \in {entry, made}
  BY DEF LedgerInv, Types, TypeOK, Target
<1>2. PICK i \in Ids :
        \/ Settle(i) \/ Vanish(i) \/ Break(i) \/ ExternalDelete(i)
        \/ \E f \in Fields, v \in Values : Drift(i, f, v)
  BY DEF Service
<1>3. CASE i # Target
  <2>1. \E o : cloud' = [cloud EXCEPT ![i] = o]
    BY <1>1, <1>2 DEF Settle, Vanish, Break, ExternalDelete, Drift, Completes,
              Disappears, Breaks, DeletedElsewhere, Drifts
  <2> QED BY <1>1, <1>3, <2>1
<1>4. CASE i = Target
  <2>1. ~(Settle(i) \/ Vanish(i) \/ Break(i))
    BY <1>4 DEF Settle, Vanish, Break, Completes
  <2>2. ~ExternalDelete(i)
    BY <1>1, <1>4 DEF ExternalDelete, DeletedElsewhere, Behind
  <2>3. PICK f \in Fields, v \in Values : Drift(i, f, v)
    BY <1>2, <2>1, <2>2
  <2>4. stale'
    BY <1>1, <1>4, <2>3 DEF Drift, Drifts, Behind
  <2> QED BY <2>4
<1> QED BY <1>3, <1>4

LEMMA PolledKept ==
  ASSUME LedgerInv, Polled, [Next]_allVars
  PROVE  Polled'
<1>1. ASSUME UNCHANGED <<pc, kind, R, at, failed, config, known, entry, made>>,
             stale => stale',
             Target \in Ids /\ ~stale' /\ cloud[Target].status = "READY"
               => cloud'[Target].status = "READY"
      PROVE  Polled'
  <2>1. Code' = Code /\ Diff' = Diff /\ Target' = Target
    BY <1>1, SameDiff DEF Target
  <2>2. pc \in {"create", "update"} /\ at # 1 => Target \in Ids
    BY DEF LedgerInv, Types, TypeOK, Placed, Target
  <2>3. \A n \in 1 .. at - 1 : at # 1
    OBVIOUS
  <2> QED BY <1>1, <2>1, <2>2, <2>3 DEF Polled
<1>2. ASSUME pc' \in {"create", "update"} => at' = 1
      PROVE  Polled'
  BY <1>2 DEF Polled
<1>3. CASE PostRefused \/ \E i \in Ids : PostAccepted(i) \/ PostReplyLost(i)
  <2>1. At("post")
    BY <1>3 DEF PostRefused, PostAccepted, PostReplyLost, Posted
  <2>2. pc = "create" /\ at = 1 /\ Cur.call = "post"
    <3>1. pc \in HandlerPCs /\ at \in DOMAIN Code /\ Cur.call = "post"
      BY <2>1 DEF At
    <3> QED BY <3>1, CallPlaces DEF LedgerInv
  <2>3. CASE at' = 2 /\ pc' = "create" /\ R' = R
    <3>1. 1 .. at' - 1 = {1} /\ Code'[1].call # "poll"
      BY <2>2, <2>3 DEF Cur, Code
    <3> QED BY <3>1 DEF Polled
  <2>4. CASE ~(at' = 2 /\ pc' = "create" /\ R' = R)
    <3>1. pc' \notin {"create", "update"}
      BY <1>3, <2>2, <2>4 DEF PostRefused, PostAccepted, PostReplyLost, Stop, Fail, GoesOn,
                              Returns, CreateReturns
    <3> QED BY <1>2, <3>1
  <2> QED BY <2>3, <2>4
<1>4. CASE PlanNothing \/ PlanCreate \/ PlanUpdate \/ PlanDelete
  <2>1. pc = "plan" /\ at' = at
    BY <1>4 DEF PlanNothing, PlanCreate, PlanUpdate, PlanDelete, NothingPlanned,
                CreatePlanned, UpdatePlanned, DeletePlanned, program
  <2>2. at = 1
    BY <2>1 DEF LedgerInv, Types, Placed, HandlerPCs
  <2> QED BY <1>2, <2>1, <2>2
<1>5. CASE ReadOk \/ ReadFails \/ ReadRemoves \/ (\E f \in Fields : ReadMisses(f))
  BY <1>2, <1>5 DEF ReadOk, ReadFails, ReadRemoves, ReadMisses, Stop, Fail
<1>6. CASE ImportOk \/ ImportFails
  BY <1>2, <1>6 DEF ImportOk, ImportFails
<1>7. CASE User \/ Stopped
  BY <1>2, <1>7 DEF User, EditConfig, StartRun, StartImport, Goto, Stopped, Crash, Fail
<1>8. CASE Service
  <2>1. PICK i \in Ids :
          \/ Settle(i) \/ Vanish(i) \/ Break(i) \/ ExternalDelete(i)
          \/ \E f \in Fields, v \in Values : Drift(i, f, v)
    BY <1>8 DEF Service
  <2>2. UNCHANGED <<entry, known, pc, made, config, program>> /\ (stale => stale')
    <3>1. stale \in BOOLEAN
      BY DEF LedgerInv, Types, TypeOK
    <3>2. CASE Settle(i) \/ Break(i)
      BY <3>2 DEF Settle, Break, Completes, Breaks, ServiceOnly, env
    <3>3. CASE Vanish(i) \/ ExternalDelete(i)
      BY <3>1, <3>3 DEF Vanish, ExternalDelete, Disappears, DeletedElsewhere, Behind,
                        ServiceOnly, env
    <3>4. CASE \E f \in Fields, v \in Values : Drift(i, f, v)
      BY <3>1, <3>4 DEF Drift, Drifts, Behind, ServiceOnly, env
    <3> QED BY <2>1, <3>2, <3>3, <3>4
  <2> QED BY <1>1, <1>8, <2>2, StaysReady DEF program
<1>9. CASE UNCHANGED allVars
  BY <1>1, <1>9 DEF allVars, vars, program
<1> QED BY <1>3, <1>4, <1>5, <1>6, <1>7, <1>8, <1>9, CallsPoll
        DEF Next, Handler, Calls, Questions, Requests, Deletions

(* The last call of a handler that ends well.                              *)
LEMMA EndsReady ==
  ASSUME LedgerInv, Changing, Staying, Polled, Calls, pc \in {"create", "update"},
         kind \in Waiting, ~stale', Proceeds, ~failed, at >= Len(Code), ~GoesOnWith(TRUE)
  PROVE  /\ cloud[Target].status = "READY" \/ (kind = "vpc" /\ Timeout)
         /\ UNCHANGED cloud
<1>1. Waits(kind, R)
  BY RowWaits
<1>2. /\ Len(Code) \in Nat /\ DOMAIN Code = 1 .. Len(Code)
      /\ at \in Nat /\ at >= 1 /\ ~stale
  <2>1. pc \in HandlerPCs
    BY DEF HandlerPCs
  <2> QED BY <2>1, CodeTyped DEF LedgerInv, Types, TypeOK, Code, Proceeds
<1>3. Len(Code) # 0 => /\ at \in DOMAIN Code /\ Code # <<Unsupported>>
                       /\ Cur.call = "poll" /\ Hit(Cur, Diff)
                            => cloud[Target].status = "READY" \/ (kind = "vpc" /\ Timeout)
                       /\ ~(Cur.call = "send" /\ Hit(Cur, Diff)) => UNCHANGED cloud
  BY CallAnswers, Zenon
<1>4. EndsWaiting(Code, Diff)
  <2>1. CASE pc = "create"
    BY <1>1, <2>1 DEF Waits, Code
  <2>2. CASE pc = "update"
    <3>1. Code # <<Unsupported>>
      <4>1. Len(<<Unsupported>>) # 0
        OBVIOUS
      <4> QED BY <1>3, <4>1
    <3>2. SUFFICES ASSUME R.pinned = {}, R.sets = {}
                   PROVE  Diff \cap (R.fields \ R.replace) # {}
      BY <1>1, <2>2, <3>1 DEF Waits, Code
    <3>3. PICK f \in R.fields \ R.replace : Differs(f)
      BY <2>2, <3>2, SomethingDiffers
    <3> QED BY <3>3 DEF Diff
  <2> QED BY <2>1, <2>2
<1>5. PICK n \in 1 .. Len(Code) :
         /\ Code[n].call = "poll" /\ Hit(Code[n], Diff)
         /\ \A m \in n + 1 .. Len(Code) : Code[m].call = "send" => ~Hit(Code[m], Diff)
  BY <1>4 DEF EndsWaiting
<1>6. at = Len(Code) /\ Len(Code) # 0
  <2>1. Len(Code) # 0
    BY <1>2, <1>5
  <2>2. at \in DOMAIN Code
    BY <1>3, <2>1
  <2>3. at \in 1 .. Len(Code)
    BY <1>2, <2>2, Zenon
  <2>4. \A a, l \in Nat : a \in 1 .. l /\ a >= l => a = l
    OBVIOUS
  <2> QED BY <1>2, <2>1, <2>3, <2>4, Zenon
<1>7. CASE n = at
  BY <1>2, <1>3, <1>5, <1>6, <1>7 DEF Cur
<1>8. CASE n # at
  <2>1. n \in 1 .. at - 1 /\ at \in n + 1 .. Len(Code)
    BY <1>2, <1>5, <1>6, <1>8
  <2>2. kind # "vpc"
    <3>1. SUFFICES ASSUME kind = "vpc" PROVE FALSE
      OBVIOUS
    <3>2. pc = "create" /\ Len(Code) = 2
      BY <1>1, <1>3, <1>5, <3>1 DEF Waits, Code
    <3>3. Code[1].call = "post"
      BY <3>2, ProgramShaped DEF LedgerInv, Types, Shaped, Creates, Code
    <3> QED BY <1>5, <1>6, <2>1, <3>2, <3>3
  <2>3. \A m \in n + 1 .. at - 1 : Code[m].call = "send" => ~Hit(Code[m], Diff)
    BY <1>2, <1>5, <1>6
  <2>4. cloud[Target].status = "READY"
    BY <1>2, <1>5, <2>1, <2>2, <2>3 DEF Polled
  <2>5. UNCHANGED cloud
    BY <1>2, <1>3, <1>5, <1>6, <2>1 DEF Cur
  <2> QED BY <2>4, <2>5
<1> QED BY <1>7, <1>8

LEMMA ReadyStep ==
  ASSUME LedgerInv, Changing, Staying, Resting, Polled, Next,
         settled', pc \in {"create", "update"}, kind \in Waiting
  PROVE  cloud[entry'].status = "READY" \/ (kind = "vpc" /\ Timeout)
<1>1. ~settled
  BY DEF Resting
<1>2. CASE Calls
  <2>1. InCall /\ Outcome
    BY <1>2, CallsOutcome DEF LedgerInv
  <2>2. ASSUME NEW e \in BOOLEAN, GoesOnWith(e)
        PROVE  ~e /\ ~stale' /\ at >= Len(Code) /\ entry' = Target
    <3>1. at >= Len(Code) /\ Returns(made, e)
      BY <1>1, <2>2 DEF GoesOnWith, GoesOn
    <3>2. CASE pc = "create"
      <4>1. CreateReturns(made, e)
        BY <3>1, <3>2 DEF Returns
      <4>2. made # NoId
        <5>1. Len(Code) \in Nat /\ at \in 2 .. Len(Code)
          BY <2>1, <3>2, CodeTyped DEF InCall, LedgerInv, Types, Code
        <5> QED BY <3>2, <5>1 DEF LedgerInv, Types, Placed
      <4> QED BY <3>1, <4>1, <4>2 DEF CreateReturns, Target
    <3>3. CASE pc = "update"
      <4>1. UpdateReturns(e) /\ made = NoId
        BY <3>1, <3>3 DEF Returns, LedgerInv, Types, Placed
      <4> QED BY <3>1, <4>1 DEF UpdateReturns, Target
    <3> QED BY <3>2, <3>3
  <2>3. GoesOnWith(failed) /\ failed \in BOOLEAN
    <3>1. GoesOnWith(TRUE) \/ GoesOnWith(failed)
      BY <1>1, <2>1 DEF Outcome, Stop, Fail, Keeps, Keep, RollsBack, FindsNothing
    <3> QED BY <2>2, <3>1 DEF LedgerInv, Types, TypeOK
  <2>4. /\ ~failed /\ ~stale' /\ at >= Len(Code) /\ entry' = Target
        /\ ~GoesOnWith(TRUE) /\ Proceeds
    BY <2>2, <2>3 DEF GoesOnWith, Proceeds
  <2>5. cloud[Target].status = "READY" \/ (kind = "vpc" /\ Timeout)
    BY <1>2, <2>4, EndsReady
  <2> QED BY <2>4, <2>5
<1>3. CASE PostRefused \/ \E i \in Ids : PostAccepted(i) \/ PostReplyLost(i)
  <2>1. PICK i \in Ids : PostAccepted(i)
    BY <1>1, <1>3 DEF PostRefused, PostReplyLost, Stop, Fail
  <2>2. pc = "create" /\ at = 1 /\ Cur.call = "post"
    <3>1. pc \in HandlerPCs /\ at \in DOMAIN Code /\ Cur.call = "post"
      BY <2>1 DEF PostAccepted, Posted, At
    <3> QED BY <3>1, CallPlaces DEF LedgerInv
  <2>3. at >= Len(Code)
    BY <1>1, <2>1 DEF PostAccepted, GoesOn
  <2>4. PICK n \in 1 .. Len(Code) : Code[n].call = "poll"
    BY <2>2, RowWaits DEF Waits, EndsWaiting, Code
  <2>5. Len(Code) \in Nat
    BY <2>2, CodeTyped DEF LedgerInv, Types, HandlerPCs, Code
  <2>6. n = 1
    BY <2>2, <2>3, <2>4, <2>5
  <2> QED BY <2>2, <2>4, <2>6 DEF Cur
<1>4. CASE PlanNothing \/ PlanCreate \/ PlanUpdate \/ PlanDelete
  BY <1>4 DEF PlanNothing, PlanCreate, PlanUpdate, PlanDelete, NothingPlanned,
              CreatePlanned, UpdatePlanned, DeletePlanned
<1>5. CASE ReadOk \/ ReadFails \/ ReadRemoves \/ (\E f \in Fields : ReadMisses(f))
  BY <1>5 DEF ReadOk, ReadFails, ReadRemoves, ReadMisses
<1>6. CASE ImportOk \/ ImportFails
  BY <1>6 DEF ImportOk, ImportFails
<1>7. CASE User \/ Stopped
  BY <1>1, <1>7 DEF User, EditConfig, StartRun, StartImport, Stopped, Crash, Fail
<1>8. CASE Service
  BY <1>1, <1>8 DEF Service, Settle, Vanish, Break, ExternalDelete, Drift, Completes,
              Disappears, Breaks, DeletedElsewhere, Drifts, Behind
<1> QED BY <1>2, <1>3, <1>4, <1>5, <1>6, <1>7, <1>8
        DEF Next, Handler, Calls, Questions, Requests, Deletions

(* The resources that wait report a success only of what is ready, however *)
(* many requests and waits their handlers make and whichever of them are   *)
(* skipped because nothing is to change; but for a VPC that was waited for *)
(* too long.                                                               *)
THEOREM SuccessIsReady == Spec => SuccessMeansReady
<1>1. PInit => Changing /\ Staying /\ Resting /\ Polled
  BY DEF PInit, Init, Changing, Staying, Resting, Polled
<1>2. LedgerInv /\ Changing /\ [Next]_allVars => Changing'
  BY ChangingKept
<1>3. LedgerInv /\ Staying /\ [Next]_allVars => Staying'
  BY StayingKept
<1>4. LedgerInv /\ Resting /\ [Next]_allVars => Resting'
  BY RestingKept
<1>5. LedgerInv /\ Polled /\ [Next]_allVars => Polled'
  BY PolledKept
<1>6. LedgerInv /\ Changing /\ Staying /\ Resting /\ Polled /\ [Next]_allVars =>
        [settled' /\ pc \in {"create", "update"} /\ kind \in Waiting =>
           \/ cloud[entry'].status = "READY"
           \/ kind = "vpc" /\ Timeout]_allVars
  BY ReadyStep
<1> QED BY <1>1, <1>2, <1>3, <1>4, <1>5, <1>6, LedgerInvariant, PTL
        DEF Spec, SuccessMeansReady
=============================================================================
