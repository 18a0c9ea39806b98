--------------------------- MODULE DataSourcesProofs ---------------------------
(***************************************************************************)
(* What the Reads promise for every set of objects and values, any         *)
(* provider's data and every number of changes and of failed requests:     *)
(* first of any table of data sources, then of the rows of DataSources,    *)
(* whose records are of one moment, whose lists are whole, and whose       *)
(* absent values and zones keep their meaning.                             *)
(***************************************************************************)
EXTENDS DataSources, TLAPS

(* The row is that of the data source.                                     *)
RowOK == kind \in Kinds /\ R = Source[kind]

LEMMA ObjectsTyped ==
  Objects \subseteq Object
<1> DEFINE M == IF Selects THEN Modes ELSE {"active"}
           A == {a \in [Parts -> Values \cup {Null}] :
                   \A p \in Parts : a[p] \in Possible(p)}
<1>1. M \subseteq Modes /\ A \subseteq [Parts -> Values \cup {Null}]
  BY DEF Modes
<1>2. Objects = [mode : M, attrs : A]
  BY DEF Objects
<1> HIDE DEF M, A
<1> QED BY <1>1, <1>2 DEF Object

LEMMA RowTyped ==
  ASSUME RowOK
  PROVE  /\ R.asks \in Seq(Request) /\ Len(R.asks) >= 1
         /\ R.asks[1].error = "stop" /\ R.filters \subseteq SUBSET Modes
         /\ \A p \in Parts : R[p] \in Forms
BY SourceAssumption DEF RowOK

LEMMA TypeInit ==
  Init => TypeOK /\ RowOK
<1> SUFFICES ASSUME Init PROVE TypeOK /\ RowOK
  OBVIOUS
<1>1. PICK setup \in Setups : kind = setup[1] /\ provider = setup[2]
  BY DEF Init
<1>2. setup \in Kinds \X Providers
  BY <1>1, SetupsAssumption
<1>3. setup = <<kind, provider>> /\ kind \in Kinds
  BY <1>1, <1>2
<1>4. cloud \in [Ids -> Object \cup {Gone}]
  BY ObjectsTyped DEF Init
<1>5. seen \in [Ids -> SUBSET (Object \cup {Gone})]
  BY DEF Init
<1>6. faults \in 0 .. MaxFaults /\ changes \in 0 .. MaxChanges
  BY BoundsAssumption DEF Init
<1> QED BY <1>1, <1>3, <1>4, <1>5, <1>6 DEF Init, TypeOK, RowOK, Nothing

LEMMA ToldTyped ==
  ASSUME TypeOK, RowOK, NEW i \in Ids, cloud[i] # Gone
  PROVE  Told(i) \in Object
<1>1. cloud[i] \in Object
  BY DEF TypeOK
<1>2. \A p \in Parts : i \in DOMAIN got => got[i].attrs[p] \in Values \cup {Null}
  BY DEF TypeOK, Object
<1> QED BY <1>1, <1>2 DEF Told, Object

LEMMA BecomesTyped ==
  ASSUME TypeOK, NEW i \in Ids, NEW o \in Object \cup {Gone}, Becomes(i, o)
  PROVE  TypeOK'
<1>1. cloud' \in [Ids -> Object \cup {Gone}]
  BY DEF TypeOK, Becomes
<1>2. seen' \in [Ids -> SUBSET (Object \cup {Gone})]
  BY DEF TypeOK, Becomes
<1>3. changes' \in 0 .. MaxChanges
  BY BoundsAssumption DEF TypeOK, Becomes
<1> QED BY <1>1, <1>2, <1>3 DEF TypeOK, Becomes

(* Whatever the service does to an object leaves an object, or none.       *)
LEMMA ServiceBecomes ==
  ASSUME TypeOK, NEW i \in Ids, Appear(i) \/ Vanish(i) \/ Change(i)
  PROVE  \E o \in Object \cup {Gone} : Becomes(i, o)
<1>1. CASE Appear(i)
  BY <1>1, ObjectsTyped DEF Appear
<1>2. CASE Vanish(i)
  BY <1>2 DEF Vanish
<1>3. CASE Change(i)
  <2>1. cloud[i] \in Object
    BY <1>3 DEF Change, TypeOK
  <2>2. \A m \in Modes : [cloud[i] EXCEPT !.mode = m] \in Object
    BY <2>1 DEF Object
  <2>3. \A p \in Parts : Possible(p) \subseteq Values \cup {Null}
    BY DEF Possible
  <2>4. \A p \in Parts : \A v \in Possible(p) :
           [cloud[i] EXCEPT !.attrs[p] = v] \in Object
    BY <2>1, <2>3 DEF Object
  <2> QED BY <1>3, <2>2, <2>4 DEF Change
<1> QED BY <1>1, <1>2, <1>3

LEMMA TypeNext ==
  TypeOK /\ RowOK /\ [Next]_vars => (TypeOK /\ RowOK)'
<1> SUFFICES ASSUME TypeOK, RowOK, [Next]_vars PROVE (TypeOK /\ RowOK)'
  OBVIOUS
<1>1. CASE Start
  <2>1. wanted' \subseteq Ids /\ filter' \subseteq Modes
    BY <1>1, RowTyped DEF Start
  <2>2. seen' \in [Ids -> SUBSET (Object \cup {Gone})]
    BY <1>1 DEF Start, TypeOK
  <2>3. pc' \in {"reading", "failed"}
    BY <1>1 DEF Start
  <2> QED BY <1>1, <2>1, <2>2, <2>3, BoundsAssumption
          DEF Start, Fixed, Nothing, TypeOK, RowOK
<1>2. CASE Answered
  <2>1. PICK S \in Answers : got' = [i \in S |-> Told(i)]
    BY <1>2 DEF Answered
  <2>2. S \subseteq Matching
    BY <2>1 DEF Answers, FirstPage
  <2>3. \A i \in S : i \in wanted /\ Told(i) \in Object
    BY <2>2, ToldTyped DEF Matching, TypeOK
  <2>4. DOMAIN got' \subseteq wanted /\ \A i \in DOMAIN got' : got'[i] \in Object
    BY <2>1, <2>3
  <2>5. at' \in Nat \ {0}
    BY <1>2 DEF Answered, TypeOK
  <2> QED BY <1>2, <2>4, <2>5 DEF Answered, Fixed, Asking, TypeOK, RowOK
<1>3. CASE Unanswered
  <2>1. Cur.parts \subseteq Parts
    <3>1. at \in 1 .. Len(R.asks)
      BY <1>3, RowTyped DEF Unanswered, Requesting, TypeOK
    <3>2. R.asks[at] \in Request
      BY <3>1, RowTyped
    <3> QED BY <3>2 DEF Cur, Request
  <2>2. missed' \subseteq Parts /\ at' \in Nat \ {0}
    BY <1>3, <2>1 DEF Unanswered, TypeOK
  <2>3. faults' \in 0 .. MaxFaults
    BY <1>3, BoundsAssumption DEF Unanswered, Fault, TypeOK
  <2>4. pc' \in {"reading", "failed"}
    BY <1>3 DEF Unanswered, Requesting
  <2> QED BY <1>3, <2>2, <2>3, <2>4 DEF Unanswered, Fixed, Asking, TypeOK, RowOK
<1>4. CASE Panic
  BY <1>4 DEF Panic, Fixed, Asking, Nothing, TypeOK, RowOK
<1>5. CASE Record
  <2>1. DOMAIN record' \subseteq wanted
    BY <1>5 DEF Record, Kept, TypeOK
  <2> QED BY <1>5, <2>1 DEF Record, Fixed, Nothing, TypeOK, RowOK
<1>6. CASE Unconvertible
  BY <1>6 DEF Unconvertible, Fixed, Asking, Nothing, TypeOK, RowOK
<1>7. CASE \E i \in Ids : Appear(i) \/ Vanish(i) \/ Change(i)
  <2>1. PICK i \in Ids, o \in Object \cup {Gone} : Becomes(i, o)
    BY <1>7, ServiceBecomes
  <2>2. RowOK'
    BY <2>1 DEF Becomes, RowOK
  <2> QED BY <2>1, <2>2, BecomesTyped
<1>8. CASE UNCHANGED vars
  BY <1>8 DEF vars, TypeOK, RowOK
<1> QED BY <1>1, <1>2, <1>3, <1>4, <1>5, <1>6, <1>7, <1>8 DEF Next

(* The type invariant holds for every table of data sources.               *)
THEOREM TypeCorrect == Spec => []TypeOK
<1>1. Spec => [](TypeOK /\ RowOK)
  BY TypeInit, TypeNext, PTL DEF Spec
<1> QED BY <1>1, PTL

-----------------------------------------------------------------------------
(* What a Read was told was so at a moment of the Read.                    *)

Was(i, p, v) == v = Null \/ \E o \in There(i) : o.attrs[p] = v

(* A Read under way has seen each object as it is now, and holds nothing   *)
(* else than what it has seen.                                             *)
Heard ==
  pc = "reading" =>
    /\ \A i \in wanted : cloud[i] \in seen[i]
    /\ \A i \in DOMAIN got :
         /\ \E o \in There(i) : got[i].mode = o.mode /\ o.mode \in filter
         /\ \A p \in Parts : Was(i, p, got[i].attrs[p])

(* An object that was there throughout, in a status that is asked for and  *)
(* kept.                                                                   *)
Stays(i) == \A o \in seen[i] : o # Gone /\ o.mode \in filter \cap R.keeps

(* From the first answer on, a Read that asks for all of them holds those  *)
(* objects.                                                                *)
Whole ==
  pc = "reading" /\ at > 1 /\ ~R.page =>
    \A i \in wanted : Stays(i) => i \in DOMAIN got

(* No record has a value that the object did not have during the Read, but *)
(* for what a row says is padded or mistaken: what a Read does not record  *)
(* is recorded as absent.                                                  *)
NothingInvented ==
  pc = "done" =>
    \A i \in DOMAIN record : \A p \in Parts :
      \/ record[i][p] \in {Null, Blank} \/ R[p] \in Inventing
      \/ \E o \in There(i) :
           record[i][p] = IF p = "zone"
                          THEN [region |-> NamedRegion, letter |-> o.attrs[p]]
                          ELSE o.attrs[p]

(* A record has every object that was there throughout, unless only a page *)
(* was asked for, and no object that never had a status asked for.         *)
RecordWhole ==
  pc = "done" =>
    /\ ~R.page => \A i \in wanted : Stays(i) => i \in DOMAIN record
    /\ \A i \in DOMAIN record : \E o \in There(i) : o.mode \in filter \cap R.keeps

Inv == TypeOK /\ RowOK /\ Heard /\ Whole /\ NothingInvented /\ RecordWhole

LEMMA StartKeeps ==
  ASSUME Inv, Start
  PROVE  (Heard /\ Whole /\ NothingInvented /\ RecordWhole)'
<1>1. pc' # "done" /\ at' = 1 /\ DOMAIN got' = {}
  BY DEF Start, Nothing
<1>2. wanted' \subseteq Ids
  BY DEF Start
<1>3. \A i \in wanted' : cloud'[i] \in seen'[i]
  BY <1>2 DEF Start, Fixed
<1> QED BY <1>1, <1>3 DEF Heard, Whole, NothingInvented, RecordWhole

LEMMA AnsweredKeeps ==
  ASSUME Inv, Answered
  PROVE  (Heard /\ Whole /\ NothingInvented /\ RecordWhole)'
<1>1. PICK S \in Answers : got' = [i \in S |-> Told(i)]
  BY DEF Answered
<1>2. S \subseteq Matching /\ (~R.page => S = Matching)
  BY <1>1 DEF Answers, FirstPage
<1>3. pc = "reading" /\ pc' = "reading"
  BY DEF Answered, Requesting
<1>4. UNCHANGED <<R, cloud, seen, wanted, filter>>
  BY DEF Answered, Fixed, Asking
<1>5. \A i \in wanted : cloud[i] \in seen[i]
  BY <1>3 DEF Inv, Heard
<1>6. ASSUME NEW i \in S
      PROVE  /\ \E o \in There(i) : Told(i).mode = o.mode /\ o.mode \in filter
             /\ \A p \in Parts : Was(i, p, Told(i).attrs[p])
  <2>1. i \in wanted /\ cloud[i] \in There(i) /\ cloud[i].mode \in filter
    BY <1>2, <1>5 DEF Matching, There
  <2>2. ASSUME NEW p \in Parts PROVE Was(i, p, Told(i).attrs[p])
    <3>1. CASE p \in Cur.parts
      BY <3>1, <2>1 DEF Told, Was
    <3>2. CASE p \notin Cur.parts /\ i \in DOMAIN got
      BY <3>2, <1>3 DEF Told, Inv, Heard
    <3>3. CASE p \notin Cur.parts /\ i \notin DOMAIN got
      BY <3>3 DEF Told, Was
    <3> QED BY <3>1, <3>2, <3>3
  <2>3. Told(i).mode = cloud[i].mode
    BY DEF Told
  <2> QED BY <2>1, <2>2, <2>3
<1>7. Heard'
  BY <1>1, <1>4, <1>5, <1>6 DEF Heard, Was, There
<1>8. Whole'
  <2>1. ASSUME ~R.page, NEW i \in wanted, Stays(i) PROVE i \in S
    BY <2>1, <1>2, <1>5 DEF Stays, Matching
  <2> QED BY <1>1, <1>4, <2>1 DEF Whole, Stays
<1> QED BY <1>3, <1>7, <1>8 DEF NothingInvented, RecordWhole

LEMMA UnansweredKeeps ==
  ASSUME Inv, Unanswered
  PROVE  (Heard /\ Whole /\ NothingInvented /\ RecordWhole)'
<1>1. UNCHANGED <<R, cloud, seen, wanted, filter, got>>
  BY DEF Unanswered, Fixed, Asking
<1>2. pc = "reading" /\ pc' # "done"
  BY DEF Unanswered, Requesting
<1>3. Heard'
  BY <1>1, <1>2 DEF Inv, Heard, Was, There
<1>4. Whole'
  <2>1. CASE pc' = "failed"
    BY <2>1 DEF Whole
  <2>2. CASE pc' = pc /\ Cur.error = "absent"
    <3>1. at # 1
      BY <2>2, RowTyped DEF Cur, Inv
    <3>2. at > 1
      BY <3>1 DEF Inv, TypeOK
    <3> QED BY <1>1, <1>2, <3>2 DEF Inv, Whole, Stays
  <2> QED BY <2>1, <2>2 DEF Unanswered
<1> QED BY <1>2, <1>3, <1>4 DEF NothingInvented, RecordWhole

LEMMA RecordKeeps ==
  ASSUME Inv, Record
  PROVE  (Heard /\ Whole /\ NothingInvented /\ RecordWhole)'
<1>1. UNCHANGED <<R, provider, seen, wanted, filter>>
  BY DEF Record, Fixed
<1>2. pc = "reading" /\ pc' = "done" /\ at > 1
  <2>1. Len(R.asks) \in Nat /\ Len(R.asks) >= 1
    BY RowTyped DEF Inv
  <2> QED BY <2>1 DEF Record, Converting, Inv, TypeOK
<1>3. record' = [i \in Kept |-> [p \in Parts |-> Value(p, got[i].attrs[p])]]
  BY DEF Record
<1>4. ASSUME NEW i \in Kept
      PROVE  \E o \in There(i) : got[i].mode = o.mode /\ o.mode \in filter
  BY <1>2 DEF Kept, Inv, Heard
<1>5. NothingInvented'
  <2>1. ASSUME NEW i \in Kept, NEW p \in Parts
        PROVE  LET v == Value(p, got[i].attrs[p])
               IN  \/ v \in {Null, Blank} \/ R[p] \in Inventing
                   \/ \E o \in There(i) :
                        v = IF p = "zone"
                            THEN [region |-> NamedRegion, letter |-> o.attrs[p]]
                            ELSE o.attrs[p]
    <3>1. Was(i, p, got[i].attrs[p])
      BY <1>2 DEF Kept, Inv, Heard
    <3> QED BY <3>1 DEF Was, Value, ConvertXZoneToAvailabilityZone
  <2>2. NamedRegion' = NamedRegion
    BY <1>1 DEF NamedRegion, Endpoint
  <2>3. \A i \in Ids : There(i)' = There(i)
    BY <1>1 DEF There
  <2>4. ASSUME NEW i \in DOMAIN record', NEW p \in Parts
        PROVE  LET v == record'[i][p]
               IN  \/ v \in {Null, Blank} \/ R[p] \in Inventing
                   \/ \E o \in There(i) :
                        v = IF p = "zone"
                            THEN [region |-> NamedRegion, letter |-> o.attrs[p]]
                            ELSE o.attrs[p]
    <3>1. i \in Kept /\ record'[i][p] = Value(p, got[i].attrs[p])
      BY <1>3, <2>4
    <3> QED BY <3>1, <2>1
  <2>5. DOMAIN record' \subseteq Ids
    BY <1>3 DEF Kept, Inv, TypeOK
  <2> QED BY <1>1, <2>2, <2>3, <2>4, <2>5 DEF NothingInvented
<1>6. RecordWhole'
  <2>1. ASSUME ~R.page, NEW i \in wanted, Stays(i) PROVE i \in Kept
    <3>1. i \in DOMAIN got
      BY <1>2, <2>1 DEF Inv, Whole
    <3>2. got[i].mode \in R.keeps
      BY <1>2, <2>1, <3>1 DEF Inv, Heard, Stays, There
    <3> QED BY <3>1, <3>2 DEF Kept
  <2>2. \A i \in Kept : \E o \in There(i) : o.mode \in filter \cap R.keeps
    BY <1>4 DEF Kept
  <2> QED BY <1>1, <1>3, <2>1, <2>2 DEF RecordWhole, Stays, There
<1> QED BY <1>2, <1>5, <1>6 DEF Heard, Whole

LEMMA ServiceKeeps ==
  ASSUME Inv, NEW i \in Ids, NEW o \in Object \cup {Gone}, Becomes(i, o)
  PROVE  (Heard /\ Whole /\ NothingInvented /\ RecordWhole)'
<1>1. UNCHANGED <<R, wanted, filter, got, at, pc>> /\ pc = "reading"
  BY DEF Becomes
<1>2. \A j \in Ids : seen[j] \subseteq seen'[j]
  BY DEF Becomes, Inv, TypeOK
<1>3. \A j \in wanted : cloud'[j] \in seen'[j]
  BY <1>1 DEF Becomes, Inv, TypeOK, Heard
<1>4. Heard'
  <2>1. \A j \in DOMAIN got : j \in Ids
    BY DEF Inv, TypeOK
  <2>2. \A j \in DOMAIN got : There(j) \subseteq There(j)'
    BY <1>2, <2>1 DEF There
  <2> QED BY <1>1, <1>3, <2>2 DEF Inv, Heard, Was
<1>5. Whole'
  <2>1. \A j \in wanted : Stays(j)' => Stays(j)
    BY <1>1, <1>2 DEF Stays, Inv, TypeOK
  <2> QED BY <1>1, <2>1 DEF Inv, Whole
<1> QED BY <1>1, <1>4, <1>5 DEF NothingInvented, RecordWhole

LEMMA InvNext ==
  Inv /\ [Next]_vars => Inv'
<1> SUFFICES ASSUME Inv, [Next]_vars PROVE Inv'
  OBVIOUS
<1>1. (TypeOK /\ RowOK)'
  BY TypeNext DEF Inv
<1>2. (Heard /\ Whole /\ NothingInvented /\ RecordWhole)'
  <2>1. CASE Start
    BY <2>1, StartKeeps
  <2>2. CASE Answered
    BY <2>2, AnsweredKeeps
  <2>3. CASE Unanswered
    BY <2>3, UnansweredKeeps
  <2>4. CASE Panic \/ Unconvertible
    <3>1. pc' \in {"panic", "failed"}
      BY <2>4 DEF Panic, Unconvertible
    <3>2. pc' # "reading" /\ pc' # "done"
      BY <3>1
    <3> QED BY <3>2 DEF Heard, Whole, NothingInvented, RecordWhole
  <2>5. CASE Record
    BY <2>5, RecordKeeps
  <2>6. CASE \E i \in Ids : Appear(i) \/ Vanish(i) \/ Change(i)
    <3>1. PICK i \in Ids, o \in Object \cup {Gone} : Becomes(i, o)
      BY <2>6, ServiceBecomes DEF Inv
    <3> QED BY <3>1, ServiceKeeps
  <2>7. CASE UNCHANGED vars
    <3>1. UNCHANGED <<R, provider, cloud, pc, at, wanted, filter, got, record,
                      seen>>
      BY <2>7 DEF vars
    <3>2. Heard'
      BY <3>1 DEF Inv, Heard, Was, There
    <3>3. Whole'
      BY <3>1 DEF Inv, Whole, Stays
    <3>4. NamedRegion' = NamedRegion
      BY <3>1 DEF NamedRegion, Endpoint
    <3>5. NothingInvented'
      <4> SUFFICES ASSUME pc = "done", NEW i \in DOMAIN record, NEW p \in Parts
                   PROVE  \/ record[i][p] \in {Null, Blank} \/ R[p] \in Inventing
                          \/ \E o \in There(i) :
                               record[i][p] =
                                 IF p = "zone"
                                 THEN [region |-> NamedRegion, letter |-> o.attrs[p]]
                                 ELSE o.attrs[p]
        <5>1. \A i \in Ids : There(i)' = There(i)
          BY <3>1 DEF There
        <5>2. DOMAIN record \subseteq Ids
          BY DEF Inv, TypeOK
        <5> QED BY <3>1, <3>4, <5>1, <5>2 DEF NothingInvented
      <4> QED BY DEF Inv, NothingInvented
    <3>6. RecordWhole'
      BY <3>1 DEF Inv, RecordWhole, Stays, There
    <3> QED BY <3>2, <3>3, <3>5, <3>6
  <2> QED BY <2>1, <2>2, <2>3, <2>4, <2>5, <2>6, <2>7 DEF Next
<1> QED BY <1>1, <1>2 DEF Inv

LEMMA InvInit ==
  Init => Inv
<1> SUFFICES ASSUME Init PROVE Inv
  OBVIOUS
<1>1. TypeOK /\ RowOK
  BY TypeInit
<1>2. pc = "idle"
  BY DEF Init
<1> QED BY <1>1, <1>2 DEF Inv, Heard, Whole, NothingInvented, RecordWhole

(* Whatever the table of data sources is, and whatever the service does    *)
(* while one is read: no Read records a value that was not so.             *)
THEOREM RecordsWhatWasSo == Spec => []NothingInvented
<1>1. Inv => NothingInvented
  BY DEF Inv
<1> QED BY <1>1, InvInit, InvNext, PTL DEF Spec

(* And no Read that asks for everything leaves out what was there all the  *)
(* time, or records what was never in a status that was asked for.         *)
THEOREM RecordsWhatStays == Spec => []RecordWhole
<1>1. Inv => RecordWhole
  BY DEF Inv
<1> QED BY <1>1, InvInit, InvNext, PTL DEF Spec

-----------------------------------------------------------------------------
(* The rows.                                                               *)

(* One request for all parts, or those of a bucket; what Read loses and    *)
(* where it may crash; whose zones are recorded.                           *)
Asks(k, row) ==
  IF k = "bucket" THEN row.asks = Bucket.asks /\ row.one
  ELSE row.asks = <<Ask(Parts, "stop")>>
Lists(k, row) ==
  /\ row.page => k \in FirstPageOnly
  /\ IF k \in {"vmImages", "machineTypes"}
     THEN row.keeps = {"active"} /\ row.filters = {Modes}
     ELSE row.keeps = Modes
Reads(k, row) ==
  \A p \in Parts :
    /\ row[p] \in Dereferencing => k \in Unguarded
    /\ row[p] \in {"lost", "inverted"} \cup Inventing => k \in Loses(p)
Zones(k, row) ==
  /\ row.zone \in {"none", "plain", "null", "must"}
  /\ row.zoned \in {"none", "provider", "service", "letter"}
  /\ row.zoned = "none" => row.zone = "none"
  /\ row.zoned = "letter" => k = "natGateway"
  /\ row.storage => k = "bucket" \/ row.zoned = "none"
RowFacts(k, row) ==
  Asks(k, row) /\ Lists(k, row) /\ Reads(k, row) /\ Zones(k, row)

LEMMA RegistryRows ==
  /\ RowFacts("registryCredentials", RegistryCredentials)
  /\ RowFacts("images", Images)
  /\ RowFacts("proxyCache", ProxyCache)
  /\ RowFacts("proxyCaches", ProxyCaches)
  /\ RowFacts("registries", Registries)
  /\ RowFacts("repositories", Repositories)
BY DEF RowFacts, Asks, Lists, Reads, Zones, Parts, Loses, Unguarded,
       Dereferencing, Inventing, FirstPageOnly, One, All, Filtered,
       Page, Zoned, Ask, RegistryCredentials, Images, ProxyCache,
       ProxyCaches, Registries, Repositories

LEMMA DatabaseRows ==
  /\ RowFacts("dbCluster", DbCluster)
  /\ RowFacts("dbClusters", DbClusters)
  /\ RowFacts("dbEngines", DbEngines)
  /\ RowFacts("dbInstanceTypes", DbInstanceTypes)
  /\ RowFacts("dbInstance", DbInstance)
  /\ RowFacts("dbInstances", DbInstances)
  /\ RowFacts("dbSnapshot", DbSnapshot)
  /\ RowFacts("dbSnapshots", DbSnapshots)
  /\ RowFacts("parameterGroup", ParameterGroup)
  /\ RowFacts("parameterGroups", ParameterGroups)
  /\ RowFacts("parameters", Parameters)
  /\ RowFacts("dbReplica", DbReplica)
  /\ RowFacts("dbReplicas", DbReplicas)
BY DEF RowFacts, Asks, Lists, Reads, Zones, Parts, Loses, Unguarded,
       Dereferencing, Inventing, FirstPageOnly, One, All, Filtered,
       Page, Zoned, Ask, DbCluster, DbClusters, DbEngines,
       DbInstanceTypes, DbInstance, DbInstances, DbSnapshot,
       DbSnapshots, ParameterGroup, ParameterGroups, Parameters,
       DbReplica, DbReplicas

LEMMA StorageRows ==
  /\ RowFacts("volume", Volume)
  /\ RowFacts("volumes", Volumes)
  /\ RowFacts("volumeTypes", VolumeTypes)
  /\ RowFacts("storageSnapshot", StorageSnapshot)
  /\ RowFacts("storageSnapshots", StorageSnapshots)
  /\ RowFacts("schedule", Schedule)
  /\ RowFacts("schedules", Schedules)
BY DEF RowFacts, Asks, Lists, Reads, Zones, Parts, Loses, Unguarded,
       Dereferencing, Inventing, FirstPageOnly, One, All, Filtered,
       Page, Zoned, Ask, Volume, Volumes, VolumeTypes, StorageSnapshot,
       StorageSnapshots, Schedule, Schedules

LEMMA KubernetesRows ==
  /\ RowFacts("kubernetesCluster", KubernetesCluster)
  /\ RowFacts("kubernetesClusters", KubernetesClusters)
  /\ RowFacts("flavors", Flavors)
  /\ RowFacts("kubeConfig", KubeConfig)
  /\ RowFacts("nodes", Nodes)
  /\ RowFacts("nodePool", NodePool)
  /\ RowFacts("versions", Versions)
BY DEF RowFacts, Asks, Lists, Reads, Zones, Parts, Loses, Unguarded,
       Dereferencing, Inventing, FirstPageOnly, One, All, Filtered,
       Page, Zoned, Ask, KubernetesCluster, KubernetesClusters, Flavors,
       KubeConfig, Nodes, NodePool, Versions

LEMMA BalancerRows ==
  /\ RowFacts("balancer", Balancer)
  /\ RowFacts("balancers", Balancers)
  /\ RowFacts("backend", Backend)
  /\ RowFacts("backends", Backends)
  /\ RowFacts("certificate", Certificate)
  /\ RowFacts("certificates", Certificates)
  /\ RowFacts("healthCheck", HealthCheck)
  /\ RowFacts("healthChecks", HealthChecks)
  /\ RowFacts("listener", Listener)
  /\ RowFacts("listeners", Listeners)
BY DEF RowFacts, Asks, Lists, Reads, Zones, Parts, Loses, Unguarded,
       Dereferencing, Inventing, FirstPageOnly, One, All, Filtered,
       Page, Zoned, Ask, Balancer, Balancers, Backend, Backends,
       Certificate, Certificates, HealthCheck, HealthChecks, Listener,
       Listeners

LEMMA NetworkRows ==
  /\ RowFacts("natGateway", NatGateway)
  /\ RowFacts("publicIp", PublicIp)
  /\ RowFacts("publicIps", PublicIps)
  /\ RowFacts("securityGroup", SecurityGroup)
  /\ RowFacts("securityGroups", SecurityGroups)
  /\ RowFacts("subnetPool", SubnetPool)
  /\ RowFacts("subnetPools", SubnetPools)
  /\ RowFacts("vpc", Vpc)
  /\ RowFacts("vpcs", Vpcs)
  /\ RowFacts("interface", Interface)
  /\ RowFacts("interfaces", Interfaces)
  /\ RowFacts("route", Route)
  /\ RowFacts("routes", Routes)
  /\ RowFacts("subnet", Subnet)
BY DEF RowFacts, Asks, Lists, Reads, Zones, Parts, Loses, Unguarded,
       Dereferencing, Inventing, FirstPageOnly, One, All, Filtered,
       Page, Zoned, Ask, NatGateway, PublicIp, PublicIps, SecurityGroup,
       SecurityGroups, SubnetPool, SubnetPools, Vpc, Vpcs, Interface,
       Interfaces, Route, Routes, Subnet

LEMMA OtherRows ==
  /\ RowFacts("bucket", Bucket)
  /\ RowFacts("buckets", Buckets)
  /\ RowFacts("availabilityZones", AvailabilityZones)
  /\ RowFacts("sshKeys", SshKeys)
  /\ RowFacts("vmImages", VmImages)
  /\ RowFacts("vmInstance", VmInstance)
  /\ RowFacts("vmInstances", VmInstances)
  /\ RowFacts("machineTypes", MachineTypes)
  /\ RowFacts("vmSnapshots", VmSnapshots)
BY DEF RowFacts, Asks, Lists, Reads, Zones, Parts, Loses, Unguarded,
       Dereferencing, Inventing, FirstPageOnly, One, All, Filtered,
       Page, Zoned, Ask, Bucket, Buckets, AvailabilityZones, SshKeys,
       VmImages, VmInstance, VmInstances, MachineTypes, VmSnapshots

LEMMA TableRows ==
  \A k \in AllKinds : RowFacts(k, Table[k])
BY RegistryRows, DatabaseRows, StorageRows, KubernetesRows, BalancerRows,
   NetworkRows, OtherRows DEF AllKinds, Table

(* The row of the Read under way.                                          *)
LEMMA RowKnown ==
  ASSUME RowOK
  PROVE  kind \in AllKinds /\ RowFacts(kind, R)
BY TableRows, TableAssumption DEF RowOK

-----------------------------------------------------------------------------
(* The Read under way, for the table above.                                *)

(* It asked one of the endpoints, for statuses that it may ask for.        *)
Asked ==
  pc \in {"reading", "done"} => Endpoint # Refused /\ filter \in R.filters

(* What has no zone is never answered with one.                            *)
Zoneless ==
  R.zone = "none" =>
    /\ \A i \in Ids : cloud[i] # Gone => cloud[i].attrs["zone"] = Null
    /\ \A i \in DOMAIN got : got[i].attrs["zone"] = Null

(* What one request is answered with is an object as it was.               *)
OneAnswer ==
  pc = "reading" /\ kind # "bucket" =>
    \A i \in DOMAIN got : got[i] \in There(i)

(* Each request for a bucket asks for one part; the parts asked for so far *)
(* are as the bucket had them or could not be read, the others are open.   *)
Turn == [zone |-> 1, owner |-> 2, extra |-> 3, note |-> 4, items |-> 5]
PartsAnswered ==
  pc = "reading" /\ kind = "bucket" =>
    /\ \E w \in Ids : wanted = {w}
    /\ at > 1 => DOMAIN got = wanted
    /\ \A i \in DOMAIN got : \A p \in Parts :
         LET v == got[i].attrs[p]
         IN  IF Turn[p] < at
             THEN (p \in missed /\ v = Null) \/ \E o \in There(i) : o.attrs[p] = v
             ELSE v = Null

(* A zone in a record has the region that the row names.                   *)
ZonesNamed ==
  pc = "done" =>
    \A i \in DOMAIN record :
      \/ record[i]["zone"] = Null
      \/ /\ R.zoned # "none"
         /\ \E v \in Values :
              record[i]["zone"] = [region |-> NamedRegion, letter |-> v]

Answering ==
  /\ Asked /\ Zoneless /\ OneAnswer /\ PartsAnswered
  /\ ZonesNamed /\ RecordIsOneMoment /\ AbsenceIsRead
TableInv == Inv /\ Answering

LEMMA TableInit ==
  Init => TableInv
<1> SUFFICES ASSUME Init PROVE Answering
  BY InvInit DEF TableInv, Answering
<1>1. pc = "idle" /\ DOMAIN got = {}
  BY DEF Init, Nothing
<1>2. \A i \in Ids : cloud[i] # Gone => \A p \in Parts : cloud[i].attrs[p] \in Possible(p)
  BY DEF Init, Objects
<1>3. Zoneless
  BY <1>1, <1>2 DEF Zoneless, Possible, Parts
<1> QED BY <1>1, <1>3
        DEF Answering, Asked, OneAnswer, PartsAnswered, ZonesNamed,
            RecordIsOneMoment, AbsenceIsRead

LEMMA StartAsks ==
  ASSUME TableInv, Start
  PROVE  Answering'
<1>1. pc' = IF Endpoint = Refused THEN "failed" ELSE "reading"
  BY DEF Start
<1>2. UNCHANGED <<kind, R, provider, cloud>> /\ filter' \in R.filters
  BY DEF Start, Fixed
<1>3. DOMAIN got' = {} /\ at' = 1
  BY DEF Start, Nothing
<1>4. Endpoint' = Endpoint
  BY <1>2 DEF Endpoint
<1>5. Asked'
  BY <1>1, <1>2, <1>4 DEF Asked
<1>6. Zoneless'
  BY <1>2, <1>3 DEF TableInv, Answering, Zoneless
<1>7. PartsAnswered'
  <2>1. kind = "bucket" => R.one
    BY RowKnown DEF TableInv, Inv, RowFacts, Asks
  <2>2. kind = "bucket" => \E w \in Ids : wanted' = {w}
    BY <2>1 DEF Start
  <2> QED BY <1>2, <1>3, <2>2 DEF PartsAnswered
<1> QED BY <1>1, <1>3, <1>5, <1>6, <1>7
        DEF Answering, OneAnswer, ZonesNamed, RecordIsOneMoment, AbsenceIsRead

(* The requests of every data source but the bucket, and the bucket's.     *)
LEMMA OneRequest ==
  ASSUME Inv, kind # "bucket", Requesting
  PROVE  Cur.parts = Parts /\ Cur.error = "stop"
<1>1. R.asks = <<Ask(Parts, "stop")>>
  BY RowKnown DEF Inv, RowFacts, Asks
<1>2. at = 1
  BY <1>1 DEF Inv, TypeOK, Requesting
<1> QED BY <1>1, <1>2 DEF Cur, Ask

LEMMA BucketRequests ==
  ASSUME Inv, kind = "bucket"
  PROVE  /\ R.one /\ Len(R.asks) = 5
         /\ Requesting => \A p \in Parts : p \in Cur.parts <=> Turn[p] = at
         /\ Requesting /\ at = 1 => Cur.error = "stop"
<1>1. R.one /\ R.asks = Bucket.asks
  BY RowKnown DEF Inv, RowFacts, Asks
<1>2. R.asks = <<Ask({"zone"}, "stop"), Ask({"owner"}, "stop"),
                 Ask({"extra"}, "absent"), Ask({"note"}, "absent"),
                 Ask({"items"}, "absent")>>
  BY <1>1 DEF Bucket, Zoned, One
<1>3. Len(R.asks) = 5
  BY <1>2
<1>4. Requesting => at \in 1 .. 5
  BY <1>3 DEF Requesting, Inv, TypeOK
<1>5. Requesting => \A p \in Parts : p \in Cur.parts <=> Turn[p] = at
  BY <1>2, <1>4 DEF Cur, Ask, Turn, Parts
<1> QED BY <1>1, <1>2, <1>3, <1>5 DEF Cur, Ask

LEMMA ToldWhole ==
  ASSUME Inv, NEW i \in Ids, cloud[i] # Gone, Cur.parts = Parts
  PROVE  Told(i) = cloud[i]
<1>1. cloud[i] \in Object
  BY DEF Inv, TypeOK
<1> QED BY <1>1 DEF Told, Object

LEMMA AnswerGives ==
  ASSUME TableInv, Answered
  PROVE  Answering'
<1>1. PICK S \in Answers : got' = [i \in S |-> Told(i)]
  BY DEF Answered
<1>2. S \subseteq Matching
  BY <1>1 DEF Answers, FirstPage
<1>3. pc = "reading" /\ pc' = pc /\ at' = at + 1 /\ at \in Nat \ {0} /\ Requesting
  BY DEF Answered, Requesting, TableInv, Inv, TypeOK
<1>4. UNCHANGED <<kind, R, provider, cloud, wanted, filter, seen, missed>>
  BY DEF Answered, Fixed, Asking
<1>5. \A i \in S : i \in wanted /\ i \in Ids /\ cloud[i] \in There(i) /\ cloud[i] # Gone
  BY <1>2, <1>3 DEF TableInv, Inv, TypeOK, Heard, Matching, There
<1>6. Asked'
  BY <1>3, <1>4 DEF TableInv, Answering, Asked, Endpoint
<1>7. Zoneless'
  <2>1. R.zone = "none" => \A i \in S : Told(i).attrs["zone"] = Null
    BY <1>5 DEF TableInv, Answering, Zoneless, Told, Parts
  <2> QED BY <1>1, <1>4, <2>1 DEF TableInv, Answering, Zoneless
<1>8. OneAnswer'
  <2>1. kind # "bucket" => \A i \in S : Told(i) \in There(i)
    BY <1>3, <1>5, OneRequest, ToldWhole DEF TableInv
  <2> QED BY <1>1, <1>4, <2>1 DEF OneAnswer, There
<1>9. PartsAnswered'
  <2> SUFFICES ASSUME kind = "bucket" PROVE PartsAnswered'
    BY <1>4 DEF PartsAnswered
  <2>1. PICK w \in Ids : wanted = {w}
    BY <1>3 DEF TableInv, Answering, PartsAnswered
  <2>2. R.one /\ ~R.page
    <3>1. R.page => kind \in FirstPageOnly
      BY RowKnown DEF TableInv, Inv, RowFacts, Lists
    <3> QED BY <3>1, BucketRequests DEF TableInv, FirstPageOnly
  <2>3. S = wanted
    <3>1. S = Matching /\ Matching # {}
      BY <1>1, <2>2 DEF Answers, Answered
    <3> QED BY <2>1, <3>1 DEF Matching
  <2>4. ASSUME NEW i \in S, NEW p \in Parts
        PROVE  LET v == Told(i).attrs[p]
               IN  IF Turn[p] < at + 1
                   THEN (p \in missed /\ v = Null)
                        \/ \E o \in There(i) : o.attrs[p] = v
                   ELSE v = Null
    <3>1. p \in Cur.parts <=> Turn[p] = at
      BY <1>3, BucketRequests DEF TableInv
    <3>2. Turn[p] \in Nat
      BY DEF Turn, Parts
    <3>3. CASE Turn[p] = at
      BY <1>3, <1>5, <3>1, <3>3 DEF Told
    <3>4. CASE Turn[p] # at /\ i \in DOMAIN got
      <4>1. Told(i).attrs[p] = got[i].attrs[p]
        BY <3>1, <3>4 DEF Told
      <4> QED BY <1>3, <3>2, <3>4, <4>1 DEF TableInv, Answering, PartsAnswered
    <3>5. CASE Turn[p] # at /\ i \notin DOMAIN got
      <4>1. Told(i).attrs[p] = Null
        BY <3>1, <3>5 DEF Told
      <4>2. at = 1
        BY <1>3, <2>3, <3>5 DEF TableInv, Answering, PartsAnswered
      <4>3. Turn[p] >= 1
        BY DEF Turn, Parts
      <4> QED BY <3>2, <3>5, <4>1, <4>2, <4>3
    <3> QED BY <3>3, <3>4, <3>5
  <2> QED BY <1>1, <1>3, <1>4, <2>1, <2>3, <2>4 DEF PartsAnswered, There
<1> QED BY <1>3, <1>6, <1>7, <1>8, <1>9
        DEF Answering, ZonesNamed, RecordIsOneMoment, AbsenceIsRead

LEMMA FaultGives ==
  ASSUME TableInv, Unanswered
  PROVE  Answering'
<1>1. UNCHANGED <<kind, R, provider, cloud, wanted, filter, seen, got>>
  BY DEF Unanswered, Fixed, Asking
<1>2. pc = "reading" /\ Requesting /\ at \in Nat \ {0}
  BY DEF Unanswered, Requesting, TableInv, Inv, TypeOK
<1>3. \/ pc' = "failed"
      \/ /\ pc' = pc /\ at' = at + 1 /\ Cur.error = "absent"
         /\ missed' = missed \cup Cur.parts
  BY DEF Unanswered
<1>4. Asked' /\ Zoneless' /\ OneAnswer'
  BY <1>1, <1>2, <1>3
     DEF TableInv, Answering, Asked, Endpoint, Zoneless, OneAnswer, There
<1>5. PartsAnswered'
  <2> SUFFICES ASSUME kind = "bucket", pc' = pc PROVE PartsAnswered'
    BY <1>1, <1>2, <1>3 DEF PartsAnswered
  <2>1. at' = at + 1 /\ missed' = missed \cup Cur.parts /\ at > 1
    BY <1>2, <1>3, BucketRequests DEF TableInv
  <2>2. \A p \in Parts : (p \in Cur.parts <=> Turn[p] = at) /\ Turn[p] \in Nat
    BY <1>2, BucketRequests DEF TableInv, Turn, Parts
  <2>3. ASSUME NEW i \in DOMAIN got, NEW p \in Parts
        PROVE  LET v == got[i].attrs[p]
               IN  IF Turn[p] < at + 1
                   THEN (p \in missed' /\ v = Null)
                        \/ \E o \in There(i) : o.attrs[p] = v
                   ELSE v = Null
    BY <1>2, <2>1, <2>2 DEF TableInv, Answering, PartsAnswered
  <2> QED BY <1>1, <1>2, <2>1, <2>3 DEF TableInv, Answering, PartsAnswered, There
<1> QED BY <1>2, <1>3, <1>4, <1>5
        DEF Answering, ZonesNamed, RecordIsOneMoment, AbsenceIsRead

LEMMA PanicGives ==
  ASSUME TableInv, Panic \/ Unconvertible
  PROVE  Answering'
<1>1. UNCHANGED <<kind, R, provider, cloud>> /\ DOMAIN got' = {}
  BY DEF Panic, Unconvertible, Fixed, Nothing
<1>2. pc' = "failed" \/ (pc' = "panic" /\ \E i \in Kept : Crashes(i))
  BY DEF Panic, Unconvertible
<1>3. (\E i \in Kept : Crashes(i)) => kind \in Unguarded
  BY RowKnown DEF TableInv, Inv, Crashes, RowFacts, Reads
<1> QED BY <1>1, <1>2, <1>3
        DEF TableInv, Answering, Asked, Zoneless, OneAnswer, PartsAnswered,
            ZonesNamed, RecordIsOneMoment, AbsenceIsRead

LEMMA ValueTells ==
  ASSUME NEW p \in Parts, NEW v, R[p] \notin {"lost", "inverted"} \cup Inventing
  PROVE  Tells(p, Value(p, v), v)
BY DEF Tells, Value, ConvertXZoneToAvailabilityZone

LEMMA RecordGives ==
  ASSUME TableInv, Record
  PROVE  Answering'
<1>1. pc = "reading" /\ pc' = "done" /\ at > Len(R.asks) /\ DOMAIN got' = {}
  BY DEF Record, Converting, Nothing
<1>2. UNCHANGED <<kind, R, provider, cloud, wanted, filter, seen, missed>>
  BY DEF Record, Fixed
<1>3. record' = [i \in Kept |-> [p \in Parts |-> Value(p, got[i].attrs[p])]]
  BY DEF Record
<1>4. NamedRegion' = NamedRegion /\ Endpoint' = Endpoint
  BY <1>2 DEF NamedRegion, Endpoint
<1>5. \A i \in Ids : There(i)' = There(i)
  BY <1>2 DEF There
<1>6. Kept \subseteq DOMAIN got /\ DOMAIN got \subseteq Ids
  BY DEF Kept, TableInv, Inv, TypeOK
<1>7. Asked' /\ Zoneless'
  BY <1>1, <1>2, <1>4 DEF TableInv, Answering, Asked, Zoneless
<1>8. ZonesNamed'
  <2>1. ASSUME NEW i \in Kept
        PROVE  LET z == Value("zone", got[i].attrs["zone"])
               IN  \/ z = Null
                   \/ /\ R.zoned # "none"
                      /\ \E v \in Values : z = [region |-> NamedRegion, letter |-> v]
    <3>1. R.zone \in {"none", "plain", "null", "must"} /\ (R.zoned = "none" => R.zone = "none")
      BY RowKnown DEF TableInv, Inv, RowFacts, Zones
    <3>2. got[i].attrs["zone"] \in Values \cup {Null}
      BY <1>6 DEF TableInv, Inv, TypeOK, Object, Parts
    <3>3. R.zone = "none" => got[i].attrs["zone"] = Null
      BY <1>6 DEF TableInv, Answering, Zoneless
    <3> QED BY <3>1, <3>2, <3>3
            DEF Value, Inventing, ConvertXZoneToAvailabilityZone
  <2>2. \A i \in Kept : record'[i]["zone"] = Value("zone", got[i].attrs["zone"])
    BY <1>3 DEF Parts
  <2> QED BY <1>2, <1>3, <1>4, <2>1, <2>2 DEF ZonesNamed
<1>9. RecordIsOneMoment'
  <2>1. \A p \in Parts : \A v : Tells(p, Value(p, v), v) \/ kind \in Loses(p)
    BY RowKnown, ValueTells DEF TableInv, Inv, RowFacts, Reads
  <2>2. \A p \in Parts : \A x, v : Tells(p, x, v)' <=> Tells(p, x, v)
    BY <1>4 DEF Tells
  <2>3. CASE kind # "bucket"
    <3>1. ASSUME NEW i \in Kept
          PROVE  \E o \in There(i) :
                   /\ o.mode \in filter
                   /\ \A p \in Parts :
                        kind \in Loses(p) \/ Tells(p, record'[i][p], o.attrs[p])
      <4>1. got[i] \in There(i) /\ got[i].mode \in filter
        BY <1>1, <1>6, <2>3 DEF TableInv, Inv, Heard, Answering, OneAnswer
      <4>2. \A p \in Parts : record'[i][p] = Value(p, got[i].attrs[p])
        BY <1>3
      <4> QED BY <2>1, <4>1, <4>2
    <3> QED BY <1>2, <1>3, <1>5, <1>6, <2>2, <2>3, <3>1 DEF RecordIsOneMoment
  <2>4. CASE kind = "bucket"
    <3>1. at > 5 /\ at \in Nat
      BY <1>1, <2>4, BucketRequests DEF TableInv, Inv, TypeOK
    <3>2. \A p \in Parts : Turn[p] < at /\ kind \notin Loses(p)
      BY <2>4, <3>1 DEF Turn, Parts, Loses
    <3>3. ASSUME NEW i \in Kept, NEW p \in Parts
          PROVE  \/ \E o \in There(i) : Tells(p, record'[i][p], o.attrs[p])
                 \/ p \in missed /\ record'[i][p] \in {Null, Blank}
      <4>1. record'[i][p] = Value(p, got[i].attrs[p])
        BY <1>3
      <4>2. \/ p \in missed /\ got[i].attrs[p] = Null
            \/ \E o \in There(i) : o.attrs[p] = got[i].attrs[p]
        BY <1>1, <1>6, <2>4, <3>2 DEF TableInv, Answering, PartsAnswered
      <4>3. Value(p, Null) \in {Null, Blank}
        BY DEF Value
      <4>4. Tells(p, Value(p, got[i].attrs[p]), got[i].attrs[p])
        BY <2>1, <3>2
      <4> QED BY <4>1, <4>2, <4>3, <4>4
    <3> QED BY <1>2, <1>3, <1>5, <1>6, <2>2, <2>4, <3>3 DEF RecordIsOneMoment
  <2> QED BY <2>3, <2>4
<1> QED BY <1>1, <1>7, <1>8, <1>9
        DEF Answering, OneAnswer, PartsAnswered, AbsenceIsRead

(* The service gives no zone to what has none.                             *)
LEMMA ServiceKnowsZones ==
  ASSUME TableInv, NEW i \in Ids, Appear(i) \/ Vanish(i) \/ Change(i)
  PROVE  \E o \in Object \cup {Gone} :
           /\ Becomes(i, o)
           /\ R.zone = "none" /\ o # Gone => o.attrs["zone"] = Null
<1>1. Possible("zone") = {Null} \/ R.zone # "none"
  BY DEF Possible
<1>2. "zone" \in Parts /\ Gone \notin Object
  BY ValuesAssumption DEF Parts
<1>3. CASE Appear(i)
  <2>1. PICK o \in Objects : Becomes(i, o)
    BY <1>3 DEF Appear
  <2>2. o.attrs["zone"] \in Possible("zone")
    BY <1>2 DEF Objects
  <2> QED BY <1>1, <2>1, <2>2, ObjectsTyped
<1>4. CASE Vanish(i)
  BY <1>4 DEF Vanish
<1>5. CASE Change(i)
  <2>1. cloud[i] # Gone /\ cloud[i] \in Object
    BY <1>5 DEF Change, TableInv, Inv, TypeOK
  <2>2. R.zone = "none" => cloud[i].attrs["zone"] = Null
    BY <2>1 DEF TableInv, Answering, Zoneless
  <2>3. ASSUME NEW m \in Modes, Becomes(i, [cloud[i] EXCEPT !.mode = m])
        PROVE  \E o \in Object : /\ Becomes(i, o)
                                 /\ R.zone = "none" => o.attrs["zone"] = Null
    <3>1. [cloud[i] EXCEPT !.mode = m] \in Object
      BY <2>1 DEF Object
    <3>2. [cloud[i] EXCEPT !.mode = m].attrs = cloud[i].attrs
      BY <2>1 DEF Object
    <3> QED BY <2>2, <2>3, <3>1, <3>2
  <2>4. ASSUME NEW p \in Parts, NEW v \in Possible(p),
               Becomes(i, [cloud[i] EXCEPT !.attrs[p] = v])
        PROVE  \E o \in Object : /\ Becomes(i, o)
                                 /\ R.zone = "none" => o.attrs["zone"] = Null
    <3>1. v \in Values \cup {Null}
      BY DEF Possible
    <3>2. [cloud[i] EXCEPT !.attrs[p] = v] \in Object
      BY <2>1, <3>1 DEF Object
    <3>3. [cloud[i] EXCEPT !.attrs[p] = v].attrs["zone"]
            \in {v, cloud[i].attrs["zone"]}
      BY <1>2, <2>1 DEF Object
    <3>4. p # "zone" =>
            [cloud[i] EXCEPT !.attrs[p] = v].attrs["zone"] = cloud[i].attrs["zone"]
      BY <1>2, <2>1 DEF Object
    <3> QED BY <1>1, <2>2, <2>4, <3>2, <3>3, <3>4
  <2> QED BY <1>5, <2>3, <2>4 DEF Change
<1> QED BY <1>3, <1>4, <1>5

LEMMA ServiceGives ==
  ASSUME TableInv, NEW i \in Ids, Appear(i) \/ Vanish(i) \/ Change(i)
  PROVE  Answering'
<1>1. PICK o \in Object \cup {Gone} :
        /\ Becomes(i, o)
        /\ R.zone = "none" /\ o # Gone => o.attrs["zone"] = Null
  BY ServiceKnowsZones
<1>2. /\ UNCHANGED <<kind, R, provider, wanted, filter, got, at, pc, missed>>
      /\ pc = "reading"
  BY <1>1 DEF Becomes
<1>3. \A j \in Ids : seen[j] \subseteq seen'[j] /\ cloud'[j] \in {cloud[j], o}
  BY <1>1 DEF Becomes, TableInv, Inv, TypeOK
<1>4. cloud'[i] = o /\ \A j \in Ids \ {i} : cloud'[j] = cloud[j]
  BY <1>1 DEF Becomes, TableInv, Inv, TypeOK
<1>5. DOMAIN got \subseteq Ids
  BY DEF TableInv, Inv, TypeOK
<1>6. \A j \in DOMAIN got : There(j) \subseteq There(j)'
  BY <1>3, <1>5 DEF There
<1>7. Zoneless'
  BY <1>1, <1>2, <1>4 DEF TableInv, Answering, Zoneless
<1>8. OneAnswer' /\ Asked'
  BY <1>2, <1>6 DEF TableInv, Answering, OneAnswer, Asked, Endpoint
<1>9. PartsAnswered'
  BY <1>2, <1>6 DEF TableInv, Answering, PartsAnswered
<1> QED BY <1>2, <1>7, <1>8, <1>9
        DEF Answering, ZonesNamed, RecordIsOneMoment, AbsenceIsRead

LEMMA StutterGives ==
  ASSUME TableInv, UNCHANGED vars
  PROVE  Answering'
<1>1. UNCHANGED <<kind, R, provider, cloud, pc, at, wanted, filter, got, record,
                  seen, missed>>
  BY DEF vars
<1>2. /\ Endpoint' = Endpoint /\ NamedRegion' = NamedRegion
      /\ \A i \in Ids : There(i)' = There(i)
  BY <1>1 DEF Endpoint, NamedRegion, There
<1>3. DOMAIN got \subseteq Ids /\ DOMAIN record \subseteq Ids
  BY DEF TableInv, Inv, TypeOK
<1>4. \A p \in Parts : \A x, v : Tells(p, x, v)' <=> Tells(p, x, v)
  BY <1>2 DEF Tells
<1>5. Asked' /\ Zoneless' /\ OneAnswer' /\ PartsAnswered'
  BY <1>1, <1>2, <1>3
     DEF TableInv, Answering, Asked, Zoneless, OneAnswer, PartsAnswered
<1>6. ZonesNamed' /\ AbsenceIsRead'
  BY <1>1, <1>2 DEF TableInv, Answering, ZonesNamed, AbsenceIsRead
<1>7. RecordIsOneMoment'
  <2>1. RecordIsOneMoment
    BY DEF TableInv, Answering
  <2> QED BY <1>1, <1>2, <1>3, <1>4, <2>1 DEF RecordIsOneMoment
<1> QED BY <1>5, <1>6, <1>7 DEF Answering

LEMMA TableNext ==
  TableInv /\ [Next]_vars => TableInv'
<1> SUFFICES ASSUME TableInv, [Next]_vars PROVE Inv' /\ Answering'
  BY DEF TableInv
<1>1. Inv'
  BY InvNext DEF TableInv
<1>2. Answering'
  BY StartAsks, AnswerGives, FaultGives, PanicGives, RecordGives, ServiceGives,
     StutterGives DEF Next
<1> QED BY <1>1, <1>2

LEMMA TableAlways == Spec => []TableInv
BY TableInit, TableNext, PTL DEF Spec

-----------------------------------------------------------------------------
(* The endpoints.                                                          *)

LEMMA ProviderKnown ==
  ASSUME TypeOK
  PROVE  provider.env \in Envs /\ provider.region \in RegionNames
<1>1. <<kind, provider>> \in Kinds \X Providers
  BY SetupsAssumption DEF TypeOK
<1> QED BY <1>1 DEF Providers

(* Where the documentation names the region, the endpoint is in it.        *)
LEMMA EndpointKnown ==
  ASSUME TypeOK, Endpoint # Refused, Documented
  PROVE  /\ Endpoint.region = provider.region
         /\ IF R.storage THEN provider.env # "pre-prod" /\ Endpoint.env = "prod"
            ELSE Endpoint.env = provider.env
<1>1. provider.env \in Envs
  BY ProviderKnown
<1>2. CASE R.storage
  BY <1>1, <1>2 DEF Documented, Endpoint, RegionToS3Url, Served, s3Regions, Envs
<1>3. CASE ~R.storage
  <2>1. Endpoint = Served(regions, provider)
    BY <1>3 DEF Endpoint, RegionToUrl
  <2>2. provider.env \in DOMAIN regions /\ provider.region \in regions[provider.env]
    BY <1>1 DEF regions, Documented, Envs
  <2> QED BY <1>3, <2>1, <2>2 DEF Served
<1> QED BY <1>2, <1>3

-----------------------------------------------------------------------------
(* The properties.                                                         *)

(* Whatever the service does meanwhile, what a data source records was all *)
(* so at one moment of its Read, but for the parts that Loses names.       *)
THEOREM RecordsOneMoment == Spec => []RecordIsOneMoment
<1>1. TableInv => RecordIsOneMoment
  BY DEF TableInv, Answering
<1> QED BY <1>1, TableAlways, PTL

(* A list has all that was there in the statuses that it lists, and no     *)
(* more, unless it asks for one page.                                      *)
THEOREM ListsAreWhole == Spec => []ListsWhole
<1>1. ASSUME TableInv PROVE ListsWhole
  <2> SUFFICES ASSUME pc = "done", kind \notin FirstPageOnly PROVE ListsWhole
    BY DEF ListsWhole
  <2>1. Lists(kind, R) /\ filter \in R.filters /\ filter \subseteq Modes
    BY RowKnown, <1>1 DEF TableInv, Inv, TypeOK, Answering, Asked, RowFacts
  <2>2. ~R.page /\ filter \cap R.keeps = Listed
    BY <2>1 DEF Lists, Listed, Modes
  <2>3. RecordWhole
    BY <1>1 DEF TableInv, Inv
  <2> QED BY <2>2, <2>3 DEF RecordWhole, ListsWhole, Stays
<1> QED BY <1>1, TableAlways, PTL

(* Only the Reads that dereference an optional value crash on its absence. *)
THEOREM AbsencesAreRead == Spec => []AbsenceIsRead
<1>1. TableInv => AbsenceIsRead
  BY DEF TableInv, Answering
<1> QED BY <1>1, TableAlways, PTL

(* A recorded zone, asked for again, is the same zone or is refused.       *)
THEOREM ZonesKeepTheirMeaning == Spec => []ZoneMeansTheSame
<1>1. ASSUME TableInv PROVE ZoneMeansTheSame
  <2> SUFFICES ASSUME pc = "done", kind # "bucket", NEW i \in DOMAIN record,
                      record[i]["zone"] # Null
               PROVE  LET zone == record[i]["zone"]
                          xZone == ConvertAvailabilityZoneToXZone(zone)
                      IN  \/ xZone = zone.letter
                          \/ xZone = Refused /\ (~Documented \/ kind = "natGateway")
    BY DEF ZoneMeansTheSame
  <2>1. /\ R.zoned # "none"
        /\ \E v \in Values : record[i]["zone"] = [region |-> NamedRegion, letter |-> v]
    BY <1>1 DEF TableInv, Answering, ZonesNamed
  <2>2. /\ R.zoned \in {"provider", "service", "letter"} /\ ~R.storage
        /\ R.zoned = "letter" => kind = "natGateway"
    BY <1>1, <2>1, RowKnown DEF TableInv, Inv, RowFacts, Zones
  <2>3. Documented /\ R.zoned # "letter" => NamedRegion = provider.region
    BY <1>1, <2>2, EndpointKnown DEF NamedRegion, TableInv, Inv, Answering, Asked
  <2>4. Documented /\ kind # "natGateway" => Matches(record[i]["zone"])
    BY <2>1, <2>2, <2>3 DEF Documented, Matches
  <2> QED BY <2>4 DEF ConvertAvailabilityZoneToXZone
<1> QED BY <1>1, TableAlways, PTL

(* In the documented regions the region in a record, the endpoint's and    *)
(* the configured one are the same, in the configured environment, but for *)
(* the buckets, which are those of production.                             *)
THEOREM RegionsAnswer == Spec => []RegionAnswered
<1>1. ASSUME TableInv PROVE RegionAnswered
  <2> SUFFICES ASSUME pc = "done", Documented PROVE RegionAnswered
    BY DEF RegionAnswered
  <2>1. /\ Endpoint.region = provider.region
        /\ IF R.storage THEN provider.env # "pre-prod" /\ Endpoint.env = "prod"
           ELSE Endpoint.env = provider.env
    BY <1>1, EndpointKnown DEF TableInv, Inv, Answering, Asked
  <2>2. NamedRegion \in {Endpoint.region, Unset}
    BY <2>1 DEF NamedRegion
  <2>3. \A i \in DOMAIN record :
          record[i]["zone"] # Null => record[i]["zone"].region = NamedRegion
    <3>1. ZonesNamed
      BY <1>1 DEF TableInv, Answering
    <3>2. \A v : [region |-> NamedRegion, letter |-> v].region = NamedRegion
      OBVIOUS
    <3> QED BY <3>1, <3>2 DEF ZonesNamed
  <2> QED BY <2>1, <2>2, <2>3 DEF RegionAnswered
<1> QED BY <1>1, TableAlways, PTL
=============================================================================
