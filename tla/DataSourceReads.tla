---------------------------- MODULE DataSourceReads ----------------------------
(***************************************************************************)
(* The Read of a data source: it asks the service, once or, for a bucket,  *)
(* several times, and records what it was told.  Like the handlers of      *)
(* HandlerPrograms a data source is data: the requests its Read makes, and *)
(* what it makes of each part of an answer.  The service changes between   *)
(* the requests.  DataSources holds the row of each data source.           *)
(*                                                                         *)
(* The attributes of an object are grouped by how they reach the record:   *)
(*   note    an optional text or number                                    *)
(*   owner   a reference, or a part of its own, that may be absent         *)
(*   items   a collection                                                  *)
(*   zone    the letter of its availability zone, or what names its region *)
(*   extra   another of its own: a bucket's lock, or an attribute that     *)
(*           Read treats like none of the above                            *)
(* What is always there and recorded as it is has no part of its own.      *)
(***************************************************************************)
EXTENDS Regions, Naturals, Sequences, FiniteSets

CONSTANTS
  Ids,          \* the objects of the service
  Kinds,        \* the data sources
  Source,       \* Kinds -> the row of each
  Setups,       \* the pairs of a data source and the provider's data
  Values,       \* values a part may have, letters of zones among them
  Null, Blank,  \* an absent value, and an empty text or collection
  Mangled,      \* a value that no object has
  Gone,         \* no object
  PageSize,     \* how many objects an answer in pages has
  MaxFaults,    \* bound: requests of a Read that fail
  MaxChanges    \* bound: changes of the service during a Read

Parts == {"note", "owner", "items", "zone", "extra"}
Modes == {"active", "other"}     \* statuses that some lists select by
Forms == {"none", "plain", "null", "blank", "must", "lost", "inverted", "padded",
          "mistaken"}
Dereferencing == {"must", "inverted"}     \* crash on an absent value
Inventing == {"padded", "mistaken"}       \* record what was not answered for it
Object == [mode : Modes, attrs : [Parts -> Values \cup {Null}]]

ASSUME ValuesAssumption ==
  /\ {Null, Blank, Mangled} \cap Values = {}
  /\ Null # Blank /\ Null # Mangled /\ Blank # Mangled /\ Gone \notin Object
Request == [parts : SUBSET Parts, error : {"stop", "absent"}]
ASSUME SourceAssumption ==
  \A k \in Kinds :
     /\ Source[k].asks \in Seq(Request) /\ Source[k].asks[1].error = "stop"
     /\ Len(Source[k].asks) >= 1 /\ Source[k].filters \subseteq SUBSET Modes
     /\ \A p \in Parts : Source[k][p] \in Forms
ASSUME SetupsAssumption == Setups \subseteq Kinds \X Providers
ASSUME BoundsAssumption ==
  PageSize \in Nat \ {0} /\ MaxFaults \in Nat /\ MaxChanges \in Nat

VARIABLES
  kind, R,         \* the data source, and its row, Source[kind]
  provider,        \* the provider's data; none of the three changes
  cloud,           \* Ids -> the object, or Gone
  pc,
  at,              \* the request that Read makes next
  wanted, filter,  \* the objects and the statuses it asks for
  got,             \* what it was told so far
  record,          \* what it left
  seen,            \* all that each object was during the Read
  missed,          \* parts whose request failed
  faults, changes

vars == <<kind, R, provider, cloud, pc, at, wanted, filter, got, record, seen,
          missed, faults, changes>>
Nothing == << >>

(* A service never leaves out what an SDK type cannot leave out.           *)
Possible(p) ==
  IF R[p] = "none" THEN {Null}
  ELSE IF R[p] \in {"plain", "mistaken"} THEN Values ELSE Values \cup {Null}
Selects == R.keeps # Modes \/ R.filters # {Modes}
Objects ==
  [mode : IF Selects THEN Modes ELSE {"active"},
   attrs : {a \in [Parts -> Values \cup {Null}] :
              \A p \in Parts : a[p] \in Possible(p)}]

Init ==
  /\ \E setup \in Setups : kind = setup[1] /\ provider = setup[2]
  /\ R = Source[kind]
  /\ cloud \in [Ids -> Objects \cup {Gone}]
  /\ pc = "idle" /\ at = 1 /\ wanted = {} /\ filter = Modes
  /\ got = Nothing /\ record = Nothing
  /\ seen = [i \in Ids |-> {}] /\ missed = {}
  /\ faults = 0 /\ changes = 0

Fault == faults < MaxFaults /\ faults' = faults + 1
Fixed == UNCHANGED <<kind, R, provider, cloud>>
Asking == UNCHANGED <<wanted, filter, record, seen, changes>>

-----------------------------------------------------------------------------
(* The handler.                                                            *)

(* Configure: object storage has no endpoint in some environments.         *)
Endpoint == IF R.storage THEN RegionToS3Url(provider) ELSE RegionToUrl(provider)

Start ==
  /\ pc # "reading"
  /\ IF R.one THEN \E i \in Ids : wanted' = {i} ELSE wanted' = Ids
  /\ filter' \in R.filters
  /\ pc' = IF Endpoint = Refused THEN "failed" ELSE "reading"
  /\ at' = 1 /\ got' = Nothing /\ record' = Nothing /\ missed' = {}
  /\ seen' = [i \in Ids |-> {cloud[i]}]
  /\ faults' = 0 /\ changes' = 0 /\ Fixed

Cur == R.asks[at]
Requesting == pc = "reading" /\ at <= Len(R.asks)
MatchingAny ==   \* bug: any object will do
  {i \in Ids : cloud[i] # Gone /\ cloud[i].mode \in filter}
Matching == {i \in wanted : cloud[i] # Gone /\ cloud[i].mode \in filter}
FirstPage ==
  {S \in SUBSET Matching :
     \/ Cardinality(S) = PageSize
     \/ S = Matching /\ Cardinality(S) < PageSize}
Answers == IF R.page THEN FirstPage ELSE {Matching}

(* An answer shows the parts that were asked for, of what is there now.    *)
Told(i) ==
  [mode |-> cloud[i].mode,
   attrs |-> [p \in Parts |-> IF p \in Cur.parts THEN cloud[i].attrs[p]
                              ELSE IF i \in DOMAIN got THEN got[i].attrs[p]
                              ELSE Null]]
Answered ==
  /\ Requesting /\ (R.one => Matching # {})
  /\ \E S \in Answers : got' = [i \in S |-> Told(i)]
  /\ at' = at + 1
  /\ Fixed /\ Asking /\ UNCHANGED <<pc, missed, faults>>

(* A request that fails, or that asks for an object that is not there,     *)
(* ends the Read with an error, or counts as "not configured".             *)
Unanswered ==
  /\ Requesting
  /\ Fault \/ (R.one /\ Matching = {} /\ UNCHANGED faults)
  /\ \/ Cur.error = "stop" /\ pc' = "failed" /\ UNCHANGED <<at, missed>>
     \/ /\ Cur.error = "absent"
        /\ missed' = missed \cup Cur.parts /\ at' = at + 1 /\ UNCHANGED pc
  /\ Fixed /\ Asking /\ UNCHANGED got

Converting == pc = "reading" /\ at > Len(R.asks)
Kept == {i \in DOMAIN got : got[i].mode \in R.keeps}

(* A value that is dereferenced without a look whether it is there: the    *)
(* interfaces' addresses are looked at only when they are absent.          *)
Crashes(i) ==
  \E p \in Parts : R[p] \in Dereferencing /\ got[i].attrs[p] = Null

(* Some answers have the whole name of a zone, others its letter, to which *)
(* the provider's region is added, or is not.                              *)
NamedRegion ==
  IF R.zoned = "provider" THEN provider.region
  ELSE IF R.zoned = "service" THEN Endpoint.region ELSE Unset
Value(p, v) ==
  IF v = Null THEN (IF R[p] \in {"blank", "padded"} THEN Blank ELSE Null)
  ELSE IF R[p] = "lost" THEN Null
  ELSE IF R[p] = "inverted" THEN Blank
  ELSE IF R[p] \in Inventing THEN Mangled
  ELSE IF p = "zone" THEN ConvertXZoneToAvailabilityZone(NamedRegion, v)
  ELSE v

Panic ==
  /\ Converting /\ (\E i \in Kept : Crashes(i))
  /\ pc' = "panic" /\ got' = Nothing
  /\ Fixed /\ Asking /\ UNCHANGED <<at, missed, faults>>
Record ==
  /\ Converting /\ ~\E i \in Kept : Crashes(i)
  /\ record' = [i \in Kept |-> [p \in Parts |-> Value(p, got[i].attrs[p])]]
  /\ pc' = "done" /\ got' = Nothing
  /\ Fixed /\ UNCHANGED <<at, wanted, filter, seen, missed, faults, changes>>

(* What was answered cannot be put into the state's form.                  *)
Unconvertible ==
  /\ Converting /\ R.converts
  /\ pc' = "failed" /\ got' = Nothing
  /\ Fixed /\ Asking /\ UNCHANGED <<at, missed, faults>>

-----------------------------------------------------------------------------
(* The service.  A change between two Reads, or of an object that is not   *)
(* asked for, is another state to begin with.                              *)

Becomes(i, o) ==
  /\ pc = "reading" /\ i \in wanted
  /\ changes < MaxChanges /\ changes' = changes + 1
  /\ cloud' = [cloud EXCEPT ![i] = o]
  /\ seen' = [seen EXCEPT ![i] = seen[i] \cup {o}]
  /\ UNCHANGED <<kind, R, provider, pc, at, wanted, filter, got, record, missed,
                 faults>>
Appear(i) == cloud[i] = Gone /\ \E o \in Objects : Becomes(i, o)
Vanish(i) == cloud[i] # Gone /\ Becomes(i, Gone)
Change(i) ==
  /\ cloud[i] # Gone
  /\ \/ \E m \in Modes :
          Selects /\ Becomes(i, [cloud[i] EXCEPT !.mode = m])
     \/ \E p \in Parts : \E v \in Possible(p) :
          Becomes(i, [cloud[i] EXCEPT !.attrs[p] = v])

Next ==
  \/ Start \/ Answered \/ Unanswered \/ Panic \/ Record \/ Unconvertible
  \/ \E i \in Ids : Appear(i) \/ Vanish(i) \/ Change(i)

Spec == Init /\ [][Next]_vars

(* What an object was during the Read, while there was one.                *)
There(i) == seen[i] \ {Gone}

TypeOK ==
  /\ <<kind, provider>> \in Setups
  /\ cloud \in [Ids -> Object \cup {Gone}]
  /\ pc \in {"idle", "reading", "done", "failed", "panic"}
  /\ at \in Nat \ {0} /\ wanted \subseteq Ids /\ filter \subseteq Modes
  /\ DOMAIN got \subseteq wanted /\ DOMAIN record \subseteq wanted
  /\ \A i \in DOMAIN got : got[i] \in Object
  /\ seen \in [Ids -> SUBSET (Object \cup {Gone})]
  /\ missed \subseteq Parts
  /\ faults \in 0 .. MaxFaults /\ changes \in 0 .. MaxChanges
=============================================================================
