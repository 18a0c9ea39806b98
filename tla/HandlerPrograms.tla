---------------------------- MODULE HandlerPrograms ----------------------------
(***************************************************************************)
(* Most resources of the provider are one file each, and their handlers    *)
(* are short straight-line sequences of API calls that differ in which     *)
(* calls they make, in what they do when one fails, and in what they then  *)
(* record.  Here a resource is data: the sequences of calls of its Create, *)
(* Update and Delete handlers, and the schema facts that decide plans.     *)
(* This module runs such programs between Terraform and the service of     *)
(* ManagedResource; SimpleResources holds the program of each resource.    *)
(*                                                                         *)
(* The attributes of a resource are grouped by what the code does to them: *)
(*   name   what identifies it                                             *)
(*   note   a description, or another attribute that may be absent         *)
(*   edit, size   what its Update handler can send                         *)
(*   zone   chosen by the service when it is not configured                *)
(*   once   given at creation and, but for the buckets, the node pools and *)
(*          the Kubernetes clusters, never read back                       *)
(* Null is an absent value, Unknown one that is "known after apply".       *)
(***************************************************************************)
EXTENDS ManagedResource, PlanModifiers, Sequences

CONSTANTS
  Kinds,      \* the resources
  Resource,   \* Kinds -> the program of each
  Values,     \* values an attribute may have
  Empty       \* what a service may answer for a note that was left out

Fields == {"name", "note", "edit", "size", "zone", "once"}
Recordable == Values \cup {Null, Empty}

ASSUME MarksAssumption ==
  /\ {Null, Empty, Unknown} \cap Values = {}
  /\ Null # Empty /\ Null # Unknown /\ Empty # Unknown
ASSUME ConfigAssumption ==
  Configs \cup {Default} \subseteq [Fields -> Values \cup {Null}]
(* What a request leaves out and the service does not choose is absent.    *)
ASSUME AbsenceAssumption ==
  Default["note"] = Null /\ Default["once"] = Null

VARIABLES
  kind,       \* the resource this is; it never changes
  R,          \* its program, Resource[kind]
  at,         \* the call the running handler makes next
  failed,     \* the running handler has added an error and goes on
  tainted     \* Terraform will replace what the state records

handler == <<at, failed>>
program == <<kind, R, at, failed, tainted>>
allVars == <<vars, program>>

HandlerPCs == {"create", "update", "delete"}
PCs == {"idle", "plan", "read", "import"} \cup HandlerPCs
Status == {"PENDING", "READY", "DELETING", "ERROR", "GONE"}
Object == [status : Status, attrs : [Fields -> Recordable],
           goal : [Fields -> Recordable]]

(* What a user may write: the resource's own attributes, and all of those  *)
(* that are required; one source of its contents, of which one that is not *)
(* an attribute of the resource is write-only, never planned nor recorded. *)
Suits(c, k) ==
  /\ \A f \in Fields :
       IF f \in Resource[k].fields THEN c[f] = Null => f \in Resource[k].optional
       ELSE c[f] = Null \/ f \in Resource[k].sources
  /\ \A f, g \in Resource[k].sources : c[f] = Null \/ c[g] = Null \/ f = g

PInit ==
  /\ Init
  /\ kind \in Kinds /\ R = Resource[kind] /\ Suits(config.attrs, kind)
  /\ at = 1 /\ failed = FALSE /\ tainted = FALSE

-----------------------------------------------------------------------------
(* The calls a handler is made of.                                         *)

Call(c) ==
  [call |-> c,
   fields |-> {},        \* what an update request may carry
   only |-> {},          \* made only when one of these is to change
   changed |-> {},       \* of the fields, those carried only when they change
   omitted |-> {},       \* of the fields, those not carried when they are null
   error |-> "stop",     \* what the handler does when the call fails
   late |-> "error",     \* what it does when a wait takes too long
   blind |-> FALSE]      \* a wait that does not look for failed statuses

Post == Call("post")
Get == Call("get")
Lookup == Call("lookup")
Poll == Call("poll")
Delete == Call("delete")
DeleteAgain == Call("deleteAgain")
PollGone == Call("pollGone")
Unsupported == Call("unsupported")
Undo == Call("undo")     \* the last call of a Create that rolls back
Send(F) == [Call("send") EXCEPT !.fields = F]
Patch(F, changed) == [Send(F) EXCEPT !.changed = changed]
IfChanged(F, c) == [c EXCEPT !.only = F, !.changed = F]

Code == R[pc]
Cur == Code[at]
At(c) == pc \in HandlerPCs /\ at \in DOMAIN Code /\ Cur.call = c
Target == IF made = NoId THEN entry ELSE made

-----------------------------------------------------------------------------
(* The plan.                                                               *)

HasDiff ==
  \E f \in R.fields : /\ config.attrs[f] # known[f]
                      /\ config.attrs[f] = Null => f \notin R.computed
Proposed(f) ==
  IF f \notin R.fields THEN known[f]
  ELSE IF config.attrs[f] # Null \/ f \notin R.computed THEN config.attrs[f]
  ELSE IF entry # NoId /\ (f \in R.keeps \/ ~HasDiff) THEN known[f]
  ELSE Unknown
InState(f) == IF entry = NoId THEN Null ELSE known[f]
Planned ==
  [f \in Fields |->
     IF f \in R.pinned
     THEN UseStateForInt64AfterCreate(InState(f), Proposed(f), FALSE)
     ELSE Proposed(f)]
Differs(f) == Planned[f] \notin {Unknown, known[f]}

(* A set attribute counts as the set of its one value.                     *)
AsSet(v) == IF Known(v) THEN {v} ELSE v
ReplacesFor(f) ==
  IF f \in R.sets
  THEN SetRequiresReplaceOnChange(AsSet(known[f]), AsSet(Planned[f]), FALSE)
  ELSE \/ ReplaceIfChangeAndNotIsNotSetOnPlan(known[f], Planned[f])
       \/ f \in R.strict /\ Planned[f] = Unknown
Replaces == tainted \/ \E f \in R.replace \cap R.fields : ReplacesFor(f)

PlanNothing ==
  (tainted => entry = NoId) /\ NothingPlanned(Planned) /\ UNCHANGED program
PlanCreate == CreatePlanned /\ UNCHANGED program
PlanUpdate == UpdatePlanned(Planned, Replaces, "update") /\ UNCHANGED program
PlanDelete == DeletePlanned(Replaces) /\ UNCHANGED program

-----------------------------------------------------------------------------
(* What a handler records.                                                 *)

RecordedAsAnswered(attrs, old) ==   \* bug: a blank description is recorded as it is
  [f \in Fields |-> IF f \in R.reads THEN attrs[f] ELSE old[f]]

(* Read and the handlers that end with a Get record what it answers, each  *)
(* with its own idea of an absent description.                             *)
Recorded(attrs, old) ==
  [f \in Fields |->
     IF f \notin R.reads THEN old[f]
     ELSE IF /\ f = "note" /\ attrs[f] = Empty
             /\ R.hides = "always" \/ (R.hides = "absent" /\ old[f] = Null)
     THEN Null ELSE attrs[f]]

Unresolved(record) == record   \* bug: what is still unknown stays so

(* An unknown value that was not resolved is kept as null.                 *)
Resolved(record) ==
  [f \in Fields |-> IF record[f] = Unknown THEN Null ELSE record[f]]

(* The attributes that the answer to the creating request shows.           *)
Answered ==
  [f \in Fields |-> IF config.attrs[f] # Null /\ f \in R.posted
                    THEN config.attrs[f] ELSE Default[f]]

CreateRecord(attrs) ==
  [f \in Fields |->
     IF f \in R.fills /\ Planned[f] = Unknown THEN Null
     ELSE IF f \notin R.learns THEN Planned[f]
     ELSE IF R.early THEN Answered[f] ELSE Recorded(attrs, Planned)[f]]

Carried(s) ==
  {f \in s.fields : /\ IF f \in s.changed THEN Differs(f) ELSE Planned[f] # Unknown
                    /\ f \in s.omitted => Planned[f] # Null}

UpdateRecord(attrs) ==
  IF R.records = "plan" THEN Planned
  ELSE IF R.records = "read" THEN Recorded(attrs, known)
  ELSE [f \in Fields |->
          IF \E n \in DOMAIN R.update : f \in Carried(R.update[n])
          THEN Planned[f] ELSE known[f]]

(* Terraform refuses a record that is not what it planned.                 *)
Inconsistent(record) ==
  \E f \in R.fields : \/ record[f] = Unknown
                      \/ Planned[f] \notin {Unknown, record[f]}

-----------------------------------------------------------------------------
(* How a handler goes on after a call: m is the identifier that only it    *)
(* holds, e whether it has added an error.                                 *)

Ends == at' = 1 /\ failed' = FALSE

CreateReturns(m, e) ==
  LET record == CreateRecord(cloud'[m].attrs)
  IN  /\ entry' = m /\ made' = NoId /\ known' = Resolved(record)
      /\ tainted' = (e \/ Inconsistent(record))
      /\ pc' = "idle" /\ settled' = (~stale' /\ ~tainted')

UpdateReturns(e) ==
  LET record == UpdateRecord(cloud'[entry].attrs)
  IN  /\ known' = Resolved(record)
      /\ pc' = "idle" /\ settled' = (~stale' /\ ~e /\ ~Inconsistent(record))
      /\ UNCHANGED <<entry, made, tainted>>

DeleteReturns(e) ==
  IF e THEN pc' = "idle" /\ UNCHANGED <<entry, known, made, tainted, settled>>
  ELSE /\ entry' = NoId /\ known' = Default /\ tainted' = FALSE
       /\ pc' = IF config.want THEN "create" ELSE "idle"
       /\ settled' = ~config.want /\ UNCHANGED made

Returns(m, e) ==
  \/ pc = "create" /\ CreateReturns(m, e)
  \/ pc = "update" /\ UpdateReturns(e)
  \/ pc = "delete" /\ DeleteReturns(e)

GoesOn(m, e) ==
  /\ UNCHANGED <<disclosed, env, kind, R>>
  /\ \/ /\ at < Len(Code)
        /\ at' = at + 1 /\ failed' = e /\ made' = m
        /\ UNCHANGED <<pc, entry, known, settled, tainted>>
     \/ at >= Len(Code) /\ Ends /\ Returns(m, e)
Proceeds == UNCHANGED stale /\ GoesOn(made, failed)

(* The handler returns with an error, and with the state it was given.     *)
Stop == Fail /\ Ends /\ UNCHANGED <<kind, R, tainted>>

(* It returns with an error after it has put the new identifier into the   *)
(* state: Terraform records the object as tainted.                         *)
Keep(record) ==
  /\ entry' = made /\ made' = NoId /\ tainted' = TRUE
  /\ known' = Resolved(record)
  /\ pc' = "idle" /\ stale' = TRUE /\ Ends
  /\ UNCHANGED <<disclosed, settled, env, kind, R>>

(* HTTP errors are dropped, a missing object among them, others are not.   *)
Tolerated ==
  Proceeds \/ ((Exists(Target) \/ faults' # faults) /\ Stop)

CallFails ==
  \/ Cur.error = "stop" /\ Stop
  \/ Cur.error = "keep" /\ Keep(IF R.early THEN Answered ELSE Planned)
  \/ /\ Cur.error = "refetch"
     /\ Stop \/ (Exists(made) /\ Keep(Recorded(cloud[made].attrs, Planned)))
  \/ Cur.error = "goOn" /\ UNCHANGED stale /\ GoesOn(made, TRUE)
  \/ Cur.error = "ignore" /\ Tolerated
  \/ /\ Cur.error = "rollback"
     /\ at' = Len(Code) /\ failed' = TRUE
     /\ UNCHANGED <<pc, entry, known, made, disclosed, stale, settled, env,
                    kind, R, tainted>>

-----------------------------------------------------------------------------
(* The calls.  Create: the lookups and conversions before the request, and *)
(* the request itself, can fail before anything exists.                    *)

Ready == \A f \in R.needs : config.attrs[f] # Null

(* Some objects are known by a name that no two of them have.              *)
NameTaken ==
  R.unique /\ \E i \in Ids : /\ Exists(i)
                           /\ cloud[i].attrs["name"] = config.attrs["name"]
HasPlace == ~NameTaken /\ \E i \in Ids : Fresh(i)

PostRefused ==
  /\ At("post")
  /\ Fault \/ (NoFault /\ ~(Ready /\ HasPlace))
  /\ Stop /\ UNCHANGED cloud

(* A prompt service has done what it accepts, the others do it later.      *)
Accepted == IF R.prompt THEN "READY" ELSE "PENDING"

(* A service may keep an empty text where none was sent, or one of its own, *)
(* and may leave out of its answers what it was not given.                 *)
Made(note, left) ==
  LET a == [f \in Fields |-> IF f = "note" THEN note
                             ELSE IF f \in left THEN Null ELSE Answered[f]]
  IN  [status |-> Accepted, attrs |-> a, goal |-> a]
Left == SUBSET {f \in R.leaves : config.attrs[f] = Null}
Notes ==
  IF "note" \notin R.fields \/ Answered["note"] # Null THEN {Answered["note"]}
  ELSE IF R.blanks THEN {Null, Empty} ELSE {Null}

Posted(i) ==
  /\ At("post") /\ Ready /\ ~NameTaken /\ Fresh(i)
  /\ \E note \in Notes, left \in Left : cloud' = [cloud EXCEPT ![i] = Made(note, left)]

(* Create adds an error where no source is configured, and posts all the   *)
(* same.                                                                   *)
Sourceless == R.sources # {} /\ \A f \in R.sources : config.attrs[f] = Null
PostAccepted(i) ==
  /\ Posted(i) /\ NoFault /\ stale' = FALSE /\ GoesOn(i, failed \/ Sourceless)

PostReplyLost(i) ==
  /\ Posted(i) /\ Fault
  /\ pc' = "idle" /\ stale' = TRUE /\ disclosed' = disclosed \cup {i} /\ Ends
  /\ UNCHANGED <<entry, known, made, settled, env, kind, R, tainted>>

Quiet == NoFault /\ UNCHANGED cloud

(* A call that the handler makes only when something is to change.         *)
Skip ==
  /\ pc \in HandlerPCs /\ at \in DOMAIN Code
  /\ Cur.only # {} /\ \A f \in Cur.only : ~Differs(f)
  /\ Quiet /\ Proceeds
Needed == Cur.only = {} \/ \E f \in Cur.only : Differs(f)

(* A handler without calls.                                                *)
NoCalls ==
  /\ pc \in HandlerPCs /\ Code = << >> /\ Quiet /\ Proceeds

UnsupportedFails ==
  At("unsupported") /\ Quiet /\ Stop

GetOk ==
  At("get") /\ Exists(Target) /\ Quiet /\ Proceeds
LookupOk == At("lookup") /\ Quiet /\ Proceeds
GetFails ==
  /\ \/ (At("get") \/ At("lookup")) /\ Fault
     \/ At("get") /\ ~Exists(Target) /\ NoFault
  /\ UNCHANGED cloud /\ CallFails

Accepting(i) == cloud[i].status \in {"PENDING", "READY", "ERROR"}

Asked(i) ==
  /\ At("send") /\ Needed /\ Accepting(i)
  /\ LET goal == [f \in Fields |-> IF f \in Carried(Cur) THEN Planned[f]
                                     ELSE cloud[i].goal[f]]
     IN  cloud' = [cloud EXCEPT
           ![i].status = Accepted, ![i].goal = goal,
           ![i].attrs = IF R.prompt THEN goal ELSE cloud[i].attrs]
SendAccepted == Asked(Target) /\ NoFault /\ Proceeds
SendReplyLost == Asked(Target) /\ Fault /\ CallFails
SendRefused ==
  /\ At("send") /\ Needed
  /\ Fault \/ (NoFault /\ ~Accepting(Target))
  /\ UNCHANGED cloud /\ CallFails

(* A Create that failed half-way deletes what it made, whatever comes of   *)
(* that: the outage that failed the one request may fail this one too.     *)
UndoNothing == At("undo") /\ ~failed /\ Quiet /\ Proceeds
UndoDone ==
  /\ At("undo") /\ failed
  /\ cloud' = IF Exists(made) THEN [cloud EXCEPT ![made].status = "DELETING"]
              ELSE cloud
  /\ NoFault /\ Stop
UndoFails == At("undo") /\ failed /\ NoFault /\ Stop /\ UNCHANGED cloud

(* What is dereferenced without a look: the provider crashes where it is   *)
(* absent, unless the same look goes first at what is recorded.            *)
Crashes(i, fs, old) ==
  \E f \in R.derefs \cap fs :
     cloud[i].attrs[f] = Null /\ (R.hides = "absent" => old[f] = Null)

(* What a handler that ends with this wait reads of its answer.            *)
Converted ==
  IF at < Len(Code) THEN {}
  ELSE IF pc = "create" THEN R.learns ELSE IF R.records = "read" THEN R.reads ELSE {}
CrashesNow == Crashes(Target, Converted, known)

PollReady ==
  /\ At("poll") /\ Needed /\ cloud[Target].status = "READY" /\ ~CrashesNow
  /\ Quiet /\ Proceeds
PollFails ==
  /\ At("poll") /\ Needed
  /\ \/ Fault
     \/ NoFault /\ cloud[Target].status = "READY" /\ CrashesNow
     \/ NoFault /\ ~Exists(Target)
     \/ NoFault /\ cloud[Target].status = "ERROR" /\ ~Cur.blind
  /\ UNCHANGED cloud /\ CallFails

RequestDelete ==
  /\ Exists(entry)
  /\ cloud' = [cloud EXCEPT ![entry].status = "DELETING"]
DeleteAccepted == At("delete") /\ RequestDelete /\ NoFault /\ Proceeds
DeleteReplyLost == At("delete") /\ RequestDelete /\ Fault /\ CallFails
DeleteRefused ==
  /\ At("delete")
  /\ Fault \/ (NoFault /\ ~Exists(entry))
  /\ UNCHANGED cloud /\ CallFails

(* A Get: nothing is left to do when the object is gone, and its deletion  *)
(* is asked for when it is not being deleted.                              *)
DeleteAgainGone ==
  /\ At("deleteAgain") /\ ~Exists(entry) /\ NoFault /\ UNCHANGED <<cloud, stale>>
  /\ DeleteReturns(failed) /\ Ends /\ UNCHANGED <<disclosed, env, kind, R>>
DeleteAgainDone ==
  /\ At("deleteAgain") /\ RequestDelete /\ NoFault /\ Proceeds
DeleteAgainFails ==
  /\ At("deleteAgain") /\ Exists(entry) /\ Fault
  /\ \/ UNCHANGED cloud /\ Stop
     \/ /\ cloud[entry].status # "DELETING"
        /\ UNCHANGED cloud \/ RequestDelete
        /\ CallFails

PollGoneDone ==
  At("pollGone") /\ ~Exists(entry) /\ Quiet /\ Proceeds
PollGoneFails ==
  /\ At("pollGone") /\ UNCHANGED cloud
  /\ \/ Fault /\ CallFails
     \/ NoFault /\ cloud[entry].status = "ERROR" /\ ~Cur.blind /\ Stop

(* A wait ends after a time whatever happens; one resource takes that for  *)
(* a success.                                                              *)
Timeout ==
  /\ \/ At("poll") /\ Needed
     \/ At("pollGone")
  /\ Quiet
  /\ \/ Cur.late = "error" /\ (IF At("poll") THEN CallFails ELSE Stop)
     \/ Cur.late = "passes" /\ Proceeds

-----------------------------------------------------------------------------
(* Read and ImportState.                                                   *)

(* Read crashes, or may where an empty list and none are not told apart.   *)
Unreadable(i, old) == Crashes(i, R.reads, old)
MayCrash(i, old) ==
  Unreadable(i, old) \/ \E f \in R.lists : cloud[i].attrs[f] = Null
ReadOk ==
  /\ pc = "read" /\ Exists(entry) /\ ~Unreadable(entry, known)
  /\ known' = Recorded(cloud[entry].attrs, known)
  /\ stale' = MidChange(entry) /\ pc' = "plan"
  /\ UNCHANGED <<cloud, entry, made, disclosed, settled, faults, env, program>>

(* Some of the requests a Read makes may fail unnoticed: what they would   *)
(* have shown is recorded as absent.                                       *)
Absent(f) == IF f = "note" \/ f = "once" THEN Null ELSE Default[f]
ReadMisses(f) ==
  /\ pc = "read" /\ Exists(entry) /\ f \in R.misses /\ Fault
  /\ known' = [Recorded(cloud[entry].attrs, known) EXCEPT ![f] = Absent(f)]
  /\ stale' = TRUE /\ pc' = "plan"
  /\ UNCHANGED <<cloud, entry, made, disclosed, settled, env, program>>

ReadFails ==
  /\ pc = "read"
  /\ \/ Fault
     \/ NoFault /\ ~Exists(entry) /\ R.missing = "error"
     \/ NoFault /\ Exists(entry) /\ MayCrash(entry, known)
  /\ Stop /\ UNCHANGED cloud

ReadRemoves ==
  /\ pc = "read" /\ ~Exists(entry) /\ R.missing = "remove"
  /\ entry' = NoId /\ known' = Default /\ tainted' = FALSE
  /\ stale' = FALSE /\ pc' = "plan"
  /\ UNCHANGED <<cloud, made, disclosed, settled, faults, env, kind, R, handler>>

Unrecorded == [f \in Fields |-> Null]
ImportOk ==
  /\ pc = "import" /\ Exists(made) /\ ~Unreadable(made, Unrecorded)
  /\ entry' = made /\ made' = NoId /\ disclosed' = disclosed \ {made}
  /\ known' = Recorded(cloud[made].attrs, Unrecorded)
  /\ stale' = MidChange(made) /\ tainted' = FALSE /\ pc' = "idle"
  /\ UNCHANGED <<cloud, settled, faults, env, kind, R, handler>>

ImportFails ==
  /\ pc = "import"
  /\ Fault \/ (NoFault /\ (~Exists(made) \/ MayCrash(made, Unrecorded)))
  /\ pc' = "idle" /\ made' = NoId
  /\ UNCHANGED <<cloud, entry, known, disclosed, stale, settled, env, program>>

-----------------------------------------------------------------------------
(* The user, the service, and everything together.                         *)

User ==
  \/ EditConfig /\ Suits(config'.attrs, kind) /\ UNCHANGED program
  \/ StartRun /\ UNCHANGED program
  \/ R.imports /\ (\E i \in Ids : StartImport(i)) /\ UNCHANGED program

Stopped == Crash /\ Ends /\ UNCHANGED <<kind, R, tainted>>

Settle(i) == Completes(i, {"PENDING"}, "READY") /\ UNCHANGED program
Vanish(i) == cloud[i].status = "DELETING" /\ Disappears(i) /\ UNCHANGED program
Break(i) ==
  /\ ~R.prompt
  /\ cloud[i].status \in {"PENDING", "DELETING"} /\ Breaks(i, "ERROR")
  /\ UNCHANGED program
Drift(i, f, v) ==
  /\ cloud[i].status = "READY" /\ f \in R.fields \cap R.reads
  /\ Drifts(i, f, v) /\ UNCHANGED program
ExternalDelete(i) ==
  /\ cloud[i].status \in {"READY", "ERROR"}
  /\ DeletedElsewhere(i, "DELETING") /\ UNCHANGED program

Handler ==
  \/ PlanNothing \/ PlanCreate \/ PlanUpdate \/ PlanDelete
  \/ PostRefused \/ \E i \in Ids : PostAccepted(i) \/ PostReplyLost(i)
  \/ Skip \/ NoCalls \/ UnsupportedFails
  \/ GetOk \/ LookupOk \/ GetFails
  \/ SendAccepted \/ SendReplyLost \/ SendRefused
  \/ PollReady \/ PollFails
  \/ DeleteAccepted \/ DeleteReplyLost \/ DeleteRefused
  \/ DeleteAgainGone \/ DeleteAgainDone \/ DeleteAgainFails
  \/ PollGoneDone \/ PollGoneFails
  \/ UndoNothing \/ UndoDone \/ UndoFails
  \/ ReadOk \/ ReadFails \/ ReadRemoves \/ \E f \in Fields : ReadMisses(f)
  \/ ImportOk \/ ImportFails

Service ==
  \E i \in Ids :
     \/ Settle(i) \/ Vanish(i) \/ Break(i) \/ ExternalDelete(i)
     \/ \E f \in Fields, v \in Values : Drift(i, f, v)

Next == User \/ Handler \/ Timeout \/ Stopped \/ Service

Spec == PInit /\ [][Next]_allVars

(* A handler that can go on does, and the waits are bounded.               *)
FairSpec == Spec /\ WF_allVars(Handler) /\ WF_allVars(Timeout)

(* The user applies again and again, and the service completes what it has *)
(* accepted.                                                               *)
RetryFairness ==
  /\ SF_allVars(StartRun /\ UNCHANGED program)
  /\ \A i \in Ids : WF_allVars(Settle(i)) /\ WF_allVars(Vanish(i))

=============================================================================
