---------------------------- MODULE ManagedResource ----------------------------
(***************************************************************************)
(* What the handlers of every resource of the provider share: Terraform on *)
(* one side, an asynchronous service on the other.  None of it is in the   *)
(* repository; it is modelled from the way the handlers use it.            *)
(*                                                                         *)
(* Terraform refreshes what its state records, merges it with the          *)
(* configuration into a plan, calls one handler at a time, and keeps or    *)
(* drops the state entry when the handler returns.  A handler holds what   *)
(* it learned only in memory until it puts it into its response.           *)
(*                                                                         *)
(* An object of the service has a status, attributes, and a goal: the      *)
(* attributes it will have when the requests it has accepted are done.     *)
(***************************************************************************)
EXTENDS Naturals, FiniteSets

CONSTANTS
  Ids,        \* identifiers the service can give to coexisting objects
  NoId,       \* the absence of an identifier
  Default,    \* attributes the service gives to those a request leaves out
  Configs,    \* attributes the user may configure
  MaxFaults,  \* bound: refused or lost calls, failures, drift, crashes
  MaxEdits    \* bound: edits of the configuration

ASSUME IdsAssumption == IsFiniteSet(Ids) /\ NoId \notin Ids
ASSUME BoundsAssumption == MaxFaults \in Nat /\ MaxEdits \in Nat

VARIABLES
  cloud,      \* the service: Ids -> object
  entry,      \* the identifier in the Terraform state, or NoId
  known,      \* the attributes recorded with it
  config,     \* the configuration: [want, attrs]
  pc,         \* where the running handler stands
  made,       \* the identifier only the running handler holds, or NoId
  disclosed,  \* objects whose loss ended a run with an error or a crash
  stale,      \* recorded attributes may be out of date since the refresh
  settled,    \* the last run ended well and nothing has changed since
  faults, edits

vars == <<cloud, entry, known, config, pc, made, disclosed, stale,
          settled, faults, edits>>
env == <<config, edits>>

NoObject == [status |-> "GONE", attrs |-> Default, goal |-> Default]

(* GONE is a Get answered with 404. *)
Exists(i) == cloud[i].status # "GONE"

Init ==
  /\ cloud = [i \in Ids |-> NoObject]
  /\ entry = NoId /\ made = NoId
  /\ known = Default
  /\ config \in [want : {TRUE}, attrs : Configs]
  /\ pc = "idle"
  /\ disclosed = {} /\ stale = FALSE /\ settled = FALSE
  /\ faults = 0 /\ edits = 0

Fault == faults < MaxFaults /\ faults' = faults + 1
NoFault == UNCHANGED faults

(* A handler returns with an error diagnostic: Terraform keeps the entry   *)
(* it had, and what only the handler knew is lost, with the user told.     *)
Fail ==
  /\ pc' = "idle" /\ made' = NoId /\ stale' = TRUE
  /\ disclosed' = disclosed \cup {i \in {made} : i # NoId /\ Exists(i)}
  /\ UNCHANGED <<entry, known, settled, env>>

Goto(l) ==
  /\ pc' = l /\ settled' = FALSE
  /\ UNCHANGED <<entry, known, made, disclosed, stale, env>>

-----------------------------------------------------------------------------
(* The user and Terraform.                                                 *)

EditConfig ==
  /\ pc = "idle" /\ edits < MaxEdits
  /\ edits' = edits + 1
  /\ config' \in [want : BOOLEAN, attrs : Configs] /\ config' # config
  /\ settled' = FALSE
  /\ UNCHANGED <<cloud, entry, known, pc, made, disclosed, stale, faults>>

(* A run refreshes what is recorded before it plans. *)
StartRun ==
  /\ pc = "idle" /\ NoFault /\ UNCHANGED cloud
  /\ Goto(IF entry = NoId THEN "plan" ELSE "read")

StartImport(i) ==
  /\ pc = "idle" /\ entry = NoId /\ i \in disclosed
  /\ pc' = "import" /\ made' = i /\ settled' = FALSE
  /\ UNCHANGED <<cloud, entry, known, disclosed, stale, faults, env>>

(* The four outcomes of a plan; the planned attributes, and whether their  *)
(* plan modifiers ask for a replacement, are the resource's.               *)
NothingPlanned(planned) ==
  /\ pc = "plan"
  /\ IF entry = NoId THEN ~config.want ELSE config.want /\ planned = known
  /\ pc' = "idle" /\ settled' = ~stale
  /\ UNCHANGED <<cloud, entry, known, made, disclosed, stale, faults, env>>

CreatePlanned ==
  /\ pc = "plan" /\ entry = NoId /\ config.want
  /\ Goto("create") /\ NoFault /\ UNCHANGED cloud

UpdatePlanned(planned, replaces, first) ==
  /\ pc = "plan" /\ entry # NoId /\ config.want
  /\ planned # known /\ ~replaces
  /\ Goto(first) /\ NoFault /\ UNCHANGED cloud

DeletePlanned(replaces) ==
  /\ pc = "plan" /\ entry # NoId
  /\ ~config.want \/ replaces
  /\ Goto("delete") /\ NoFault /\ UNCHANGED cloud

(* A delete without error: Terraform drops the entry; in a replacement it  *)
(* goes on to Create.                                                      *)
Deleted ==
  /\ entry' = NoId /\ known' = Default /\ stale' = FALSE
  /\ pc' = IF config.want THEN "create" ELSE "idle"
  /\ settled' = ~config.want
  /\ UNCHANGED <<cloud, made, disclosed, faults, env>>

(* Terraform, or the machine it runs on, is stopped in the middle of a run *)
(* and all that was only in the handler's memory is lost.                  *)
Crash ==
  /\ pc # "idle" /\ Fault /\ Fail /\ UNCHANGED cloud

-----------------------------------------------------------------------------
(* The service.                                                            *)

Fresh(i) == ~Exists(i) /\ i # entry /\ i \notin disclosed

(* Attributes read in the middle of a change are about to be replaced. *)
MidChange(i) == cloud[i].attrs # cloud[i].goal

ServiceOnly == UNCHANGED <<entry, known, pc, made, env>>

(* The service moves behind the back of what was last read. *)
Behind(i) ==
  /\ stale' = (stale \/ i \in {entry, made})
  /\ settled' = (settled /\ ~stale')

(* A change that was accepted is done. *)
Completes(i, busy, done) ==
  /\ cloud[i].status \in busy
  /\ cloud' = [cloud EXCEPT ![i].status = done, ![i].attrs = cloud[i].goal]
  /\ ServiceOnly /\ UNCHANGED <<disclosed, stale, settled>> /\ NoFault

Breaks(i, broken) ==
  /\ Fault
  /\ cloud' = [cloud EXCEPT ![i].status = broken, ![i].goal = cloud[i].attrs]
  /\ ServiceOnly /\ UNCHANGED <<disclosed, stale, settled>>

(* A deletion is done: a Get is answered with 404 from here on. *)
Disappears(i) ==
  /\ cloud' = [cloud EXCEPT ![i] = NoObject]
  /\ disclosed' = disclosed \ {i}
  /\ Behind(i) /\ ServiceOnly /\ NoFault

(* Another client changes an attribute, or asks for the deletion. *)
Drifts(i, f, v) ==
  /\ v # cloud[i].attrs[f] /\ Fault
  /\ cloud' = [cloud EXCEPT ![i].attrs[f] = v, ![i].goal[f] = v]
  /\ Behind(i) /\ ServiceOnly /\ UNCHANGED disclosed

DeletedElsewhere(i, deleting) ==
  /\ Fault
  /\ cloud' = [cloud EXCEPT ![i].status = deleting]
  /\ Behind(i) /\ ServiceOnly /\ UNCHANGED disclosed
=============================================================================
