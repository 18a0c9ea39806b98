------------------------------ MODULE Attachments ------------------------------
(***************************************************************************)
(* The attachment resources: a volume, a public IP, a network interface, a *)
(* security group or a scheduled volume (the thing) is attached to a host. *)
(* They have no object of their own: the service keeps a relation, each    *)
(* entry of a configuration names one pair of it, and the handlers of      *)
(* several entries run at the same time.                                   *)
(***************************************************************************)
EXTENDS Naturals

CONSTANTS
  Entries,    \* the resource blocks of a configuration
  Things, Hosts,
  Nowhere,    \* recorded as the host of a thing that is not attached
  NoPair,     \* no entry, in the configuration or in the state
  MaxFaults, MaxEdits

ASSUME BoundsAssumption == MaxFaults \in Nat /\ MaxEdits \in Nat

Pairs == [thing : Things, host : Hosts]
Records == [thing : Things, host : Hosts \cup {Nowhere}]

ASSUME NamesAssumption == Nowhere \notin Hosts /\ NoPair \notin Records

(* What sets the resources apart.                                          *)
Usual ==
  [single |-> FALSE,    \* a thing has one host at most
   slow |-> FALSE,      \* the service moves a thing some time later
   waits |-> FALSE,     \* and the handlers wait for that
   named |-> TRUE,      \* a detachment names the host
   records |-> FALSE,   \* Read records where the thing is
   imports |-> TRUE]
Volume ==
  [Usual EXCEPT !.single = TRUE, !.slow = TRUE, !.waits = TRUE,
                !.named = FALSE, !.records = TRUE, !.imports = FALSE]
PublicIp == [Usual EXCEPT !.single = TRUE, !.records = TRUE]
Interface == [Usual EXCEPT !.single = TRUE, !.slow = TRUE, !.imports = FALSE]
SecurityGroup == Usual
Schedule == Usual
Traits ==
  [volume |-> Volume, publicIp |-> PublicIp, interface |-> Interface,
   securityGroup |-> SecurityGroup, schedule |-> Schedule]
Kinds == DOMAIN Traits

VARIABLES
  kind,       \* the resource; it never changes
  attached,   \* the hosts each thing is attached to
  goal,       \* and those it will be, when the service has finished
  config, state,
  run,        \* idle, refresh or apply
  step,       \* where the handler of each entry is
  clean,      \* nothing failed, and nobody intervened, since the run began
  reported,   \* pairs that a failed handler or another client left behind
  faults, edits

vars == <<kind, attached, goal, config, state, run, step, clean, reported,
          faults, edits>>
service == <<attached, goal>>
user == <<kind, config, edits>>

T == Traits[kind]
Runs == {"idle", "refresh", "apply"}
Steps == {"idle", "read", "ready", "detach", "detached", "attach", "attached"}
Busy(t) == attached[t] # goal[t]
AtMostOne(hosts) == \A h, g \in hosts : h = g
PairsOf(t, hosts) == {[thing |-> t, host |-> h] : h \in hosts}

NoFault == UNCHANGED faults
Fault == faults < MaxFaults /\ faults' = faults + 1

Init ==
  /\ kind \in Kinds
  /\ attached = [t \in Things |-> {}] /\ goal = attached
  /\ config \in [Entries -> Pairs \cup {NoPair}]
  /\ state = [e \in Entries |-> NoPair]
  /\ run = "idle" /\ step = [e \in Entries |-> "idle"]
  /\ clean = FALSE /\ reported = {} /\ faults = 0 /\ edits = 0

-----------------------------------------------------------------------------
(* The user and Terraform's run.                                           *)

Edit(e) ==
  /\ run = "idle" /\ edits < MaxEdits /\ edits' = edits + 1
  /\ \E p \in Pairs \cup {NoPair} :
       p # config[e] /\ config' = [config EXCEPT ![e] = p]
  /\ clean' = FALSE
  /\ UNCHANGED <<kind, service, state, run, step, reported, faults>>

Import(e) ==
  /\ run = "idle" /\ T.imports /\ state[e] = NoPair /\ config[e] # NoPair
  /\ config[e].host \in attached[config[e].thing]
  /\ state' = [state EXCEPT ![e] = config[e]]
  /\ UNCHANGED <<user, service, run, step, clean, reported, faults>>

StartRun ==
  /\ run = "idle" /\ run' = "refresh" /\ clean' = TRUE
  /\ step' = [e \in Entries |-> IF state[e] = NoPair THEN "ready" ELSE "read"]
  /\ UNCHANGED <<user, service, state, reported, faults>>

RunStops ==
  /\ step' = [e \in Entries |-> "idle"] /\ run' = "idle" /\ clean' = FALSE
  /\ UNCHANGED <<user, service, state>>

(* One entry gives up what another claims: Terraform knows of no order     *)
(* between them.                                                           *)
Contested ==
  \E e, f \in Entries :
     /\ e # f /\ state[e] # NoPair /\ config[f] # NoPair
     /\ state[e].thing = config[f].thing
     /\ T.single \/ state[e].host = config[f].host

Plan ==
  /\ run = "refresh" /\ \A e \in Entries : step[e] = "ready"
  /\ run' = "apply" /\ clean' = (clean /\ ~Contested)
  /\ step' = [e \in Entries |-> IF state[e] = config[e] THEN "idle"
                                ELSE IF state[e] # NoPair THEN "detach"
                                ELSE "attach"]
  /\ UNCHANGED <<user, service, state, reported, faults>>

EndRun ==
  /\ run = "apply" /\ \A e \in Entries : step[e] = "idle"
  /\ run' = "idle"
  /\ UNCHANGED <<user, service, state, step, clean, reported, faults>>

(* What only a running handler knows of.                                   *)
InFlight == {config[e] : e \in {f \in Entries : step[f] = "attached"}}

Stopped ==
  /\ run # "idle" /\ Fault
  /\ reported' = reported \cup InFlight /\ RunStops

-----------------------------------------------------------------------------
(* Read: two of the resources record where the thing is now, the others    *)
(* report an attachment that is gone as an error.                          *)

ReadShowsRecord(e, hosts) == UNCHANGED state   \* bug: Read keeps what is recorded

ReadShows(e, hosts) ==
  IF state[e].host \in hosts THEN UNCHANGED state
  ELSE /\ T.records
       /\ \E h \in IF hosts = {} THEN {Nowhere} ELSE hosts :
            state' = [state EXCEPT ![e].host = h]

ReadOk(e) ==
  /\ step[e] = "read" /\ NoFault
  /\ LET t == state[e].thing
     IN  /\ \E hosts \in {attached[t], goal[t]} : ReadShows(e, hosts)
         /\ clean' = (clean /\ ~Busy(t))
  /\ step' = [step EXCEPT ![e] = "ready"]
  /\ UNCHANGED <<user, service, run, reported>>

ReadFails(e) ==
  /\ step[e] = "read"
  /\ \/ Fault
     \/ NoFault /\ ~T.records /\ state[e].host \notin attached[state[e].thing]
  /\ UNCHANGED reported /\ RunStops

-----------------------------------------------------------------------------
(* The handlers.  The others of the run go on when one of them fails.      *)

Fails(e) ==
  /\ step' = [step EXCEPT ![e] = "idle"] /\ clean' = FALSE
  /\ UNCHANGED <<user, state, run>>

(* The service changes its relation, at once or later.                     *)
Moves(t, hosts) ==
  /\ goal' = [goal EXCEPT ![t] = hosts]
  /\ attached' = IF T.slow THEN attached ELSE [attached EXCEPT ![t] = hosts]

CanAttach(p) ==
  ~Busy(p.thing) /\ (IF T.single THEN goal[p.thing] = {} ELSE TRUE)
Attach(p) == Moves(p.thing, goal[p.thing] \cup {p.host})

AttachDone(e) ==
  /\ state' = [state EXCEPT ![e] = config[e]]
  /\ step' = [step EXCEPT ![e] = "idle"]

AttachAccepted(e) ==
  /\ step[e] = "attach" /\ CanAttach(config[e]) /\ Attach(config[e]) /\ NoFault
  /\ IF T.waits THEN step' = [step EXCEPT ![e] = "attached"] /\ UNCHANGED state
     ELSE AttachDone(e)
  /\ UNCHANGED <<user, run, clean, reported>>

AttachReplyLost(e) ==
  /\ step[e] = "attach" /\ CanAttach(config[e]) /\ Attach(config[e]) /\ Fault
  /\ reported' = reported \cup {config[e]} /\ Fails(e)

(* A service may refuse a pair that is attached already.                   *)
AttachRefused(e) ==
  /\ step[e] = "attach"
  /\ \/ Fault
     \/ NoFault /\ ~CanAttach(config[e])
     \/ NoFault /\ config[e].host \in goal[config[e].thing]
  /\ Fails(e) /\ UNCHANGED <<service, reported>>

(* The wait of a volume looks for one status, and a wait that takes too    *)
(* long counts as a success: such a run is not clean, though no one says   *)
(* so.                                                                     *)
WaitEnds(e) ==
  /\ step[e] = "attached" /\ NoFault
  /\ AttachDone(e)
  /\ clean' = (clean /\ ~Busy(config[e].thing))
  /\ UNCHANGED <<user, service, run, reported>>

WaitFails(e) ==
  /\ step[e] = "attached" /\ Fault
  /\ reported' = reported \cup {config[e]} /\ Fails(e) /\ UNCHANGED service

(* A volume is detached from wherever it is, the others from their host.   *)
CanDetach(r) ==
  /\ ~Busy(r.thing)
  /\ IF T.named THEN r.host \in goal[r.thing] ELSE goal[r.thing] # {}
Detach(r) ==
  Moves(r.thing, IF T.named THEN goal[r.thing] \ {r.host} ELSE {})

DetachDoneAgain(e) ==   \* bug: every detachment is followed by an attachment
  /\ state' = [state EXCEPT ![e] = NoPair]
  /\ step' = [step EXCEPT ![e] = "attach"]

DetachDone(e) ==
  /\ state' = [state EXCEPT ![e] = NoPair]
  /\ step' = [step EXCEPT ![e] = IF config[e] = NoPair THEN "idle" ELSE "attach"]

DetachAccepted(e) ==
  /\ step[e] = "detach" /\ CanDetach(state[e]) /\ Detach(state[e]) /\ NoFault
  /\ IF T.waits THEN step' = [step EXCEPT ![e] = "detached"] /\ UNCHANGED state
     ELSE DetachDone(e)
  /\ UNCHANGED <<user, run, clean, reported>>

DetachReplyLost(e) ==
  /\ step[e] = "detach" /\ CanDetach(state[e]) /\ Detach(state[e]) /\ Fault
  /\ Fails(e) /\ UNCHANGED reported

DetachRefusedIgnored(e) ==   \* bug: a refused detachment is dropped, as for the interfaces
  /\ step[e] = "detach"
  /\ Fault \/ (NoFault /\ ~CanDetach(state[e]))
  /\ DetachDone(e) /\ UNCHANGED <<user, run, clean, service, reported>>

DetachRefused(e) ==
  /\ step[e] = "detach"
  /\ Fault \/ (NoFault /\ ~CanDetach(state[e]))
  /\ Fails(e) /\ UNCHANGED <<service, reported>>

DetachWaitEnds(e) ==
  /\ step[e] = "detached" /\ NoFault
  /\ DetachDone(e)
  /\ clean' = (clean /\ ~Busy(state[e].thing))
  /\ UNCHANGED <<user, service, run, reported>>

DetachWaitFails(e) ==
  /\ step[e] = "detached" /\ Fault
  /\ Fails(e) /\ UNCHANGED <<service, reported>>

-----------------------------------------------------------------------------
(* The service and its other clients.                                      *)

Settle(t) ==
  /\ Busy(t) /\ attached' = [attached EXCEPT ![t] = goal[t]]
  /\ UNCHANGED <<goal, user, state, run, step, clean, reported, faults>>

(* The service gives up a change.                                          *)
GivesUp(t) ==
  /\ Busy(t) /\ Fault /\ goal' = [goal EXCEPT ![t] = attached[t]]
  /\ clean' = FALSE /\ reported' = reported \cup PairsOf(t, attached[t])
  /\ UNCHANGED <<attached, user, state, run, step>>

Drift(t) ==
  /\ ~Busy(t) /\ Fault
  /\ \E hosts \in SUBSET Hosts :
       /\ hosts # goal[t] /\ (T.single => AtMostOne(hosts))
       /\ goal' = [goal EXCEPT ![t] = hosts]
       /\ attached' = [attached EXCEPT ![t] = hosts]
       /\ reported' = reported \cup PairsOf(t, hosts \ goal[t])
  /\ clean' = FALSE
  /\ UNCHANGED <<user, state, run, step>>

Handlers(e) ==
  \/ ReadOk(e) \/ ReadFails(e)
  \/ AttachAccepted(e) \/ AttachReplyLost(e) \/ AttachRefused(e)
  \/ WaitEnds(e) \/ WaitFails(e)
  \/ DetachAccepted(e) \/ DetachReplyLost(e) \/ DetachRefused(e)
  \/ DetachWaitEnds(e) \/ DetachWaitFails(e)

Next ==
  \/ \E e \in Entries : Edit(e) \/ Import(e) \/ Handlers(e)
  \/ StartRun \/ Plan \/ EndRun \/ Stopped
  \/ \E t \in Things : Settle(t) \/ GivesUp(t) \/ Drift(t)

Spec == Init /\ [][Next]_vars

-----------------------------------------------------------------------------
(* Properties                                                              *)

TypeOK ==
  /\ kind \in Kinds
  /\ attached \in [Things -> SUBSET Hosts] /\ goal \in [Things -> SUBSET Hosts]
  /\ config \in [Entries -> Pairs \cup {NoPair}]
  /\ state \in [Entries -> Records \cup {NoPair}]
  /\ run \in Runs /\ step \in [Entries -> Steps]
  /\ \A e \in Entries :
       /\ step[e] \in {"read", "detach", "detached"} => state[e] # NoPair
       /\ step[e] \in {"attach", "attached"} => config[e] # NoPair
  /\ run = "idle" => \A e \in Entries : step[e] = "idle"
  /\ clean \in BOOLEAN /\ reported \subseteq Pairs
  /\ faults \in 0 .. MaxFaults /\ edits \in 0 .. MaxEdits

(* What is attached is in the state, in the hands of a running handler, or *)
(* was left behind by a run that reported an error or by someone else: no  *)
(* handler forgets an attachment in silence.  Where Read follows a thing   *)
(* to its host, an entry that names the thing is enough.                   *)
Remembered(p) ==
  \/ p \in reported \cup InFlight
  \/ \E e \in Entries :
       /\ state[e] # NoPair /\ state[e].thing = p.thing
       /\ T.records \/ state[e] = p
NothingForgotten ==
  \A p \in Pairs : p.host \in goal[p.thing] => Remembered(p)

(* After a run in which nothing failed, nobody intervened, no wait ran out *)
(* of time and no entry gave up what another claims, every entry's thing   *)
(* is attached as configured and recorded so, and each entry that is not   *)
(* configured any more has left the state.                                 *)
SuccessMeansAttached ==
  run = "idle" /\ clean =>
    \A e \in Entries :
       /\ state[e] = config[e]
       /\ config[e] # NoPair => config[e].host \in goal[config[e].thing]

=============================================================================
