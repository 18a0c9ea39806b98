--------------------------- MODULE AttachmentsProofs ---------------------------
(***************************************************************************)
(* That no attachment is forgotten in silence, for any number of entries,  *)
(* things and hosts.                                                       *)
(***************************************************************************)
EXTENDS Attachments, TLAPS

(* Where the handlers are in a run: they refresh first, then apply; one    *)
(* that attaches has nothing recorded, and only those of a volume wait.    *)
Phases ==
  \A e \in Entries :
    /\ run = "refresh" => step[e] \in {"read", "ready"}
    /\ run = "apply" => step[e] \notin {"read", "ready"}
    /\ step[e] \in {"attach", "attached"} => state[e] = NoPair
    /\ step[e] \in {"attached", "detached"} => T.waits

(* A thing of a single host is never on its way to a second one.           *)
Singles ==
  T.single => \A t \in Things : AtMostOne(goal[t]) /\ AtMostOne(attached[t])

(* An entry whose detachment is being waited for is about to forget its    *)
(* thing: wherever that thing is going by now is remembered elsewhere.     *)
Elsewhere(p) ==
  \/ p \in reported \cup InFlight
  \/ \E f \in Entries : /\ state[f] # NoPair /\ state[f].thing = p.thing
                        /\ step[f] # "detached"
Letting ==
  \A e \in Entries, p \in Pairs :
    step[e] = "detached" /\ state[e].thing = p.thing /\ p.host \in goal[p.thing]
      => Elsewhere(p)

Shape == TypeOK /\ Phases /\ Singles
Inv == Shape /\ NothingForgotten /\ Letting

-----------------------------------------------------------------------------
(* The five resources.                                                     *)

LEMMA KindFacts ==
  ASSUME kind \in Kinds
  PROVE  /\ T.waits => T.records /\ ~T.named /\ T.single
         /\ ~T.named => T.waits
         /\ T.records => T.single
<1> USE DEF T, Traits, Usual, Volume, PublicIp, Interface, SecurityGroup, Schedule
<1>1. kind \in {"volume", "publicIp", "interface", "securityGroup", "schedule"}
  BY DEF Kinds
<1>2. CASE kind = "volume"        BY <1>2
<1>3. CASE kind = "publicIp"      BY <1>3
<1>4. CASE kind = "interface"     BY <1>4
<1>5. CASE kind \in {"securityGroup", "schedule"}  BY <1>5
<1> QED BY <1>1, <1>2, <1>3, <1>4, <1>5

LEMMA PairFacts ==
  /\ Pairs \subseteq Records /\ NoPair \notin Pairs
  /\ \A r \in Records : r.thing \in Things
  /\ \A p \in Pairs : p.thing \in Things /\ p.host \in Hosts
  /\ \A p, q \in Pairs : p.thing = q.thing /\ p.host = q.host => p = q
  BY NamesAssumption DEF Pairs, Records

LEMMA PairsOfFacts ==
  ASSUME NEW t \in Things, NEW hosts \in SUBSET Hosts, NEW p \in PairsOf(t, hosts)
  PROVE  p \in Pairs /\ p.thing = t /\ p.host \in hosts
  BY DEF PairsOf, Pairs

LEMMA InitShape == Init => Shape
<1> SUFFICES ASSUME Init PROVE Shape
  OBVIOUS
<1>1. TypeOK
  <2>1. /\ attached \in [Things -> SUBSET Hosts] /\ goal \in [Things -> SUBSET Hosts]
        /\ state \in [Entries -> Records \cup {NoPair}]
        /\ step \in [Entries -> Steps]
    BY DEF Init, Steps
  <2>2. \A e \in Entries : step[e] = "idle"
    BY DEF Init
  <2>3. /\ kind \in Kinds /\ config \in [Entries -> Pairs \cup {NoPair}]
        /\ run = "idle" /\ clean \in BOOLEAN /\ reported \subseteq Pairs
    BY Zenon DEF Init
  <2>4. faults \in 0 .. MaxFaults /\ edits \in 0 .. MaxEdits
    BY BoundsAssumption DEF Init
  <2> QED BY <2>1, <2>2, <2>3, <2>4 DEF TypeOK, Runs
<1>2. Phases /\ Singles
  BY DEF Init, Phases, Singles, AtMostOne
<1> QED BY <1>1, <1>2 DEF Shape

LEMMA FaultType ==
  ASSUME faults \in 0 .. MaxFaults, Fault \/ NoFault
  PROVE  faults' \in 0 .. MaxFaults
  BY BoundsAssumption DEF Fault, NoFault

LEMMA UserShape ==
  ASSUME Shape, (\E e \in Entries : Edit(e) \/ Import(e)) \/ StartRun \/ Plan \/ EndRun \/ Stopped
  PROVE  Shape'
<1> USE DEF Shape, TypeOK, Phases, Singles, user, service, T
<1>1. ASSUME NEW e \in Entries, Edit(e) PROVE Shape'
  <2>1. config' \in [Entries -> Pairs \cup {NoPair}] /\ edits' \in 0 .. MaxEdits
    BY <1>1, BoundsAssumption DEF Edit
  <2>2. /\ UNCHANGED <<kind, attached, goal, state, run, step, reported, faults>>
        /\ run = "idle" /\ clean' = FALSE
    BY <1>1 DEF Edit
  <2> QED BY <2>1, <2>2
<1>2. ASSUME NEW e \in Entries, Import(e) PROVE Shape'
  BY <1>2, PairFacts DEF Import, Steps
<1>3. CASE StartRun
  BY <1>3 DEF StartRun, Runs, Steps
<1>4. CASE Plan
  BY <1>4, PairFacts DEF Plan, Runs, Steps
<1>5. CASE EndRun
  BY <1>5 DEF EndRun, Runs, Steps
<1>6. CASE Stopped
  BY <1>6, FaultType DEF Stopped, RunStops, InFlight, Runs, Steps
<1> QED BY <1>1, <1>2, <1>3, <1>4, <1>5, <1>6

(* A change of the relation keeps its type.                                *)
LEMMA MovesShape ==
  ASSUME Shape, NEW t \in Things, NEW hosts \in SUBSET Hosts, Moves(t, hosts),
         T.single => AtMostOne(hosts), UNCHANGED kind
  PROVE  /\ attached' \in [Things -> SUBSET Hosts] /\ goal' \in [Things -> SUBSET Hosts]
         /\ Singles'
  BY DEF Shape, TypeOK, Singles, Moves, T

(* Read keeps the entries it looks at, and what they name.                 *)
LEMMA ReadKeeps ==
  ASSUME Shape, NEW e \in Entries, ReadOk(e)
  PROVE  /\ state' \in [Entries -> Records \cup {NoPair}]
         /\ \A f \in Entries : state[f] # NoPair =>
              state'[f] # NoPair /\ state'[f].thing = state[f].thing
<1> USE DEF Shape, TypeOK
<1>1. state[e] \in Records
  BY DEF ReadOk
<1>2. PICK hosts \in SUBSET Hosts : ReadShows(e, hosts)
  BY <1>1, PairFacts DEF ReadOk
<1>3. ASSUME NEW h \in Hosts \cup {Nowhere}, state' = [state EXCEPT ![e].host = h]
      PROVE  \E r \in Records : r.thing = state[e].thing /\ state' = [state EXCEPT ![e] = r]
  <2>1. [state[e] EXCEPT !.host = h] \in Records
        /\ [state[e] EXCEPT !.host = h].thing = state[e].thing
    BY <1>1 DEF Records
  <2> QED BY <1>3, <2>1
<1>4. CASE UNCHANGED state
  BY <1>4
<1>5. CASE ~UNCHANGED state
  <2>1. \E h \in Hosts \cup {Nowhere} : state' = [state EXCEPT ![e].host = h]
    BY <1>2, <1>5 DEF ReadShows
  <2>2. PICK r \in Records : r.thing = state[e].thing /\ state' = [state EXCEPT ![e] = r]
    BY <1>3, <2>1
  <2> QED BY <2>2, NamesAssumption
<1> QED BY <1>4, <1>5

LEMMA HandlersShape ==
  ASSUME Shape, NEW e \in Entries, Handlers(e)
  PROVE  Shape'
<1> USE DEF Shape, TypeOK
<1>0. faults' \in 0 .. MaxFaults
  BY FaultType DEF Handlers, ReadOk, ReadFails, AttachAccepted, AttachReplyLost,
     AttachRefused, WaitEnds, WaitFails, DetachAccepted, DetachReplyLost,
     DetachRefused, DetachWaitEnds, DetachWaitFails
<1>1. CASE ReadOk(e)
  <2>1. state' \in [Entries -> Records \cup {NoPair}]
        /\ \A f \in Entries : state[f] # NoPair => state'[f] # NoPair
    BY <1>1, ReadKeeps
  <2>2. \A f \in Entries : state[f] = NoPair /\ step[f] # "read" => state'[f] = NoPair
    BY <1>1 DEF ReadOk, ReadShows
  <2> QED BY <1>0, <1>1, <2>1, <2>2 DEF ReadOk, user, service, Phases, Singles, T, Steps
<1>2. CASE ReadFails(e)
  BY <1>0, <1>2 DEF ReadFails, RunStops, user, service, Phases, Singles, T, Steps, Runs
<1>3. ASSUME step[e] \in {"attach", "attached"}
      PROVE  config[e] \in Pairs /\ config[e] \in Records /\ state[e] = NoPair
  BY <1>3, PairFacts DEF Phases
<1>4. ASSUME step[e] = "attach", CanAttach(config[e]), Attach(config[e]), UNCHANGED kind
      PROVE  /\ attached' \in [Things -> SUBSET Hosts]
             /\ goal' \in [Things -> SUBSET Hosts] /\ Singles'
  <2>1. /\ config[e].thing \in Things
        /\ goal[config[e].thing] \cup {config[e].host} \in SUBSET Hosts
        /\ T.single => AtMostOne(goal[config[e].thing] \cup {config[e].host})
    BY <1>3, <1>4, PairFacts DEF CanAttach, AtMostOne
  <2> QED BY <1>4, <2>1, MovesShape DEF Attach
<1>5. CASE AttachAccepted(e)
  <2>1. TypeOK'
    BY <1>0, <1>3, <1>4, <1>5 DEF AttachAccepted, AttachDone, user, Steps
  <2>2. Phases'
    BY <1>5 DEF AttachAccepted, AttachDone, user, Phases, T
  <2> QED BY <1>4, <1>5, <2>1, <2>2 DEF AttachAccepted, user
<1>6. CASE AttachReplyLost(e)
  <2>1. TypeOK'
    BY <1>0, <1>3, <1>4, <1>6 DEF AttachReplyLost, Fails, user, Steps
  <2>2. Phases'
    BY <1>6 DEF AttachReplyLost, Fails, user, Phases, T
  <2> QED BY <1>4, <1>6, <2>1, <2>2 DEF AttachReplyLost, Fails, user
<1>7. CASE AttachRefused(e) \/ DetachRefused(e) \/ DetachWaitFails(e)
  BY <1>0, <1>7 DEF AttachRefused, DetachRefused, DetachWaitFails, Fails, user,
     service, Phases, Singles, T, Steps
<1>8. CASE WaitEnds(e)
  <2>1. TypeOK'
    BY <1>0, <1>3, <1>8 DEF WaitEnds, AttachDone, user, service, Steps
  <2>2. Phases' /\ Singles'
    BY <1>8 DEF WaitEnds, AttachDone, user, service, Phases, Singles, T
  <2> QED BY <2>1, <2>2
<1>9. CASE WaitFails(e)
  BY <1>0, <1>3, <1>9 DEF WaitFails, Fails, user, service, Phases, Singles, T, Steps
<1>10. ASSUME step[e] = "detach", Detach(state[e]), UNCHANGED kind
       PROVE  /\ attached' \in [Things -> SUBSET Hosts]
              /\ goal' \in [Things -> SUBSET Hosts] /\ Singles'
  <2>1. state[e].thing \in Things
    BY <1>10, PairFacts
  <2>2. \A hosts \in SUBSET goal[state[e].thing] :
          hosts \in SUBSET Hosts /\ (T.single => AtMostOne(hosts))
    BY <2>1 DEF Singles, AtMostOne
  <2> QED BY <1>10, <2>1, <2>2, MovesShape DEF Detach
<1>11. CASE DetachAccepted(e)
  <2>1. TypeOK'
    BY <1>0, <1>10, <1>11 DEF DetachAccepted, DetachDone, user, Steps
  <2>2. Phases'
    BY <1>11 DEF DetachAccepted, DetachDone, user, Phases, T
  <2> QED BY <1>10, <1>11, <2>1, <2>2 DEF DetachAccepted, user
<1>12. CASE DetachReplyLost(e)
  <2>1. TypeOK'
    BY <1>0, <1>10, <1>12 DEF DetachReplyLost, Fails, user, Steps
  <2>2. Phases'
    BY <1>12 DEF DetachReplyLost, Fails, user, Phases, T
  <2> QED BY <1>10, <1>12, <2>1, <2>2 DEF DetachReplyLost, Fails, user
<1>13. CASE DetachWaitEnds(e)
  <2>1. TypeOK'
    BY <1>0, <1>13 DEF DetachWaitEnds, DetachDone, user, service, Steps
  <2>2. Phases' /\ Singles'
    BY <1>13 DEF DetachWaitEnds, DetachDone, user, service, Phases, Singles, T
  <2> QED BY <2>1, <2>2
<1> QED BY <1>1, <1>2, <1>5, <1>6, <1>7, <1>8, <1>9, <1>11, <1>12, <1>13 DEF Handlers

LEMMA ServiceShape ==
  ASSUME Shape, NEW t \in Things, Settle(t) \/ GivesUp(t) \/ Drift(t)
  PROVE  Shape'
<1> USE DEF Shape, TypeOK, user
<1>0. faults' \in 0 .. MaxFaults
  BY FaultType DEF Settle, GivesUp, Drift, NoFault
<1>1. \A hosts \in SUBSET Hosts : PairsOf(t, hosts) \subseteq Pairs
  BY PairsOfFacts
<1>2. CASE Settle(t)
  BY <1>2 DEF Settle, Phases, Singles, T
<1>3. CASE GivesUp(t)
  BY <1>0, <1>1, <1>3 DEF GivesUp, Phases, Singles, T
<1>4. CASE Drift(t)
  <2>1. PICK hosts \in SUBSET Hosts :
          /\ T.single => AtMostOne(hosts)
          /\ goal' = [goal EXCEPT ![t] = hosts]
          /\ attached' = [attached EXCEPT ![t] = hosts]
          /\ reported' = reported \cup PairsOf(t, hosts \ goal[t])
    BY <1>4 DEF Drift
  <2>2. PairsOf(t, hosts \ goal[t]) \subseteq Pairs
    BY <1>1
  <2>3. Singles'
    BY <1>4, <2>1 DEF Drift, Singles, T
  <2>4. TypeOK' /\ Phases'
    BY <1>0, <1>4, <2>1, <2>2 DEF Drift, Phases, T
  <2> QED BY <2>3, <2>4
<1> QED BY <1>2, <1>3, <1>4
-----------------------------------------------------------------------------
(* Nothing is forgotten.                                                   *)

LEMMA InFlightFacts ==
  \A p : p \in InFlight <=> \E e \in Entries : step[e] = "attached" /\ config[e] = p
  BY DEF InFlight

(* Where the relation and the state stay as they are, it is enough that    *)
(* what was in flight is reported when it is not any more.                 *)
LEMMA SameRelation ==
  ASSUME Inv, UNCHANGED <<goal, state, kind>>, reported \subseteq reported',
         \A p \in InFlight : p \in reported' \cup InFlight',
         \A e \in Entries : step'[e] = "detached" <=> step[e] = "detached"
  PROVE  NothingForgotten' /\ Letting'
  BY DEF Inv, NothingForgotten, Remembered, Letting, Elsewhere, T

LEMMA InitMemory == Init => NothingForgotten /\ Letting
  BY PairFacts DEF Init, NothingForgotten, Letting

LEMMA UserMemory ==
  ASSUME Inv, (\E e \in Entries : Edit(e) \/ Import(e)) \/ StartRun \/ Plan \/ EndRun \/ Stopped
  PROVE  NothingForgotten' /\ Letting'
<1> USE DEF user, service
<1>0. /\ run = "idle" => \A e \in Entries : step[e] = "idle"
      /\ run = "refresh" => \A e \in Entries : step[e] \in {"read", "ready"}
      /\ state \in [Entries -> Records \cup {NoPair}]
      /\ step \in [Entries -> Steps] /\ config \in [Entries -> Pairs \cup {NoPair}]
  BY DEF Inv, Shape, TypeOK, Phases
<1>1. ASSUME NEW e \in Entries, Edit(e) PROVE NothingForgotten' /\ Letting'
  BY <1>0, <1>1, SameRelation DEF Edit, InFlight
<1>2. ASSUME NEW e \in Entries, Import(e) PROVE NothingForgotten' /\ Letting'
  <2>1. /\ UNCHANGED <<goal, kind, step, config, reported>>
        /\ \A f \in Entries : state[f] # NoPair => state'[f] = state[f]
        /\ \A f \in Entries : step[f] = "idle"
    BY <1>0, <1>2 DEF Import
  <2>2. InFlight' = {}
    BY <2>1 DEF InFlight
  <2> QED BY <2>1, <2>2 DEF Inv, NothingForgotten, Remembered, Letting, InFlight, T
<1>3. CASE StartRun
  BY <1>0, <1>3, SameRelation DEF StartRun, InFlight
<1>4. CASE Plan
  BY <1>0, <1>4, SameRelation DEF Plan, InFlight
<1>5. CASE EndRun
  BY <1>5, SameRelation DEF EndRun, InFlight
<1>6. CASE Stopped
  <2>1. InFlight \subseteq reported'
    BY <1>6 DEF Stopped
  <2>2. UNCHANGED <<goal, state, kind>> /\ \A e \in Entries : step'[e] = "idle"
    BY <1>6 DEF Stopped, RunStops
  <2>3. reported \subseteq reported'
    BY <1>6 DEF Stopped
  <2> QED BY <2>1, <2>2, <2>3 DEF Inv, NothingForgotten, Remembered, Letting, T
<1> QED BY <1>1, <1>2, <1>3, <1>4, <1>5, <1>6
LEMMA ReadMemory ==
  ASSUME Inv, NEW e \in Entries, ReadOk(e) \/ ReadFails(e)
  PROVE  NothingForgotten' /\ Letting'
<1>1. run = "refresh"
  BY DEF Inv, Shape, TypeOK, Runs, Phases, ReadOk, ReadFails
<1>2. \A f \in Entries : step[f] \in {"read", "ready"}
  BY <1>1 DEF Inv, Shape, Phases
<1>3. CASE ReadOk(e)
  <2>1. \A f \in Entries : step'[f] \in {"read", "ready"}
    BY <1>2, <1>3 DEF ReadOk, Inv, Shape, TypeOK
  <2>2. UNCHANGED <<goal, kind, config, reported>>
    BY <1>3 DEF ReadOk, user, service
  <2>3. CASE UNCHANGED state
    BY <1>2, <2>1, <2>2, <2>3, SameRelation DEF InFlight
  <2>4. CASE ~UNCHANGED state
    <3>1. T.records
      BY <1>3, <2>4 DEF ReadOk, ReadShows
    <3>2. \A f \in Entries : state[f] # NoPair =>
             state'[f] # NoPair /\ state'[f].thing = state[f].thing
      BY <1>3, ReadKeeps DEF Inv
    <3> QED BY <1>2, <2>1, <2>2, <3>1, <3>2
         DEF Inv, NothingForgotten, Remembered, Letting, InFlight, T
  <2> QED BY <2>3, <2>4
<1>4. CASE ReadFails(e)
  BY <1>2, <1>4, SameRelation DEF ReadFails, RunStops, InFlight, user, service
<1> QED BY <1>3, <1>4

LEMMA AttachMemory ==
  ASSUME Inv, NEW e \in Entries,
         \/ AttachAccepted(e) \/ AttachReplyLost(e) \/ AttachRefused(e)
         \/ WaitEnds(e) \/ WaitFails(e)
  PROVE  NothingForgotten' /\ Letting'
<1> USE DEF Inv, Shape, TypeOK, user, service
<1>0. /\ config[e] \in Pairs /\ config[e] \in Records /\ state[e] = NoPair
      /\ UNCHANGED <<kind, config>>
  BY PairFacts DEF Phases, AttachAccepted, AttachReplyLost, AttachRefused, WaitEnds,
     WaitFails, Fails
<1>1. ASSUME Attach(config[e])
      PROVE  \A p \in Pairs : p.host \in goal'[p.thing] =>
                p.host \in goal[p.thing] \/ p = config[e]
  BY <1>0, <1>1, PairFacts DEF Attach, Moves
<1>2. CASE AttachAccepted(e) /\ T.waits
  <2>1. /\ UNCHANGED <<state, reported>> /\ Attach(config[e])
        /\ step' = [step EXCEPT ![e] = "attached"]
    BY <1>2 DEF AttachAccepted
  <2>2. InFlight \subseteq InFlight' /\ config[e] \in InFlight'
    BY <1>0, <1>2, <2>1 DEF InFlight, AttachAccepted
  <2> QED BY <1>0, <1>1, <2>1, <2>2, PairFacts
       DEF NothingForgotten, Remembered, Letting, Elsewhere, T
<1>3. CASE AttachAccepted(e) /\ ~T.waits
  <2>1. /\ UNCHANGED reported /\ Attach(config[e])
        /\ state' = [state EXCEPT ![e] = config[e]]
        /\ step' = [step EXCEPT ![e] = "idle"]
    BY <1>3 DEF AttachAccepted, AttachDone
  <2>2. InFlight \subseteq InFlight'
    BY <1>0, <1>3, <2>1 DEF InFlight, AttachAccepted
  <2>3. NothingForgotten'
    BY <1>0, <1>1, <2>1, <2>2, PairFacts, NamesAssumption
    DEF NothingForgotten, Remembered, T
  <2>4. Letting'
    BY <1>0, <1>3, <2>1 DEF Letting, Phases
  <2> QED BY <2>3, <2>4
<1>4. CASE AttachReplyLost(e)
  <2>1. /\ UNCHANGED state /\ Attach(config[e])
        /\ reported' = reported \cup {config[e]}
        /\ step' = [step EXCEPT ![e] = "idle"] /\ step[e] = "attach"
    BY <1>4 DEF AttachReplyLost, Fails
  <2>2. InFlight \subseteq InFlight'
    BY <1>0, <2>1 DEF InFlight
  <2> QED BY <1>0, <1>1, <2>1, <2>2, PairFacts
       DEF NothingForgotten, Remembered, Letting, Elsewhere, T
<1>5. CASE AttachRefused(e)
  BY <1>5, SameRelation DEF AttachRefused, Fails, InFlight
<1>6. CASE WaitEnds(e)
  <2>1. /\ UNCHANGED <<reported, goal>>
        /\ state' = [state EXCEPT ![e] = config[e]]
        /\ step' = [step EXCEPT ![e] = "idle"] /\ step[e] = "attached"
    BY <1>6 DEF WaitEnds, AttachDone
  <2>2. \A p \in InFlight : p \in InFlight' \/ p = config[e]
    BY <1>0, <2>1 DEF InFlight
  <2> QED BY <1>0, <2>1, <2>2, PairFacts, NamesAssumption
       DEF NothingForgotten, Remembered, Letting, Elsewhere, T
<1>7. CASE WaitFails(e)
  <2>1. /\ UNCHANGED <<goal, state>> /\ reported' = reported \cup {config[e]}
        /\ step' = [step EXCEPT ![e] = "idle"] /\ step[e] = "attached"
    BY <1>7 DEF WaitFails, Fails
  <2>2. \A p \in InFlight : p \in InFlight' \/ p = config[e]
    BY <1>0, <2>1 DEF InFlight
  <2> QED BY <1>0, <2>1, <2>2, SameRelation
<1> QED BY <1>2, <1>3, <1>4, <1>5, <1>6, <1>7
(* A detachment takes the pair it names away, or everything of its thing.  *)
LEMMA DetachFacts ==
  ASSUME Inv, NEW e \in Entries, step[e] = "detach", CanDetach(state[e]),
         Detach(state[e])
  PROVE  /\ \A p \in Pairs : p.host \in goal'[p.thing] => p.host \in goal[p.thing]
         /\ \A p \in Pairs : p.host \in goal'[p.thing] /\ p.thing = state[e].thing =>
              ~T.records /\ p # state[e]
<1> USE DEF Inv, Shape, TypeOK
<1>1. state[e] \in Records /\ state[e].thing \in Things
  BY PairFacts
<1>2. goal' = [goal EXCEPT ![state[e].thing] =
                 IF T.named THEN goal[state[e].thing] \ {state[e].host} ELSE {}]
  BY DEF Detach, Moves
<1>3. T.records /\ T.named => goal[state[e].thing] \ {state[e].host} = {}
  BY <1>1, KindFacts DEF Singles, AtMostOne, CanDetach
<1> QED BY <1>1, <1>2, <1>3, PairFacts

LEMMA DetachMemory ==
  ASSUME Inv, NEW e \in Entries,
         \/ DetachAccepted(e) \/ DetachReplyLost(e) \/ DetachRefused(e)
         \/ DetachWaitEnds(e) \/ DetachWaitFails(e)
  PROVE  NothingForgotten' /\ Letting'
<1> USE DEF Inv, Shape, TypeOK, user, service
<1>0. state[e] \in Records /\ UNCHANGED <<kind, config>>
  BY DEF DetachAccepted, DetachReplyLost, DetachRefused, DetachWaitEnds,
     DetachWaitFails, Fails
<1>1. CASE DetachAccepted(e) /\ T.waits
  <2>1. /\ UNCHANGED <<state, reported>> /\ step[e] = "detach"
        /\ step' = [step EXCEPT ![e] = "detached"]
        /\ CanDetach(state[e]) /\ Detach(state[e])
    BY <1>1 DEF DetachAccepted
  <2>2. InFlight' = InFlight
    BY <1>0, <2>1 DEF InFlight
  <2>3. \A p \in Pairs : p.host \in goal'[p.thing] =>
          p.host \in goal[p.thing] /\ p.thing # state[e].thing
    BY <1>1, <2>1, DetachFacts, KindFacts
  <2> QED BY <1>0, <2>1, <2>2, <2>3
       DEF NothingForgotten, Remembered, Letting, Elsewhere, T
<1>2. CASE DetachAccepted(e) /\ ~T.waits
  <2>1. /\ UNCHANGED reported /\ step[e] = "detach"
        /\ state' = [state EXCEPT ![e] = NoPair]
        /\ step' = [step EXCEPT ![e] = IF config[e] = NoPair THEN "idle" ELSE "attach"]
        /\ CanDetach(state[e]) /\ Detach(state[e])
    BY <1>2 DEF DetachAccepted, DetachDone
  <2>2. InFlight' = InFlight
    BY <1>0, <2>1 DEF InFlight
  <2>3. NothingForgotten'
    BY <1>0, <2>1, <2>2, DetachFacts DEF NothingForgotten, Remembered, T
  <2>4. Letting'
    BY <1>0, <1>2, <2>1 DEF Letting, Phases
  <2> QED BY <2>3, <2>4
<1>3. CASE DetachReplyLost(e)
  <2>1. /\ UNCHANGED <<state, reported>> /\ step[e] = "detach"
        /\ step' = [step EXCEPT ![e] = "idle"]
        /\ CanDetach(state[e]) /\ Detach(state[e])
    BY <1>3 DEF DetachReplyLost, Fails
  <2>2. InFlight' = InFlight
    BY <1>0, <2>1 DEF InFlight
  <2> QED BY <1>0, <2>1, <2>2, DetachFacts
       DEF NothingForgotten, Remembered, Letting, Elsewhere, T
<1>4. CASE DetachRefused(e)
  BY <1>4, SameRelation DEF DetachRefused, Fails, InFlight
<1>5. CASE DetachWaitEnds(e)
  <2>1. /\ UNCHANGED <<reported, goal>> /\ step[e] = "detached" /\ T.records
        /\ state' = [state EXCEPT ![e] = NoPair]
        /\ step' = [step EXCEPT ![e] = IF config[e] = NoPair THEN "idle" ELSE "attach"]
    BY <1>5, KindFacts DEF DetachWaitEnds, DetachDone, Phases
  <2>2. InFlight' = InFlight
    BY <1>0, <2>1 DEF InFlight
  <2>3. \A p \in Pairs : Elsewhere(p) => Elsewhere(p)'
    BY <1>0, <2>1, <2>2 DEF Elsewhere
  <2>4. NothingForgotten'
    <3> SUFFICES ASSUME NEW p \in Pairs, p.host \in goal[p.thing]
                 PROVE  Remembered(p)'
      BY <2>1 DEF NothingForgotten
    <3>1. CASE p.thing = state[e].thing
      BY <1>0, <2>1, <2>3, <3>1 DEF Letting, Elsewhere, Remembered, T
    <3>2. CASE p.thing # state[e].thing
      BY <1>0, <2>1, <2>2, <3>2 DEF NothingForgotten, Remembered, T
    <3> QED BY <3>1, <3>2
  <2>5. Letting'
    BY <1>0, <2>1, <2>3 DEF Letting
  <2> QED BY <2>4, <2>5
<1>6. CASE DetachWaitFails(e)
  <2>1. /\ UNCHANGED <<goal, state, reported>> /\ step[e] = "detached"
        /\ step' = [step EXCEPT ![e] = "idle"]
    BY <1>6 DEF DetachWaitFails, Fails
  <2>2. InFlight' = InFlight
    BY <1>0, <2>1 DEF InFlight
  <2> QED BY <1>0, <2>1, <2>2 DEF NothingForgotten, Remembered, Letting, Elsewhere, T
<1> QED BY <1>1, <1>2, <1>3, <1>4, <1>5, <1>6

LEMMA ServiceMemory ==
  ASSUME Inv, NEW t \in Things, Settle(t) \/ GivesUp(t) \/ Drift(t)
  PROVE  NothingForgotten' /\ Letting'
<1> USE DEF Inv, Shape, TypeOK, user
<1>1. CASE Settle(t)
  BY <1>1, SameRelation DEF Settle, InFlight
<1>2. ASSUME NEW hosts \in SUBSET Hosts, goal' = [goal EXCEPT ![t] = hosts],
             UNCHANGED <<kind, config, state, step>>, reported \subseteq reported',
             \A h \in hosts : h \in goal[t] \/ [thing |-> t, host |-> h] \in reported'
      PROVE  NothingForgotten' /\ Letting'
  <2>1. \A p \in Pairs : p.host \in goal'[p.thing] =>
          p.host \in goal[p.thing] \/ p \in reported'
    BY <1>2 DEF Pairs
  <2>2. InFlight' = InFlight
    BY <1>2 DEF InFlight
  <2> QED BY <1>2, <2>1, <2>2 DEF NothingForgotten, Remembered, Letting, Elsewhere, T
<1>3. CASE GivesUp(t)
  BY <1>2, <1>3 DEF GivesUp, PairsOf
<1>4. CASE Drift(t)
  <2>1. PICK hosts \in SUBSET Hosts :
          /\ goal' = [goal EXCEPT ![t] = hosts]
          /\ reported' = reported \cup PairsOf(t, hosts \ goal[t])
    BY <1>4 DEF Drift
  <2>2. UNCHANGED <<kind, config, state, step>>
    BY <1>4 DEF Drift
  <2> QED BY <1>2, <2>1, <2>2 DEF PairsOf
<1> QED BY <1>1, <1>3, <1>4

LEMMA NextInv == Inv /\ [Next]_vars => Inv'
<1> SUFFICES ASSUME Inv, [Next]_vars PROVE Inv'
  OBVIOUS
<1>1. CASE \/ \E e \in Entries : Edit(e) \/ Import(e)
           \/ StartRun \/ Plan \/ EndRun \/ Stopped
  BY <1>1, UserShape, UserMemory DEF Inv
<1>2. ASSUME NEW e \in Entries, Handlers(e) PROVE Inv'
  BY <1>2, HandlersShape, ReadMemory, AttachMemory, DetachMemory DEF Inv, Handlers
<1>3. ASSUME NEW t \in Things, Settle(t) \/ GivesUp(t) \/ Drift(t) PROVE Inv'
  BY <1>3, ServiceShape, ServiceMemory DEF Inv
<1>4. CASE UNCHANGED vars
  BY <1>4 DEF vars, Inv, Shape, TypeOK, Phases, Singles, NothingForgotten, Remembered,
     Letting, Elsewhere, InFlight, T
<1> QED BY <1>1, <1>2, <1>3, <1>4 DEF Next

LEMMA Invariant == Spec => []Inv
<1>1. Init => Inv
  BY InitShape, InitMemory DEF Inv
<1> QED BY <1>1, NextInv, PTL DEF Spec

(* The variables keep their types, and a handler runs on what it needs: a  *)
(* detachment on a recorded pair, an attachment on a configured one.       *)
THEOREM AttachmentTypes == Spec => []TypeOK
<1>1. Inv => TypeOK
  BY DEF Inv, Shape
<1> QED BY <1>1, Invariant, PTL

(* For any number of entries, things and hosts, what is attached is in the *)
(* state, in the hands of a running handler, or was reported (the order of *)
(* request, wait and record in the attachment handlers).                   *)
THEOREM NoneForgotten == Spec => []NothingForgotten
<1>1. Inv => NothingForgotten
  BY DEF Inv
<1> QED BY <1>1, Invariant, PTL

-----------------------------------------------------------------------------
(* A run in which nothing failed.                                          *)

(* The thing of the pair an entry is configured with, or recorded with, is *)
(* on its host; what an entry gives up is nobody else's.                   *)
Holds(p) == p # NoPair => p.host \in goal[p.thing]
Uncontested(e) ==
  \A f \in Entries : f # e /\ config[f] # NoPair /\ state[e].thing = config[f].thing
    => ~T.single /\ state[e].host # config[f].host
Orderly ==
  clean =>
    /\ run = "refresh" => \A e \in Entries : step[e] = "ready" =>
         Holds(state[e]) \/ state[e].host = Nowhere
    /\ run = "apply" => \A e \in Entries :
         /\ step[e] = "idle" => state[e] = config[e]
         /\ step[e] \in {"idle", "attached"} => Holds(config[e])
         /\ step[e] \in {"detach", "detached"} => Uncontested(e)
CleanInv == Shape /\ Orderly /\ SuccessMeansAttached

LEMMA UserOrder ==
  ASSUME CleanInv,
         (\E e \in Entries : Edit(e) \/ Import(e)) \/ StartRun \/ Plan \/ EndRun \/ Stopped
  PROVE  Orderly' /\ SuccessMeansAttached'
<1> USE DEF CleanInv, Shape, TypeOK, user, service
<1>1. ASSUME NEW e \in Entries, Edit(e) PROVE Orderly' /\ SuccessMeansAttached'
  BY <1>1 DEF Edit, Orderly, SuccessMeansAttached
<1>2. ASSUME NEW e \in Entries, Import(e) PROVE Orderly' /\ SuccessMeansAttached'
  <2>1. ~clean /\ clean' = clean
    BY <1>2 DEF Import, SuccessMeansAttached
  <2> QED BY <2>1 DEF Orderly, SuccessMeansAttached
<1>3. CASE StartRun
  <2>1. /\ run' = "refresh" /\ UNCHANGED <<kind, goal, config, state>>
        /\ step' = [e \in Entries |-> IF state[e] = NoPair THEN "ready" ELSE "read"]
    BY <1>3 DEF StartRun
  <2> QED BY <2>1 DEF Orderly, SuccessMeansAttached, Holds
<1>4. CASE Plan
  <2>1. /\ run = "refresh" /\ run' = "apply" /\ clean' = (clean /\ ~Contested)
        /\ \A e \in Entries : step[e] = "ready"
        /\ UNCHANGED <<kind, goal, config, state>>
        /\ step' = [e \in Entries |-> IF state[e] = config[e] THEN "idle"
                                      ELSE IF state[e] # NoPair THEN "detach"
                                      ELSE "attach"]
    BY <1>4 DEF Plan
  <2>2. ASSUME clean', NEW e \in Entries, step'[e] = "idle"
        PROVE  state[e] = config[e] /\ Holds(config[e])
    <3>1. state[e] = config[e]
      BY <2>1, <2>2
    <3>2. Holds(state[e]) \/ state[e].host = Nowhere
      BY <2>1, <2>2 DEF Orderly
    <3>3. config[e] # NoPair => config[e].host # Nowhere
      BY PairFacts, NamesAssumption
    <3> QED BY <3>1, <3>2, <3>3 DEF Holds
  <2>3. ASSUME clean', NEW e \in Entries, step'[e] = "detach" PROVE Uncontested(e)
    BY <2>1, <2>3 DEF Contested, Uncontested
  <2>4. \A e \in Entries : step'[e] \in {"idle", "detach", "attach"}
    BY <2>1
  <2>5. Orderly'
    BY <2>1, <2>2, <2>3, <2>4 DEF Orderly, Holds, Uncontested, T
  <2> QED BY <2>1, <2>5 DEF SuccessMeansAttached
<1>5. CASE EndRun
  <2>1. /\ run = "apply" /\ run' = "idle" /\ \A e \in Entries : step[e] = "idle"
        /\ UNCHANGED <<kind, goal, config, state, step, clean>>
    BY <1>5 DEF EndRun
  <2> QED BY <2>1 DEF Orderly, SuccessMeansAttached, Holds
<1>6. CASE Stopped
  BY <1>6 DEF Stopped, RunStops, Orderly, SuccessMeansAttached
<1> QED BY <1>1, <1>2, <1>3, <1>4, <1>5, <1>6

LEMMA ReadOrder ==
  ASSUME CleanInv, NEW e \in Entries, ReadOk(e) \/ ReadFails(e)
  PROVE  Orderly' /\ SuccessMeansAttached'
<1> USE DEF CleanInv, Shape, TypeOK, user, service
<1>1. run = "refresh"
  BY DEF Runs, Phases, ReadOk, ReadFails
<1>2. CASE ReadFails(e)
  BY <1>2 DEF ReadFails, RunStops, Orderly, SuccessMeansAttached
<1>3. CASE ReadOk(e)
  <2>1. /\ UNCHANGED <<goal, run>> /\ step' = [step EXCEPT ![e] = "ready"]
        /\ clean' => clean /\ ~Busy(state[e].thing)
        /\ state[e] \in Records
    BY <1>3 DEF ReadOk
  <2>2. \A f \in Entries : f # e => state'[f] = state[f]
    BY <1>3 DEF ReadOk, ReadShows
  <2>3. ASSUME clean' PROVE Holds(state[e])' \/ state'[e].host = Nowhere
    <3>1. PICK hosts \in {attached[state[e].thing], goal[state[e].thing]} :
            ReadShows(e, hosts)
      BY <1>3 DEF ReadOk
    <3>2. hosts = goal[state[e].thing]
      BY <2>1, <2>3, <3>1 DEF Busy
    <3>3. CASE state[e].host \in hosts /\ UNCHANGED state
      BY <2>1, <3>2, <3>3 DEF Holds
    <3>4. CASE \E h \in IF hosts = {} THEN {Nowhere} ELSE hosts :
                 state' = [state EXCEPT ![e].host = h]
      <4>1. PICK h \in IF hosts = {} THEN {Nowhere} ELSE hosts :
              state' = [state EXCEPT ![e].host = h]
        BY <3>4
      <4>2. state'[e].thing = state[e].thing /\ state'[e].host = h
        BY <2>1, <4>1 DEF Records
      <4> QED BY <2>1, <3>2, <4>1, <4>2 DEF Holds
    <3> QED BY <3>1, <3>3, <3>4 DEF ReadShows
  <2>4. Orderly'
    BY <1>1, <2>1, <2>2, <2>3 DEF Orderly, Holds
  <2> QED BY <1>1, <2>1, <2>4 DEF SuccessMeansAttached
<1> QED BY <1>2, <1>3

LEMMA AttachOrder ==
  ASSUME CleanInv, NEW e \in Entries,
         \/ AttachAccepted(e) \/ AttachReplyLost(e) \/ AttachRefused(e)
         \/ WaitEnds(e) \/ WaitFails(e)
  PROVE  Orderly' /\ SuccessMeansAttached'
<1> USE DEF CleanInv, Shape, TypeOK, user, service
<1>1. CASE AttachReplyLost(e) \/ AttachRefused(e) \/ WaitFails(e)
  BY <1>1 DEF AttachReplyLost, AttachRefused, WaitFails, Fails, Orderly,
     SuccessMeansAttached
<1>2. CASE AttachAccepted(e) \/ WaitEnds(e)
  <2>1. /\ run = "apply" /\ run' = run /\ UNCHANGED <<kind, config>>
        /\ config[e] \in Pairs /\ (clean' => clean)
        /\ step[e] \in {"attach", "attached"}
    BY <1>2, PairFacts DEF AttachAccepted, WaitEnds, Phases, Runs
  <2>2. \/ step' = [step EXCEPT ![e] = "attached"] /\ UNCHANGED state
        \/ step' = [step EXCEPT ![e] = "idle"] /\ state' = [state EXCEPT ![e] = config[e]]
    BY <1>2 DEF AttachAccepted, WaitEnds, AttachDone
  <2>3. /\ \A t \in Things : goal[t] \subseteq goal'[t]
        /\ clean => config[e].host \in goal'[config[e].thing]
    <3>1. CASE AttachAccepted(e)
      <4>1. goal' = [goal EXCEPT ![config[e].thing] =
                       goal[config[e].thing] \cup {config[e].host}]
        BY <3>1 DEF AttachAccepted, Attach, Moves
      <4> QED BY <2>1, <4>1, PairFacts
    <3>2. CASE WaitEnds(e)
      BY <2>1, <3>2 DEF WaitEnds, Orderly, Holds
    <3> QED BY <1>2, <3>1, <3>2
  <2>4. ASSUME clean', NEW f \in Entries
        PROVE  /\ step'[f] = "idle" => state'[f] = config[f]
               /\ step'[f] \in {"idle", "attached"} => Holds(config[f])'
               /\ step'[f] \in {"detach", "detached"} => Uncontested(f)'
    <3>1. CASE f = e
      BY <2>1, <2>2, <2>3, <2>4, <3>1 DEF Holds
    <3>2. CASE f # e
      <4>1. step'[f] = step[f] /\ state'[f] = state[f]
        BY <2>2, <3>2
      <4>2. config[f] # NoPair => config[f].thing \in Things
        BY PairFacts
      <4> QED BY <2>1, <2>3, <2>4, <4>1, <4>2 DEF Orderly, Holds, Uncontested, T
    <3> QED BY <3>1, <3>2
  <2> QED BY <2>1, <2>4 DEF Orderly, SuccessMeansAttached
<1> QED BY <1>1, <1>2

LEMMA DetachOrder ==
  ASSUME CleanInv, NEW e \in Entries,
         \/ DetachAccepted(e) \/ DetachReplyLost(e) \/ DetachRefused(e)
         \/ DetachWaitEnds(e) \/ DetachWaitFails(e)
  PROVE  Orderly' /\ SuccessMeansAttached'
<1> USE DEF CleanInv, Shape, TypeOK, user, service
<1>1. CASE DetachReplyLost(e) \/ DetachRefused(e) \/ DetachWaitFails(e)
  BY <1>1 DEF DetachReplyLost, DetachRefused, DetachWaitFails, Fails, Orderly,
     SuccessMeansAttached
<1>2. CASE DetachAccepted(e) \/ DetachWaitEnds(e)
  <2>1. /\ run = "apply" /\ run' = run /\ UNCHANGED <<kind, config>>
        /\ state[e] \in Records /\ (clean' => clean)
        /\ step[e] \in {"detach", "detached"}
    BY <1>2 DEF DetachAccepted, DetachWaitEnds, Phases, Runs
  <2>2. \/ step' = [step EXCEPT ![e] = "detached"] /\ UNCHANGED state
        \/ /\ step' = [step EXCEPT ![e] = IF config[e] = NoPair THEN "idle" ELSE "attach"]
           /\ state' = [state EXCEPT ![e] = NoPair]
    BY <1>2 DEF DetachAccepted, DetachWaitEnds, DetachDone
  <2>3. \/ UNCHANGED goal
        \/ goal' = [goal EXCEPT ![state[e].thing] =
                      IF T.named THEN goal[state[e].thing] \ {state[e].host} ELSE {}]
    BY <1>2 DEF DetachAccepted, DetachWaitEnds, Detach, Moves
  <2>4. ASSUME clean, NEW f \in Entries, f # e, Holds(config[f])
        PROVE  Holds(config[f])'
    <3>1. Uncontested(e)
      BY <2>1, <2>4 DEF Orderly
    <3>2. T.single \/ T.named
      BY KindFacts
    <3>3. config[f] # NoPair => config[f].thing \in Things
      BY PairFacts
    <3>4. config[f] # NoPair => config[f].host \in goal'[config[f].thing]
      BY <2>1, <2>3, <2>4, <3>1, <3>2, <3>3 DEF Uncontested, Holds
    <3> QED BY <2>1, <3>4 DEF Holds
  <2>5. ASSUME clean', NEW f \in Entries
        PROVE  /\ step'[f] = "idle" => state'[f] = config[f]
               /\ step'[f] \in {"idle", "attached"} => Holds(config[f])'
               /\ step'[f] \in {"detach", "detached"} => Uncontested(f)'
    <3>1. CASE f = e
      BY <2>1, <2>2, <2>5, <3>1 DEF Orderly, Holds, Uncontested, T
    <3>2. CASE f # e
      <4>1. step'[f] = step[f] /\ state'[f] = state[f]
        BY <2>2, <3>2
      <4> QED BY <2>1, <2>4, <2>5, <3>2, <4>1 DEF Orderly, Uncontested, T
    <3> QED BY <3>1, <3>2
  <2> QED BY <2>1, <2>5 DEF Orderly, SuccessMeansAttached
<1> QED BY <1>1, <1>2

LEMMA ServiceOrder ==
  ASSUME CleanInv, NEW t \in Things, Settle(t) \/ GivesUp(t) \/ Drift(t)
  PROVE  Orderly' /\ SuccessMeansAttached'
<1>1. CASE Settle(t)
  BY <1>1 DEF Settle, user, CleanInv, Orderly, SuccessMeansAttached, Holds,
     Uncontested, T
<1>2. CASE GivesUp(t) \/ Drift(t)
  BY <1>2 DEF GivesUp, Drift, Orderly, SuccessMeansAttached
<1> QED BY <1>1, <1>2

LEMMA NextOrder == CleanInv /\ [Next]_vars => CleanInv'
<1> SUFFICES ASSUME CleanInv, [Next]_vars PROVE CleanInv'
  OBVIOUS
<1>1. CASE \/ \E e \in Entries : Edit(e) \/ Import(e)
           \/ StartRun \/ Plan \/ EndRun \/ Stopped
  BY <1>1, UserShape, UserOrder DEF CleanInv
<1>2. ASSUME NEW e \in Entries, Handlers(e) PROVE CleanInv'
  BY <1>2, HandlersShape, ReadOrder, AttachOrder, DetachOrder DEF CleanInv, Handlers
<1>3. ASSUME NEW t \in Things, Settle(t) \/ GivesUp(t) \/ Drift(t) PROVE CleanInv'
  BY <1>3, ServiceShape, ServiceOrder DEF CleanInv
<1>4. CASE UNCHANGED vars
  BY <1>4 DEF vars, CleanInv, Shape, TypeOK, Phases, Singles, Orderly, Holds,
     Uncontested, SuccessMeansAttached, T
<1> QED BY <1>1, <1>2, <1>3, <1>4 DEF Next

(* Two entries that do not claim the same thing do not disturb each other: *)
(* however the steps of their handlers mix, a run in which nothing failed  *)
(* leaves every thing where its entry is configured, and recorded so.      *)
THEOREM SuccessAttaches == Spec => []SuccessMeansAttached
<1>1. Init => CleanInv
  BY InitShape DEF Init, CleanInv, Orderly, SuccessMeansAttached
<1>2. CleanInv => SuccessMeansAttached
  BY DEF CleanInv
<1> QED BY <1>1, <1>2, NextOrder, PTL DEF Spec
=============================================================================
