------------------------------ MODULE DnsBridge ------------------------------
(***************************************************************************)
(* crunchy-dns: dnsbridgeserver reads Docker events and keeps the names    *)
(* and addresses of containers registered in consul.                       *)
(*                                                                         *)
(* An event says only which container it is about.  Action inspects that   *)
(* container when the event is handled, which may be long after it was     *)
(* sent, and makes two calls to consul one after the other; the containers *)
(* go on changing meanwhile.                                               *)
(***************************************************************************)
EXTENDS Naturals, Sequences

CONSTANTS
  Containers,    \* container ids
  Names,         \* container names
  NameOf,        \* the name of each container; ids may share a name in turn
  Addresses,     \* the addresses Docker gives out
  NoAddress,     \* no address, or a name that is not registered
  MaxQueue,      \* how many events may wait
  MaxHttpFails,  \* how many calls to consul may fail
  MaxRestarts    \* how often the bridge is restarted

ASSUME NamesAssumption == NameOf \in [Containers -> Names]
ASSUME AddressesAssumption == NoAddress \notin Addresses
ASSUME BoundsAssumption == MaxQueue \in Nat /\ MaxHttpFails \in Nat /\ MaxRestarts \in Nat

VARIABLES
  state,     \* of each container, as Docker knows it
  address,   \* of each container: set exactly while it runs
  events,    \* sent and not yet handled
  pc,        \* the next call of Action
  job,       \* what Action found out about the container
  registry,  \* what consul answers for each name
  httpFails, restarts,
  spoilt     \* history: the names whose last start was not registered, because
             \* the call failed or its event was lost with the bridge

dockerVars == <<state, address>>
bridgeVars == <<pc, job>>
vars == <<state, address, events, pc, job, registry, httpFails, restarts, spoilt>>

\* A container that is gone cannot be inspected; one that never was neither.
States == {"new", "running", "stopped", "gone"}
Statuses == {"start", "stop", "destroy"}
Event == [status : Statuses, id : Containers]
Job == [status : Statuses, name : Names, address : Addresses]

NoJob == [status |-> "none"]

TypeOK ==
  /\ state \in [Containers -> States]
  /\ address \in [Containers -> Addresses \cup {NoAddress}]
  /\ events \in Seq(Event)
  /\ pc \in {"idle", "deregister", "register"}
  /\ IF pc = "idle" THEN job = NoJob ELSE job \in Job
  /\ registry \in [Names -> Addresses \cup {NoAddress}]
  /\ httpFails \in 0..MaxHttpFails
  /\ restarts \in 0..MaxRestarts
  /\ spoilt \subseteq Names

-----------------------------------------------------------------------------
(* Docker.                                                                 *)

Send(status, id) ==
  /\ Len(events) < MaxQueue
  /\ events' = Append(events, [status |-> status, id |-> id])

NameFree(id) ==
  \A other \in Containers \ {id} :
    NameOf[other] = NameOf[id] => state[other] \in {"new", "gone"}

StartContainer(id) ==
  /\ state[id] \in {"new", "stopped"}
  /\ NameFree(id)
  /\ \E a \in Addresses :
       /\ \A other \in Containers : address[other] # a
       /\ address' = [address EXCEPT ![id] = a]
  /\ state' = [state EXCEPT ![id] = "running"]
  /\ Send("start", id)
  /\ UNCHANGED <<bridgeVars, registry, httpFails, restarts, spoilt>>

\* The address is released before the stop event is sent.
StopContainer(id) ==
  /\ state[id] = "running"
  /\ state' = [state EXCEPT ![id] = "stopped"]
  /\ address' = [address EXCEPT ![id] = NoAddress]
  /\ Send("stop", id)
  /\ UNCHANGED <<bridgeVars, registry, httpFails, restarts, spoilt>>

\* A container that exits by itself, or is killed, sends "die" only, which
\* the bridge just logs.
ContainerDies(id) ==
  /\ state[id] = "running"
  /\ state' = [state EXCEPT ![id] = "stopped"]
  /\ address' = [address EXCEPT ![id] = NoAddress]
  /\ UNCHANGED <<events, bridgeVars, registry, httpFails, restarts, spoilt>>

RemoveContainer(id) ==
  /\ state[id] = "stopped"
  /\ state' = [state EXCEPT ![id] = "gone"]
  /\ Send("destroy", id)
  /\ UNCHANGED <<address, bridgeVars, registry, httpFails, restarts, spoilt>>

Docker ==
  \E id \in Containers :
    StartContainer(id) \/ StopContainer(id) \/ ContainerDies(id) \/ RemoveContainer(id)

-----------------------------------------------------------------------------
(* The bridge.                                                             *)

\* Mutants: a container without an address is handled all the same; a name
\* that is registered is not registered again.
MutNoAddressCheck ==
  /\ pc = "idle"
  /\ events # <<>>
  /\ events' = Tail(events)
  /\ LET e == Head(events) IN
       IF state[e.id] \in {"new", "gone"}
         THEN UNCHANGED <<pc, job>>
         ELSE /\ job' = [status |-> e.status, name |-> NameOf[e.id], address |-> address[e.id]]
              /\ pc' = "deregister"
  /\ UNCHANGED <<dockerVars, registry, httpFails, restarts, spoilt>>

MutSkipKnownNames ==
  /\ pc = "idle"
  /\ events # <<>>
  /\ events' = Tail(events)
  /\ LET e == Head(events) IN
       IF \/ state[e.id] \in {"new", "gone"} \/ address[e.id] = NoAddress
          \/ e.status = "start" /\ registry[NameOf[e.id]] # NoAddress
         THEN UNCHANGED <<pc, job>>
         ELSE /\ job' = [status |-> e.status, name |-> NameOf[e.id], address |-> address[e.id]]
              /\ pc' = "deregister"
  /\ UNCHANGED <<dockerVars, registry, httpFails, restarts, spoilt>>

\* Action up to the switch: nothing is done for a container that cannot be
\* inspected or has no address.
HandleEvent ==
  /\ pc = "idle"
  /\ events # <<>>
  /\ events' = Tail(events)
  /\ LET e == Head(events) IN
       IF state[e.id] \in {"new", "gone"} \/ address[e.id] = NoAddress
         THEN UNCHANGED <<pc, job>>
         ELSE /\ job' = [status |-> e.status, name |-> NameOf[e.id], address |-> address[e.id]]
              /\ pc' = "deregister"
  /\ UNCHANGED <<dockerVars, registry, httpFails, restarts, spoilt>>

\* The result of either call is dropped.
HttpFails == httpFails > 0 /\ httpFails' = httpFails - 1

\* Mutant: a start event stops after the deregistration.
MutDeregisterOnly ==
  /\ pc = "deregister"
  /\ registry' = [registry EXCEPT ![job.name] = NoAddress]
  /\ pc' = "idle"
  /\ job' = NoJob
  /\ UNCHANGED <<dockerVars, events, httpFails, restarts, spoilt>>

Deregister ==
  /\ pc = "deregister"
  /\ \/ registry' = [registry EXCEPT ![job.name] = NoAddress] /\ UNCHANGED httpFails
     \/ HttpFails /\ UNCHANGED registry
  /\ IF job.status = "start" THEN pc' = "register" /\ UNCHANGED job
                             ELSE pc' = "idle" /\ job' = NoJob
  /\ UNCHANGED <<dockerVars, events, restarts, spoilt>>

Register ==
  /\ pc = "register"
  /\ \/ /\ registry' = [registry EXCEPT ![job.name] = job.address]
        /\ spoilt' = spoilt \ {job.name}
        /\ UNCHANGED httpFails
     \/ /\ HttpFails
        /\ spoilt' = spoilt \cup {job.name}
        /\ UNCHANGED registry
  /\ pc' = "idle"
  /\ job' = NoJob
  /\ UNCHANGED <<dockerVars, events, restarts>>

\* A new bridge listens to the events sent from now on; consul keeps its data.
Lost == {NameOf[events[i].id] : i \in {j \in DOMAIN events : events[j].status = "start"}}
          \cup (IF job.status = "start" THEN {job.name} ELSE {})
RestartBridge ==
  /\ restarts > 0 /\ restarts' = restarts - 1
  /\ events' = <<>>
  /\ pc' = "idle"
  /\ job' = NoJob
  /\ spoilt' = spoilt \cup Lost
  /\ UNCHANGED <<dockerVars, registry, httpFails>>

Bridge == HandleEvent \/ Deregister \/ Register

Init ==
  /\ state = [id \in Containers |-> "new"]
  /\ address = [id \in Containers |-> NoAddress]
  /\ events = <<>>
  /\ pc = "idle"
  /\ job = NoJob
  /\ registry = [n \in Names |-> NoAddress]
  /\ httpFails = MaxHttpFails
  /\ restarts = MaxRestarts
  /\ spoilt = {}

Next == Docker \/ Bridge \/ RestartBridge

Spec == Init /\ [][Next]_vars

FairSpec == Spec /\ WF_vars(Bridge)

-----------------------------------------------------------------------------
(* Properties.                                                             *)

Quiet == events = <<>> /\ pc = "idle"

\* When all events are handled, the name of every running container resolves
\* to the address it has now, however often it was stopped and started while
\* earlier events waited, unless its last start was lost; calls that failed
\* and events lost before that start cost nothing.
RunningResolves ==
  Quiet =>
    \A id \in Containers :
      state[id] = "running" /\ NameOf[id] \notin spoilt => registry[NameOf[id]] = address[id]

\* A container that keeps running resolves in the end, unless its last start
\* was lost.
ResolvesInTheEnd ==
  \A id \in Containers :
    <>[](state[id] = "running" /\ NameOf[id] \notin spoilt)
      => <>[](registry[NameOf[id]] = address[id])

\* When all events are handled, a name that resolves is that of a container
\* that exists ("deregisters container information from the DNS serve when a
\* container is destroyed").
NoStaleNames ==
  Quiet =>
    \A n \in Names : registry[n] # NoAddress =>
      \E id \in Containers : NameOf[id] = n /\ state[id] \in {"running", "stopped"}
=============================================================================
