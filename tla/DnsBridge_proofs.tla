--------------------------- MODULE DnsBridge_proofs ---------------------------
(***************************************************************************)
(* Theorems about DnsBridge, for any containers and names and any bounds.  *)
(*                                                                         *)
(* RunningResolves is not inductive: it says nothing while events wait.    *)
(* BridgeInv adds what holds then: a stop that waits is followed by the    *)
(* start that made it out of date (StopsAreFollowed), and if no start of a *)
(* running container waits, then the job at hand for its name, if there is *)
(* one, is its start with its present address (JobIsCurrent), and if there *)
(* is none the name is registered (RegisteredOrWaits).                     *)
(***************************************************************************)
EXTENDS DnsBridge, SequenceTheorems, TLAPS

Running(id) == state[id] = "running"
StartOf(id) == [status |-> "start", id |-> id]
StartWaits(id) == \E i \in 1..Len(events) : events[i] = StartOf(id)
AtHand(id) == pc # "idle" /\ job.name = NameOf[id]

\* Docker gives an address to the containers that run, and a name to one.
AddressIffRunning == \A id \in Containers : address[id] # NoAddress <=> Running(id)
NamesAreUnique ==
  \A id, other \in Containers :
    Running(id) /\ Running(other) /\ NameOf[id] = NameOf[other] => id = other

StopsAreFollowed ==
  \A id \in Containers : Running(id) =>
    \A k \in 1..Len(events) :
      events[k].id = id /\ events[k].status # "start" =>
        \E j \in 1..Len(events) : k < j /\ events[j] = StartOf(id)

JobIsCurrent ==
  \A id \in Containers :
    Running(id) /\ ~StartWaits(id) /\ AtHand(id) =>
      job.status = "start" /\ job.address = address[id]

RegisteredOrWaits ==
  \A id \in Containers :
    Running(id) /\ ~StartWaits(id) /\ ~AtHand(id) /\ NameOf[id] \notin spoilt =>
      registry[NameOf[id]] = address[id]

BridgeInv ==
  /\ TypeOK
  /\ AddressIffRunning
  /\ NamesAreUnique
  /\ StopsAreFollowed
  /\ JobIsCurrent
  /\ RegisteredOrWaits
  /\ pc = "register" => job.status = "start"

-----------------------------------------------------------------------------
(* What the actions do to the queue.                                       *)

\* An event that is sent waits behind all the others.
LEMMA QueueGrows ==
  ASSUME TypeOK, NEW status \in Statuses, NEW id \in Containers, Send(status, id)
  PROVE  /\ events' \in Seq(Event)
         /\ Len(events) \in Nat
         /\ Len(events') = Len(events) + 1
         /\ \A i \in 1..Len(events) : events'[i] = events[i]
         /\ events'[Len(events')] = [status |-> status, id |-> id]
  BY DEF TypeOK, Send, Event

\* The event that is handled is the first, and the others move up.
LEMMA QueueShrinks ==
  ASSUME TypeOK, events # <<>>, events' = Tail(events)
  PROVE  /\ events' \in Seq(Event)
         /\ Head(events) \in Event
         /\ Len(events) \in Nat \ {0}
         /\ Head(events) = events[1]
         /\ Len(events') = Len(events) - 1
         /\ \A i \in 1..Len(events') : events'[i] = events[i + 1]
  <1>1. events \in Seq(Event)
    BY DEF TypeOK
  <1>2. Len(events) \in Nat \ {0}
    BY <1>1, EmptySeq
  <1>3. Head(events) = events[1]
    BY <1>1
  <1> QED
    BY <1>1, <1>2, <1>3, HeadTailProperties

\* A start that waits goes on waiting until it is handled.
LEMMA StartKeepsWaiting ==
  ASSUME TypeOK, NEW id \in Containers
  PROVE  /\ \A status \in Statuses, other \in Containers :
              Send(status, other) /\ StartWaits(id) => StartWaits(id)'
         /\ events # <<>> /\ events' = Tail(events) =>
              /\ StartWaits(id)' => StartWaits(id)
              /\ StartWaits(id) => StartWaits(id)' \/ Head(events) = StartOf(id)
  <1>1. ASSUME NEW status \in Statuses, NEW other \in Containers,
               Send(status, other), StartWaits(id)
        PROVE  StartWaits(id)'
    <2>1. PICK i \in 1..Len(events) : events[i] = StartOf(id)
      BY <1>1 DEF StartWaits
    <2>2. /\ Len(events) \in Nat /\ Len(events') = Len(events) + 1
          /\ \A j \in 1..Len(events) : events'[j] = events[j]
      BY <1>1, QueueGrows
    <2>3. i \in 1..Len(events') /\ events'[i] = StartOf(id)
      BY <2>1, <2>2
    <2> QED
      BY <2>3 DEF StartWaits, StartOf
  <1>2. ASSUME events # <<>>, events' = Tail(events), StartWaits(id)'
        PROVE  StartWaits(id)
    <2>1. PICK i \in 1..Len(events') : events'[i] = StartOf(id)
      BY <1>2 DEF StartWaits, StartOf
    <2>2. i + 1 \in 1..Len(events) /\ events[i + 1] = StartOf(id)
      BY <1>2, <2>1, QueueShrinks
    <2> QED
      BY <2>2 DEF StartWaits
  <1>3. ASSUME events # <<>>, events' = Tail(events), StartWaits(id),
               Head(events) # StartOf(id)
        PROVE  StartWaits(id)'
    <2>1. PICK i \in 1..Len(events) : events[i] = StartOf(id)
      BY <1>3 DEF StartWaits
    <2>2. i # 1 /\ i - 1 \in 1..Len(events') /\ events'[i - 1] = events[i]
      BY <1>3, <2>1, QueueShrinks
    <2> QED
      BY <2>1, <2>2 DEF StartWaits, StartOf
  <1> QED
    BY <1>1, <1>2, <1>3

\* What HandleEvent does, spelt out for the two cases.
LEMMA EventHandled ==
  ASSUME BridgeInv, HandleEvent
  PROVE  /\ pc = "idle" /\ events # <<>> /\ events' = Tail(events)
         /\ UNCHANGED <<state, address, registry, httpFails, restarts, spoilt>>
         /\ \/ ~Running(Head(events).id) /\ UNCHANGED <<pc, job>>
            \/ /\ Running(Head(events).id)
               /\ pc' = "deregister"
               /\ job' = [status |-> Head(events).status, name |-> NameOf[Head(events).id],
                          address |-> address[Head(events).id]]
  <1>1. Head(events).id \in Containers
    BY QueueShrinks DEF HandleEvent, BridgeInv, Event
  <1>2. Running(Head(events).id) <=>
          ~(state[Head(events).id] \in {"new", "gone"} \/ address[Head(events).id] = NoAddress)
    BY <1>1 DEF BridgeInv, AddressIffRunning, Running
  <1> QED
    BY <1>1, <1>2 DEF HandleEvent, dockerVars

-----------------------------------------------------------------------------
(* The conjuncts of BridgeInv that are about one component only.           *)

\* Every step keeps the types.
LEMMA TypeStep == TypeOK /\ [Next]_vars => TypeOK'
  <1> SUFFICES ASSUME TypeOK, [Next]_vars PROVE TypeOK'
    OBVIOUS
  <1> USE NamesAssumption, AddressesAssumption, BoundsAssumption
  <1>1. ASSUME NEW id \in Containers, StartContainer(id)
        PROVE  TypeOK'
    <2>1. events' \in Seq(Event)
      BY <1>1, QueueGrows DEF StartContainer, Statuses
    <2> QED
      BY <1>1, <2>1 DEF TypeOK, StartContainer, bridgeVars, States
  <1>2. ASSUME NEW id \in Containers, StopContainer(id)
        PROVE  TypeOK'
    <2>1. events' \in Seq(Event)
      BY <1>2, QueueGrows DEF StopContainer, Statuses
    <2> QED
      BY <1>2, <2>1 DEF TypeOK, StopContainer, bridgeVars, States
  <1>3. ASSUME NEW id \in Containers, ContainerDies(id)
        PROVE  TypeOK'
    BY <1>3 DEF TypeOK, ContainerDies, bridgeVars, States
  <1>4. ASSUME NEW id \in Containers, RemoveContainer(id)
        PROVE  TypeOK'
    <2>1. events' \in Seq(Event)
      BY <1>4, QueueGrows DEF RemoveContainer, Statuses
    <2> QED
      BY <1>4, <2>1 DEF TypeOK, RemoveContainer, bridgeVars, States
  <1>5. CASE HandleEvent
    <2>1. events' \in Seq(Event) /\ Head(events) \in Event
      BY <1>5, QueueShrinks DEF HandleEvent
    <2>2. Head(events).id \in Containers /\ Head(events).status \in Statuses
      BY <2>1 DEF Event
    <2>3. address[Head(events).id] # NoAddress =>
            [status |-> Head(events).status, name |-> NameOf[Head(events).id],
             address |-> address[Head(events).id]] \in Job
      BY <2>2 DEF TypeOK, Job
    <2> QED
      BY <1>5, <2>1, <2>3 DEF TypeOK, HandleEvent, dockerVars
  <1>6. CASE Deregister
    BY <1>6 DEF TypeOK, Deregister, HttpFails, dockerVars, Job
  <1>7. CASE Register
    BY <1>7 DEF TypeOK, Register, HttpFails, dockerVars, Job
  <1>8. CASE RestartBridge
    <2>1. Lost \subseteq Names
      <3>1. \A i \in DOMAIN events : events[i] \in Event
        BY DEF TypeOK
      <3>2. job.status = "start" => job.name \in Names
        BY DEF TypeOK, Job, NoJob
      <3> QED
        BY <3>1, <3>2 DEF Lost, Event
    <2> QED
      BY <1>8, <2>1 DEF TypeOK, RestartBridge, dockerVars
  <1>9. CASE UNCHANGED vars
    BY <1>9 DEF TypeOK, vars
  <1> QED
    BY <1>1, <1>2, <1>3, <1>4, <1>5, <1>6, <1>7, <1>8, <1>9 DEF Next, Docker, Bridge

\* Containers keep their addresses while they run, and their names apart.
LEMMA DockerStep ==
  TypeOK /\ AddressIffRunning /\ NamesAreUnique /\ [Next]_vars
    => AddressIffRunning' /\ NamesAreUnique'
  <1> SUFFICES ASSUME TypeOK, AddressIffRunning, NamesAreUnique, [Next]_vars
               PROVE  AddressIffRunning' /\ NamesAreUnique'
    OBVIOUS
  <1> USE AddressesAssumption DEF TypeOK, AddressIffRunning, NamesAreUnique, Running
  <1>1. ASSUME NEW id \in Containers, StartContainer(id)
        PROVE  AddressIffRunning' /\ NamesAreUnique'
    BY <1>1 DEF StartContainer, NameFree
  <1>2. ASSUME NEW id \in Containers, StopContainer(id) \/ ContainerDies(id)
        PROVE  AddressIffRunning' /\ NamesAreUnique'
    BY <1>2 DEF StopContainer, ContainerDies
  <1>3. ASSUME NEW id \in Containers, RemoveContainer(id)
        PROVE  AddressIffRunning' /\ NamesAreUnique'
    BY <1>3 DEF RemoveContainer
  <1>4. CASE UNCHANGED dockerVars
    BY <1>4 DEF dockerVars
  <1> QED
    BY <1>1, <1>2, <1>3, <1>4
       DEF Next, Docker, Bridge, HandleEvent, Deregister, Register, RestartBridge, vars, dockerVars

-----------------------------------------------------------------------------
(* The conjuncts that relate the queue, the job at hand and the registry.   *)

\* A stop that waits is followed by the start that came after it.
LEMMA StopsStayFollowed == BridgeInv /\ [Next]_vars => StopsAreFollowed'
  <1> SUFFICES ASSUME BridgeInv, [Next]_vars,
                      NEW id \in Containers, Running(id)',
                      NEW k \in 1..Len(events'),
                      events'[k].id = id, events'[k].status # "start"
               PROVE  \E j \in 1..Len(events') : k < j /\ events'[j] = StartOf(id)
    BY DEF StopsAreFollowed, Running, StartOf
  <1>t. TypeOK /\ StopsAreFollowed
    BY DEF BridgeInv
  <1>1. ASSUME NEW other \in Containers, StartContainer(other)
        PROVE  \E j \in 1..Len(events') : k < j /\ events'[j] = StartOf(id)
    <2>1. /\ Len(events) \in Nat /\ Len(events') = Len(events) + 1
          /\ \A j \in 1..Len(events) : events'[j] = events[j]
          /\ events'[Len(events')] = StartOf(other)
      BY <1>1, <1>t, QueueGrows DEF StartContainer, Statuses, StartOf
    <2>2. k < Len(events')
      BY <2>1 DEF StartOf
    <2>3. CASE other = id
      BY <2>1, <2>2, <2>3
    <2>4. CASE other # id
      <3>1. Running(id)
        BY <1>1, <2>4, <1>t DEF StartContainer, Running, TypeOK
      <3>2. k \in 1..Len(events) /\ events[k].id = id /\ events[k].status # "start"
        BY <2>1, <2>2
      <3>3. PICK j \in 1..Len(events) : k < j /\ events[j] = StartOf(id)
        BY <3>1, <3>2, <1>t DEF StopsAreFollowed
      <3> QED
        BY <3>3, <2>1
    <2> QED
      BY <2>3, <2>4
  <1>2. ASSUME NEW other \in Containers, NEW status \in {"stop", "destroy"},
               Send(status, other), state'[other] # "running",
               \A c \in Containers : state'[c] = "running" => state[c] = "running"
        PROVE  \E j \in 1..Len(events') : k < j /\ events'[j] = StartOf(id)
    <2>1. /\ Len(events) \in Nat /\ Len(events') = Len(events) + 1
          /\ \A j \in 1..Len(events) : events'[j] = events[j]
          /\ events'[Len(events')] = [status |-> status, id |-> other]
      BY <1>2, <1>t, QueueGrows DEF Statuses
    <2>2. Running(id) /\ other # id
      BY <1>2 DEF Running
    <2>3. k \in 1..Len(events) /\ events[k].id = id /\ events[k].status # "start"
      BY <2>1, <2>2
    <2>4. PICK j \in 1..Len(events) : k < j /\ events[j] = StartOf(id)
      BY <2>2, <2>3, <1>t DEF StopsAreFollowed
    <2> QED
      BY <2>4, <2>1
  <1>3. ASSUME NEW other \in Containers, StopContainer(other)
        PROVE  \E j \in 1..Len(events') : k < j /\ events'[j] = StartOf(id)
    BY <1>3, <1>2, <1>t DEF StopContainer, TypeOK
  <1>4. ASSUME NEW other \in Containers, RemoveContainer(other)
        PROVE  \E j \in 1..Len(events') : k < j /\ events'[j] = StartOf(id)
    BY <1>4, <1>2, <1>t DEF RemoveContainer, TypeOK
  <1>5. ASSUME UNCHANGED events, \A c \in Containers : state'[c] = "running" => Running(c)
        PROVE  \E j \in 1..Len(events') : k < j /\ events'[j] = StartOf(id)
    BY <1>5, <1>t DEF StopsAreFollowed, Running
  <1>6. ASSUME NEW other \in Containers, ContainerDies(other)
        PROVE  \E j \in 1..Len(events') : k < j /\ events'[j] = StartOf(id)
    BY <1>6, <1>5, <1>t DEF ContainerDies, TypeOK, Running
  <1>7. CASE HandleEvent
    <2>1. /\ Len(events) \in Nat \ {0} /\ Len(events') = Len(events) - 1
          /\ \A j \in 1..Len(events') : events'[j] = events[j + 1]
      BY <1>7, <1>t, QueueShrinks DEF HandleEvent
    <2>2. Running(id) /\ k + 1 \in 1..Len(events)
          /\ events[k + 1].id = id /\ events[k + 1].status # "start"
      BY <1>7, <2>1, EventHandled DEF Running
    <2>3. PICK j \in 1..Len(events) : k + 1 < j /\ events[j] = StartOf(id)
      BY <2>2, <1>t DEF StopsAreFollowed
    <2>4. j - 1 \in 1..Len(events') /\ k < j - 1 /\ events'[j - 1] = StartOf(id)
      BY <2>1, <2>3
    <2> QED
      BY <2>4
  <1>8. CASE RestartBridge
    BY <1>8 DEF RestartBridge
  <1>9. CASE Deregister \/ Register \/ UNCHANGED vars
    BY <1>9, <1>5 DEF Deregister, Register, vars, dockerVars, Running
  <1> QED
    BY <1>1, <1>3, <1>4, <1>6, <1>7, <1>8, <1>9 DEF Next, Docker, Bridge

\* What a step of Docker leaves alone of a container that runs after it: all,
\* unless the step is its own start, which then waits.
LEMMA DockerLeaves ==
  ASSUME BridgeInv, Docker, NEW id \in Containers, Running(id)', ~StartWaits(id)'
  PROVE  /\ Running(id) /\ ~StartWaits(id)
         /\ address'[id] = address[id]
         /\ UNCHANGED <<pc, job, registry, spoilt>>
  <1>t. TypeOK
    BY DEF BridgeInv
  <1>1. ASSUME NEW other \in Containers, StartContainer(other)
        PROVE  /\ other # id
               /\ Running(id) /\ ~StartWaits(id) /\ address'[id] = address[id]
               /\ UNCHANGED <<pc, job, registry, spoilt>>
    <2>1. Send("start", other) /\ "start" \in Statuses
      BY <1>1 DEF StartContainer, Statuses
    <2>2. other # id
      <3>1. /\ Len(events) \in Nat /\ Len(events') = Len(events) + 1
            /\ events'[Len(events')] = StartOf(other)
        BY <2>1, <1>t, QueueGrows DEF StartOf
      <3> QED
        BY <3>1 DEF StartWaits, StartOf
    <2>3. ~StartWaits(id)
      BY <2>1, <1>t, StartKeepsWaiting
    <2> QED
      BY <1>1, <1>t, <2>2, <2>3 DEF StartContainer, Running, TypeOK, bridgeVars
  <1>2. ASSUME NEW other \in Containers, StopContainer(other) \/ RemoveContainer(other)
        PROVE  /\ Running(id) /\ ~StartWaits(id) /\ address'[id] = address[id]
               /\ UNCHANGED <<pc, job, registry, spoilt>>
    <2>1. other # id /\ Running(id)
      BY <1>2, <1>t DEF StopContainer, RemoveContainer, Running, TypeOK
    <2>2. PICK status \in Statuses : Send(status, other)
      BY <1>2 DEF StopContainer, RemoveContainer, Statuses
    <2>3. ~StartWaits(id)
      BY <2>2, <1>t, StartKeepsWaiting
    <2> QED
      BY <1>2, <1>t, <2>1, <2>3 DEF StopContainer, RemoveContainer, TypeOK, bridgeVars
  <1>3. ASSUME NEW other \in Containers, ContainerDies(other)
        PROVE  /\ Running(id) /\ ~StartWaits(id) /\ address'[id] = address[id]
               /\ UNCHANGED <<pc, job, registry, spoilt>>
    BY <1>3, <1>t DEF ContainerDies, Running, StartWaits, StartOf, TypeOK, bridgeVars
  <1> QED
    BY <1>1, <1>2, <1>3 DEF Docker

\* If an event is handled and no start of a container that runs is left, then
\* either the event was that start, or none waited before and the name of the
\* container is not touched.
LEMMA HandledJob ==
  ASSUME BridgeInv, HandleEvent, NEW id \in Containers, Running(id), ~StartWaits(id)'
  PROVE  IF AtHand(id)'
           THEN job'.status = "start" /\ job'.address = address[id]
           ELSE ~StartWaits(id)
  <1>t. TypeOK /\ StopsAreFollowed /\ NamesAreUnique
    BY DEF BridgeInv
  <1> DEFINE head == Head(events)
  <1>1. /\ events # <<>> /\ events' = Tail(events) /\ pc = "idle"
        /\ head \in Event /\ head = events[1]
        /\ Len(events) \in Nat \ {0} /\ Len(events') = Len(events) - 1
        /\ \A j \in 1..Len(events') : events'[j] = events[j + 1]
    BY <1>t, QueueShrinks, EventHandled
  <1>2. head.id \in Containers /\ head.status \in Statuses
    BY <1>1 DEF Event
  <1>3. CASE ~Running(head.id) /\ UNCHANGED <<pc, job>>
    <2>1. ~AtHand(id)' /\ head # StartOf(id)
      BY <1>1, <1>3 DEF AtHand, StartOf
    <2> QED
      BY <1>1, <1>t, <2>1, StartKeepsWaiting
  <1>4. CASE /\ Running(head.id) /\ pc' = "deregister"
             /\ job' = [status |-> head.status, name |-> NameOf[head.id],
                        address |-> address[head.id]]
    <2>1. CASE head.id = id
      <3>1. head.status = "start"
        <4> SUFFICES ASSUME head.status # "start" PROVE FALSE
          OBVIOUS
        <4>1. PICK j \in 1..Len(events) : 1 < j /\ events[j] = StartOf(id)
          BY <1>1, <1>t, <2>1 DEF StopsAreFollowed
        <4>2. j - 1 \in 1..Len(events') /\ events'[j - 1] = StartOf(id)
          BY <1>1, <4>1
        <4> QED
          BY <4>2 DEF StartWaits, StartOf
      <3> QED
        BY <1>4, <2>1, <3>1 DEF AtHand
    <2>2. CASE head.id # id
      <3>1. ~AtHand(id)' /\ head # StartOf(id)
        BY <1>2, <1>4, <1>t, <2>2 DEF AtHand, NamesAreUnique, StartOf
      <3> QED
        BY <1>1, <1>t, <3>1, StartKeepsWaiting
    <2> QED
      BY <2>1, <2>2
  <1> QED
    BY <1>3, <1>4, EventHandled

\* The job at hand for a container that runs is its start, as it is now.
LEMMA JobStaysCurrent == BridgeInv /\ [Next]_vars => JobIsCurrent'
  <1> SUFFICES ASSUME BridgeInv, [Next]_vars, NEW id \in Containers,
                      Running(id)', ~StartWaits(id)', AtHand(id)'
               PROVE  job'.status = "start" /\ job'.address = address'[id]
    BY DEF JobIsCurrent, Running, StartWaits, StartOf, AtHand
  <1>t. JobIsCurrent
    BY DEF BridgeInv
  <1>1. CASE Docker
    BY <1>1, <1>t, DockerLeaves DEF JobIsCurrent, AtHand
  <1>2. CASE HandleEvent
    BY <1>2, HandledJob, EventHandled DEF Running
  <1>3. CASE Deregister
    BY <1>3, <1>t DEF Deregister, dockerVars, JobIsCurrent, AtHand, Running, StartWaits, StartOf
  <1>4. CASE Register \/ RestartBridge
    BY <1>4 DEF Register, RestartBridge, AtHand
  <1>5. CASE UNCHANGED vars
    BY <1>5, <1>t DEF vars, JobIsCurrent, AtHand, Running, StartWaits, StartOf
  <1> QED
    BY <1>1, <1>2, <1>3, <1>4, <1>5 DEF Next, Bridge

\* A container that runs is registered, or its start is still under way.
LEMMA StaysRegistered == BridgeInv /\ [Next]_vars => RegisteredOrWaits'
  <1> SUFFICES ASSUME BridgeInv, [Next]_vars, NEW id \in Containers,
                      Running(id)', ~StartWaits(id)', ~AtHand(id)',
                      NameOf[id] \notin spoilt'
               PROVE  registry'[NameOf[id]] = address'[id]
    BY DEF RegisteredOrWaits, Running, StartWaits, StartOf, AtHand
  <1>t. TypeOK /\ JobIsCurrent /\ RegisteredOrWaits /\ NameOf[id] \in Names
    BY NamesAssumption DEF BridgeInv
  <1>1. CASE Docker
    BY <1>1, <1>t, DockerLeaves DEF RegisteredOrWaits, AtHand
  <1>2. CASE HandleEvent
    <2>1. Running(id) /\ pc = "idle" /\ UNCHANGED <<address, registry, spoilt>>
      BY <1>2, EventHandled DEF Running
    <2>2. ~StartWaits(id) /\ ~AtHand(id)
      BY <1>2, <2>1, HandledJob DEF AtHand
    <2> QED
      BY <1>t, <2>1, <2>2 DEF RegisteredOrWaits
  <1>3. CASE Deregister
    <2>1. Running(id) /\ ~StartWaits(id) /\ NameOf[id] \notin spoilt
      BY <1>3 DEF Deregister, dockerVars, Running, StartWaits, StartOf
    <2>2. job.name # NameOf[id]
      BY <1>3, <1>t, <2>1 DEF Deregister, AtHand, JobIsCurrent
    <2>3. registry[NameOf[id]] = address[id]
      BY <1>t, <2>1, <2>2 DEF RegisteredOrWaits, AtHand
    <2> QED
      BY <1>3, <1>t, <2>2, <2>3 DEF Deregister, dockerVars, TypeOK
  <1>4. CASE Register
    <2>1. Running(id) /\ ~StartWaits(id) /\ pc # "idle" /\ UNCHANGED address
      BY <1>4 DEF Register, dockerVars, Running, StartWaits, StartOf
    <2>2. CASE job.name = NameOf[id]
      <3>1. job.address = address[id]
        BY <1>t, <2>1, <2>2 DEF JobIsCurrent, AtHand
      <3> QED
        BY <1>4, <1>t, <2>1, <2>2, <3>1 DEF Register, TypeOK
    <2>3. CASE job.name # NameOf[id]
      <3>1. registry'[NameOf[id]] = registry[NameOf[id]] /\ NameOf[id] \notin spoilt
        BY <1>4, <1>t, <2>3 DEF Register, TypeOK
      <3> QED
        BY <1>t, <2>1, <2>3, <3>1 DEF RegisteredOrWaits, AtHand
    <2> QED
      BY <2>2, <2>3
  <1>5. CASE RestartBridge
    <2>1. /\ Running(id) /\ UNCHANGED <<address, registry>>
          /\ NameOf[id] \notin spoilt /\ NameOf[id] \notin Lost
      BY <1>5 DEF RestartBridge, dockerVars, Running
    <2>2. ~StartWaits(id)
      <3>1. DOMAIN events = 1..Len(events)
        BY <1>t DEF TypeOK
      <3> QED
        BY <2>1, <3>1 DEF Lost, StartWaits, StartOf
    <2>3. ~AtHand(id)
      BY <1>t, <2>1, <2>2 DEF Lost, JobIsCurrent, AtHand
    <2> QED
      BY <1>t, <2>1, <2>2, <2>3 DEF RegisteredOrWaits
  <1>6. CASE UNCHANGED vars
    BY <1>6, <1>t DEF vars, RegisteredOrWaits, AtHand, Running, StartWaits, StartOf
  <1> QED
    BY <1>1, <1>2, <1>3, <1>4, <1>5, <1>6 DEF Next, Bridge

-----------------------------------------------------------------------------

\* BridgeInv holds at the start and is kept by every step.
LEMMA BridgeInvariant == Spec => []BridgeInv
  <1>1. Init => BridgeInv
    BY NamesAssumption, AddressesAssumption, BoundsAssumption
       DEF Init, BridgeInv, TypeOK, AddressIffRunning, NamesAreUnique, StopsAreFollowed,
           JobIsCurrent, RegisteredOrWaits, Running, AtHand, States
  <1>2. BridgeInv /\ [Next]_vars => BridgeInv'
    <2> SUFFICES ASSUME BridgeInv, [Next]_vars PROVE BridgeInv'
      OBVIOUS
    <2>1. TypeOK' /\ AddressIffRunning' /\ NamesAreUnique'
      BY TypeStep, DockerStep DEF BridgeInv
    <2>2. (pc = "register" => job.status = "start")'
      BY DEF BridgeInv, Next, Docker, Bridge, StartContainer, StopContainer, ContainerDies,
             RemoveContainer, HandleEvent, Deregister, Register, RestartBridge, bridgeVars, vars
    <2> QED
      BY <2>1, <2>2, StopsStayFollowed, JobStaysCurrent, StaysRegistered DEF BridgeInv
  <1> QED
    BY <1>1, <1>2, PTL DEF Spec

\* The variables of Docker, the bridge and consul keep their types: no job is
\* at hand without an address.
THEOREM TypeCorrect == Spec => []TypeOK
  <1>1. BridgeInv => TypeOK
    BY DEF BridgeInv
  <1> QED
    BY <1>1, BridgeInvariant, PTL

\* Whenever all events are handled, every running container whose last start
\* was not lost resolves to its present address, for any number of containers,
\* names and addresses, however long the queue was, and after any number of
\* failed calls and restarts.
THEOREM HandledMeansResolved == Spec => []RunningResolves
  <1>1. BridgeInv => RunningResolves
    BY DEF BridgeInv, RegisteredOrWaits, RunningResolves, Quiet, Running, StartWaits, AtHand
  <1> QED
    BY <1>1, BridgeInvariant, PTL
=============================================================================
