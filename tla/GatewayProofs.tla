---------------------------- MODULE GatewayProofs ----------------------------
(***************************************************************************)
(* Proofs about the gateway server, for any number of clients and permits. *)
(***************************************************************************)
EXTENDS Gateway, FiniteSetTheorems, TLAPS

(* Every permit is left or held, and the references to the semaphore are   *)
(* run's own and one for each task.  After the exit neither matters.       *)
CountInv ==
    /\ phase # "exited" => /\ permits + Cardinality(Holding) = max_connections
                           /\ strong_count = 1 + Cardinality(Alive)
    /\ phase = "exited" => Handling = {}

IInv == TypeOK /\ CountInv

(* The sets of tasks are finite, and only holders of a permit are handled. *)
LEMMA TasksFinite ==
    /\ IsFiniteSet(Holding) /\ Cardinality(Holding) \in Nat
    /\ IsFiniteSet(Alive) /\ Cardinality(Alive) \in Nat
    /\ IsFiniteSet(Handling) /\ Cardinality(Handling) \in Nat
    /\ Cardinality(Handling) <= Cardinality(Holding)
<1>1. /\ Holding \subseteq Clients /\ Alive \subseteq Clients
      /\ Handling \subseteq Holding
  BY Zenon DEF Holding, Alive, Handling
<1>2. IsFiniteSet(Holding) /\ IsFiniteSet(Alive)
  BY <1>1, ClientsAssumption, FS_Subset, Zenon
<1>3. IsFiniteSet(Handling) /\ Cardinality(Handling) <= Cardinality(Holding)
  BY <1>1, <1>2, FS_Subset, Zenon
<1>4. QED
  BY <1>2, <1>3, FS_CardinalityType, Zenon

(* The gateway starts with all permits left and the only reference.        *)
LEMMA InitInv == Init => IInv
<1> SUFFICES ASSUME Init PROVE IInv
  OBVIOUS
<1>1. TypeOK
  <2>1. queue \in Seq(Clients) /\ task \in [Clients -> TaskState]
    BY DEF Init, TaskState
  <2>2. elapsed \in 0 .. Deadline /\ permits \in 0 .. max_connections
    BY BoundsAssumption DEF Init
  <2>3. cancelled \in BOOLEAN
    BY Zenon DEF Init
  <2>4. QED
    BY <2>1, <2>2, <2>3, Zenon DEF Init, TypeOK
<1>2. Holding = {} /\ Alive = {}
  BY Zenon DEF Init, Holding, Alive
<1>3. Cardinality(Holding) = 0 /\ Cardinality(Alive) = 0
  BY <1>2, FS_EmptySet, Zenon
<1>4. QED
  BY <1>1, <1>3, BoundsAssumption DEF Init, IInv, CountInv

(* What a step of one task leaves alone.                                   *)
LEMMA TaskStepFrame ==
    ASSUME IInv, NEW c \in Clients, NEW from, NEW to \in TaskState,
           Task(c, from, to), UNCHANGED run
    PROVE  /\ phase # "exited" /\ phase' # "exited"
           /\ task' \in [Clients -> TaskState]
           /\ \A d \in Clients : d # c => task'[d] = task[d]
           /\ task[c] = from /\ task'[c] = to
           /\ permits + Cardinality(Holding) = max_connections
           /\ strong_count = 1 + Cardinality(Alive)
           /\ permits \in Nat /\ strong_count \in Nat
           /\ max_connections \in Nat /\ queue \in Seq(Clients)
  BY BoundsAssumption DEF IInv, CountInv, TypeOK, Task, run

(* A step between two states that hold or do not hold alike.               *)
LEMMA SameSets ==
    ASSUME IInv, NEW c \in Clients, NEW from, NEW to \in TaskState,
           Task(c, from, to), UNCHANGED <<run, permits, strong_count>>,
           queue' \in Seq(Clients),
           from \notin {"none", "cut"}, to \notin {"none", "cut"},
           from \in {"permitted", "handling", "ending"}
              <=> to \in {"permitted", "handling", "ending"}
    PROVE  IInv'
<1>1. /\ phase # "exited" /\ phase' # "exited"
      /\ task' \in [Clients -> TaskState]
      /\ \A d \in Clients : d # c => task'[d] = task[d]
      /\ task[c] = from /\ task'[c] = to
  BY TaskStepFrame, Zenon
<1>2. Holding' = Holding /\ Alive' = Alive
  BY <1>1, Zenon DEF Holding, Alive
<1>3. TypeOK'
  BY <1>1, Zenon DEF IInv, TypeOK, run
<1>4. QED
  BY <1>1, <1>2, <1>3, Zenon DEF IInv, CountInv

(* accept clones the reference for the new task.                           *)
LEMMA AcceptInv == ASSUME IInv, NEW c \in Clients, Accept(c) PROVE IInv'
<1>1. /\ phase = "accepting" /\ task' \in [Clients -> TaskState]
      /\ \A d \in Clients : d # c => task'[d] = task[d]
      /\ task[c] = "none" /\ task'[c] = "spawned"
      /\ strong_count' = strong_count + 1 /\ strong_count \in Nat
      /\ UNCHANGED <<run, queue, permits>>
  BY Zenon DEF Accept, IInv, TypeOK, TaskState
<1>2. Holding' = Holding /\ Alive' = Alive \cup {c} /\ c \notin Alive
  BY <1>1, Zenon DEF Holding, Alive
<1>3. Cardinality(Alive') = Cardinality(Alive) + 1
  BY <1>2, TasksFinite, FS_AddElement, Zenon
<1>4. strong_count' = 1 + Cardinality(Alive') /\ strong_count' \in Nat
  BY <1>1, <1>3, TasksFinite DEF IInv, CountInv
<1>5. TypeOK'
  BY <1>1, <1>4, Zenon DEF IInv, TypeOK, run
<1>6. QED
  BY <1>1, <1>2, <1>4, <1>5, Zenon DEF IInv, CountInv, run

(* A permit moves from the semaphore to the task.                          *)
LEMMA AcquireInv == ASSUME IInv, NEW c \in Clients, Acquire(c) PROVE IInv'
<1>1. /\ phase # "exited" /\ phase' # "exited"
      /\ task' \in [Clients -> TaskState]
      /\ \A d \in Clients : d # c => task'[d] = task[d]
      /\ task[c] = "queued" /\ task'[c] = "permitted"
      /\ permits + Cardinality(Holding) = max_connections
      /\ permits \in Nat /\ max_connections \in Nat
  BY TaskStepFrame, Zenon DEF Acquire, TaskState
<1>2. Holding' = Holding \cup {c} /\ c \notin Holding /\ Alive' = Alive
  BY <1>1, Zenon DEF Holding, Alive
<1>3. Cardinality(Holding') = Cardinality(Holding) + 1
  BY <1>2, TasksFinite, FS_AddElement, Zenon
<1>4. /\ permits' = permits - 1 /\ permits > 0 /\ queue' = Tail(queue)
      /\ queue # <<>> /\ queue \in Seq(Clients)
      /\ UNCHANGED <<phase, cancelled, elapsed, strong_count>>
  BY Zenon DEF Acquire, run, IInv, TypeOK
<1>5. queue' \in Seq(Clients)
  BY <1>4
<1>6. permits' \in 0 .. max_connections
  BY <1>1, <1>4 DEF IInv, TypeOK
<1>7. TypeOK'
  BY <1>1, <1>4, <1>5, <1>6, Zenon DEF IInv, TypeOK
<1>8. permits' + Cardinality(Holding') = max_connections
  BY <1>1, <1>3, <1>4, TasksFinite
<1>9. QED
  BY <1>1, <1>2, <1>4, <1>7, <1>8, Zenon DEF IInv, CountInv

(* A task that ends gives back its permit and its reference.               *)
LEMMA TaskEndsInv == ASSUME IInv, NEW c \in Clients, TaskEnds(c) PROVE IInv'
<1>1. /\ phase # "exited" /\ phase' # "exited"
      /\ task' \in [Clients -> TaskState]
      /\ \A d \in Clients : d # c => task'[d] = task[d]
      /\ task[c] = "ending" /\ task'[c] = "none"
      /\ permits + Cardinality(Holding) = max_connections
      /\ strong_count = 1 + Cardinality(Alive)
      /\ permits \in Nat /\ strong_count \in Nat /\ max_connections \in Nat
  BY TaskStepFrame, Zenon DEF TaskEnds, TaskState
<1>2. /\ Holding' = Holding \ {c} /\ c \in Holding
      /\ Alive' = Alive \ {c} /\ c \in Alive
  BY <1>1, Zenon DEF Holding, Alive
<1>3. /\ Cardinality(Holding') = Cardinality(Holding) - 1
      /\ Cardinality(Alive') = Cardinality(Alive) - 1
  BY <1>2, TasksFinite, FS_RemoveElement, Zenon
<1>4. Cardinality(Holding') \in Nat /\ Cardinality(Alive') \in Nat
  BY <1>2, TasksFinite, FS_Subset, FS_CardinalityType, Zenon
<1>5. /\ permits' = permits + 1 /\ strong_count' = strong_count - 1
      /\ UNCHANGED <<run, queue>>
  BY Zenon DEF TaskEnds
<1>6. /\ permits' + Cardinality(Holding') = max_connections
      /\ permits' \in 0 .. max_connections
      /\ strong_count' = 1 + Cardinality(Alive') /\ strong_count' \in Nat
  BY <1>1, <1>3, <1>4, <1>5, TasksFinite
<1>7. TypeOK'
  BY <1>1, <1>5, <1>6, Zenon DEF IInv, TypeOK, run
<1>8. QED
  BY <1>1, <1>6, <1>7, Zenon DEF IInv, CountInv

(* Every step of run and of a task keeps the counters exact.               *)
LEMMA NextInv == IInv /\ [Next]_vars => IInv'
<1> SUFFICES ASSUME IInv, [Next]_vars PROVE IInv'
  OBVIOUS
<1>1. ASSUME TypeOK', UNCHANGED <<task, permits, strong_count>>,
             phase' # "exited", phase # "exited"
      PROVE  IInv'
  <2>1. Holding' = Holding /\ Alive' = Alive
    BY <1>1, Zenon DEF Holding, Alive
  <2>2. QED
    BY <1>1, <2>1, Zenon DEF IInv, CountInv
<1>2. CASE Cancel
  <2>1. TypeOK'
    BY <1>2, Zenon DEF Cancel, IInv, TypeOK
  <2>2. QED
    BY <1>1, <1>2, <2>1, Zenon DEF Cancel
<1>3. CASE Break
  <2>1. TypeOK'
    BY <1>3, Zenon DEF Break, IInv, TypeOK
  <2>2. QED
    BY <1>1, <1>3, <2>1, Zenon DEF Break
<1>4. CASE DrainTick
  <2>1. TypeOK'
    BY <1>4, BoundsAssumption DEF DrainTick, IInv, TypeOK
  <2>2. QED
    BY <1>1, <1>4, <2>1, Zenon DEF DrainTick
<1>5. CASE DrainEnds
  <2>1. /\ task' \in [Clients -> TaskState] /\ queue' \in Seq(Clients)
        /\ \A c \in Clients : task'[c] \in {"none", "cut"}
    BY <1>5 DEF DrainEnds, Exit, TaskState
  <2>2. TypeOK'
    BY <1>5, <2>1, Zenon DEF DrainEnds, Exit, IInv, TypeOK
  <2>3. Handling' = {} /\ phase' = "exited"
    BY <1>5, <2>1, Zenon DEF Handling, DrainEnds, Exit
  <2>4. QED
    BY <2>2, <2>3, Zenon DEF IInv, CountInv
<1>6. ASSUME NEW c \in Clients, Enqueue(c) PROVE IInv'
  <2>1. queue \in Seq(Clients)
    BY Zenon DEF IInv, TypeOK
  <2>2. queue' \in Seq(Clients)
    BY <1>6, <2>1 DEF Enqueue
  <2>3. QED
    BY <1>6, <2>2, SameSets, Zenon DEF Enqueue, TaskState
<1>7. ASSUME NEW c \in Clients, CheckShutdown(c) PROVE IInv'
  <2>1. queue' \in Seq(Clients)
    BY <1>7, Zenon DEF CheckShutdown, IInv, TypeOK
  <2>2. CASE cancelled
    BY <1>7, <2>1, <2>2, SameSets, Zenon DEF CheckShutdown, TaskState
  <2>3. CASE ~cancelled
    BY <1>7, <2>1, <2>3, SameSets, Zenon DEF CheckShutdown, TaskState
  <2>4. QED
    BY <2>2, <2>3, Zenon
<1>8. ASSUME NEW c \in Clients, handle_connection(c) PROVE IInv'
  <2>1. queue' \in Seq(Clients)
    BY <1>8, Zenon DEF handle_connection, IInv, TypeOK
  <2>2. QED
    BY <1>8, <2>1, SameSets, Zenon DEF handle_connection, TaskState
<1>9. CASE UNCHANGED vars
  <2>1. Holding' = Holding /\ Alive' = Alive /\ Handling' = Handling
    BY <1>9, Zenon DEF Holding, Alive, Handling, vars
  <2>2. QED
    BY <1>9, <2>1, Zenon DEF vars, run, IInv, TypeOK, CountInv
<1>10. QED
  BY <1>2, <1>3, <1>4, <1>5, <1>6, <1>7, <1>8, <1>9, AcceptInv, AcquireInv,
     TaskEndsInv, Zenon DEF Next, TaskStep

(* The variables of the gateway keep their types.                          *)
THEOREM TypeCorrect == Spec => []TypeOK
<1>1. IInv => TypeOK
  BY Zenon DEF IInv
<1>2. QED
  BY InitInv, NextInv, <1>1, PTL DEF Spec

(* The gateway never handles more than max_connections clients at once.    *)
THEOREM CeilingIsKept == Spec => []CeilingHolds
<1>1. IInv => CeilingHolds
  <2> SUFFICES ASSUME IInv PROVE CeilingHolds
    OBVIOUS
  <2>1. CASE phase = "exited"
    BY <2>1, FS_EmptySet, BoundsAssumption DEF IInv, CountInv, CeilingHolds
  <2>2. CASE phase # "exited"
    <3>1. /\ permits + Cardinality(Holding) = max_connections
          /\ permits \in Nat /\ max_connections \in Nat
      BY <2>2, BoundsAssumption DEF IInv, CountInv, TypeOK
    <3>2. QED
      BY <3>1, TasksFinite DEF CeilingHolds
  <2>3. QED
    BY <2>1, <2>2, Zenon
<1>2. QED
  BY InitInv, NextInv, <1>1, PTL DEF Spec

(* Before its deadline the drain of run never cuts off a task.             *)
THEOREM DrainIsCareful == Spec => DrainWaits
<1>1. IInv /\ [Next]_vars
        => [DrainEnds /\ elapsed < Deadline => Alive = {}]_vars
  <2> SUFFICES ASSUME IInv, DrainEnds, elapsed < Deadline PROVE Alive = {}
    OBVIOUS
  <2>1. strong_count <= 1
    BY BoundsAssumption DEF DrainEnds, IInv, TypeOK
  <2>2. strong_count = 1 + Cardinality(Alive)
    BY Zenon DEF DrainEnds, IInv, CountInv
  <2>3. Cardinality(Alive) = 0
    BY <2>1, <2>2, TasksFinite
  <2>4. QED
    BY <2>3, TasksFinite, FS_EmptySet, Zenon
<1>2. QED
  BY InitInv, NextInv, <1>1, PTL DEF Spec, DrainWaits
=============================================================================
