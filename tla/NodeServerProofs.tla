-------------------------- MODULE NodeServerProofs --------------------------
(***************************************************************************)
(* Proofs about the node agent, for any number of connections and permits. *)
(***************************************************************************)
EXTENDS NodeServer, FiniteSetTheorems, TLAPS

(* Every permit is left or held, and exactly the counted connections are   *)
(* in the counter.  Once the process has exited neither matters.           *)
CountInv ==
    /\ phase # "exited" => /\ permits + Cardinality(Holding) = max_connections
                           /\ active = Cardinality(Counted)
    /\ active <= max_connections
    /\ hb.load <= max_connections

IInv == TypeOK /\ CountInv

(* Only a task that holds a permit is counted.                             *)
LEMMA CountedHold ==
    /\ IsFiniteSet(Holding) /\ Cardinality(Holding) \in Nat
    /\ IsFiniteSet(Counted) /\ Cardinality(Counted) \in Nat
    /\ Cardinality(Counted) <= Cardinality(Holding)
<1>1. Holding \subseteq Conns /\ Counted \subseteq Holding
  BY Zenon DEF Holding, Counted
<1>2. IsFiniteSet(Holding)
  BY <1>1, ConnsAssumption, FS_Subset, Zenon
<1>3. IsFiniteSet(Counted) /\ Cardinality(Counted) <= Cardinality(Holding)
  BY <1>1, <1>2, FS_Subset, Zenon
<1>4. QED
  BY <1>2, <1>3, FS_CardinalityType, Zenon

(* The agent starts with all permits left and nothing counted.             *)
LEMMA InitInv == Init => IInv
<1> SUFFICES ASSUME Init PROVE IInv
  OBVIOUS
<1>1. TypeOK
  <2>1. /\ queue \in Seq(Conns) /\ conn \in [Conns -> ConnState]
        /\ hb \in [pc : {"off", "waiting", "sending"}, load : Nat]
    BY DEF Init, ConnState
  <2>2. /\ elapsed \in 0 .. Deadline /\ permits \in 0 .. max_connections
    BY BoundsAssumption DEF Init
  <2>3. cancelled \in BOOLEAN
    BY Zenon DEF Init
  <2>4. QED
    BY <2>1, <2>2, <2>3, Zenon DEF Init, TypeOK
<1>2. Holding = {} /\ Counted = {}
  BY Zenon DEF Init, Holding, Counted
<1>3. Cardinality(Holding) = 0 /\ Cardinality(Counted) = 0
  BY <1>2, FS_EmptySet, Zenon
<1>4. QED
  BY <1>1, <1>3, BoundsAssumption DEF Init, IInv, CountInv

(* A step that changes no task and neither counter keeps CountInv if the   *)
(* heartbeat carries the counter or nothing.                               *)
LEMMA OtherStep ==
    ASSUME IInv, TypeOK', UNCHANGED <<tasks, active>>,
           phase' # "exited" => phase # "exited",
           hb'.load \in {hb.load, active, 0}
    PROVE  IInv'
<1>1. Holding' = Holding /\ Counted' = Counted
  BY Zenon DEF Holding, Counted, tasks
<1>2. QED
  BY <1>1, BoundsAssumption DEF IInv, CountInv, tasks

(* A task step leaves run and the heartbeat alone.                         *)
LEMMA RunningStep ==
    ASSUME IInv, NEW c \in Conns, NEW from, NEW to \in ConnState,
           Task(c, from, to)
    PROVE  /\ phase # "exited" /\ conn' \in [Conns -> ConnState]
           /\ \A d \in Conns : d # c => conn'[d] = conn[d]
           /\ conn[c] = from /\ conn'[c] = to
           /\ permits + Cardinality(Holding) = max_connections
           /\ active = Cardinality(Counted)
           /\ permits \in Nat /\ active \in Nat /\ max_connections \in Nat
           /\ queue \in Seq(Conns)
  BY BoundsAssumption DEF IInv, CountInv, TypeOK, Task, Running

(* Queueing and checking change neither set.                               *)
LEMMA EnqueueInv == ASSUME IInv, NEW c \in Conns, Enqueue(c) PROVE IInv'
<1>1. /\ phase # "exited" /\ conn' \in [Conns -> ConnState]
      /\ \A d \in Conns : d # c => conn'[d] = conn[d]
      /\ conn[c] = "spawned" /\ conn'[c] = "queued" /\ queue \in Seq(Conns)
  BY RunningStep, Zenon DEF Enqueue, ConnState
<1>2. Holding' = Holding /\ Counted' = Counted
  BY <1>1, Zenon DEF Holding, Counted
<1>3. TypeOK'
  BY <1>1 DEF Enqueue, IInv, TypeOK, run
<1>4. QED
  BY <1>2, <1>3, Zenon DEF Enqueue, IInv, CountInv, run

(* A permit moves from the semaphore to the task.                          *)
LEMMA AcquireInv == ASSUME IInv, NEW c \in Conns, Acquire(c) PROVE IInv'
<1>1. /\ phase # "exited" /\ conn' \in [Conns -> ConnState]
      /\ \A d \in Conns : d # c => conn'[d] = conn[d]
      /\ conn[c] = "queued" /\ conn'[c] = "permitted"
      /\ permits + Cardinality(Holding) = max_connections
      /\ permits \in Nat /\ max_connections \in Nat
  BY RunningStep, Zenon DEF Acquire, ConnState
<1>2. Holding' = Holding \cup {c} /\ c \notin Holding /\ Counted' = Counted
  BY <1>1, Zenon DEF Holding, Counted
<1>3. Cardinality(Holding') = Cardinality(Holding) + 1
  BY <1>2, CountedHold, FS_AddElement, Zenon
<1>4. /\ permits' = permits - 1 /\ permits > 0 /\ queue' = Tail(queue)
      /\ queue # <<>> /\ queue \in Seq(Conns)
      /\ UNCHANGED <<phase, cancelled, elapsed, active, hb>>
  BY Zenon DEF Acquire, run, IInv, TypeOK
<1>5. queue' \in Seq(Conns)
  BY <1>4
<1>6. permits' \in 0 .. max_connections
  BY <1>1, <1>4 DEF IInv, TypeOK
<1>7. TypeOK'
  BY <1>1, <1>4, <1>5, <1>6, Zenon DEF IInv, TypeOK
<1>8. permits' + Cardinality(Holding') = max_connections
  BY <1>1, <1>3, <1>4, CountedHold
<1>9. QED
  BY <1>2, <1>4, <1>7, <1>8, Zenon DEF IInv, CountInv

(* A cancelled task ends without having counted itself.                    *)
LEMMA CheckInv == ASSUME IInv, NEW c \in Conns, CheckShutdown(c) PROVE IInv'
<1> DEFINE to == IF cancelled THEN "ending" ELSE "checked"
<1>1. to \in {"ending", "checked"} /\ to \in ConnState
  BY Zenon DEF ConnState
<1> HIDE DEF to
<1>2. Task(c, "permitted", to)
  BY Zenon DEF CheckShutdown, to
<1>3. /\ phase # "exited" /\ conn' \in [Conns -> ConnState]
      /\ \A d \in Conns : d # c => conn'[d] = conn[d]
      /\ conn[c] = "permitted" /\ conn'[c] = to
  BY <1>1, <1>2, RunningStep, Zenon
<1>4. Holding' = Holding /\ Counted' = Counted
  BY <1>1, <1>3, Zenon DEF Holding, Counted
<1>5. UNCHANGED <<run, queue, permits, active, hb>>
  BY Zenon DEF CheckShutdown
<1>6. TypeOK'
  BY <1>3, <1>5, Zenon DEF IInv, TypeOK, run
<1>7. QED
  BY <1>4, <1>5, <1>6, Zenon DEF IInv, CountInv, run

(* fetch_add comes after the permit, so the counter stays below the        *)
(* ceiling.                                                                *)
LEMMA CountUpInv == ASSUME IInv, NEW c \in Conns, CountUp(c) PROVE IInv'
<1>1. /\ phase # "exited" /\ conn' \in [Conns -> ConnState]
      /\ \A d \in Conns : d # c => conn'[d] = conn[d]
      /\ conn[c] = "checked" /\ conn'[c] = "active"
      /\ permits + Cardinality(Holding) = max_connections
      /\ active = Cardinality(Counted)
      /\ permits \in Nat /\ active \in Nat /\ max_connections \in Nat
  BY RunningStep, Zenon DEF CountUp, ConnState
<1>2. Holding' = Holding /\ Counted' = Counted \cup {c} /\ c \notin Counted
  BY <1>1, Zenon DEF Holding, Counted
<1>3. Cardinality(Counted') = Cardinality(Counted) + 1
  BY <1>2, CountedHold, FS_AddElement, Zenon
<1>4. Cardinality(Counted') <= Cardinality(Holding)
      /\ Cardinality(Holding) \in Nat
  <2>1. Counted' \subseteq Holding
    BY <1>1, <1>2, Zenon DEF Holding, Counted
  <2>2. QED
    BY <2>1, CountedHold, FS_Subset, Zenon
<1>5. /\ active' = active + 1
      /\ UNCHANGED <<run, queue, permits, hb>>
  BY Zenon DEF CountUp
<1>6. TypeOK'
  BY <1>1, <1>5 DEF IInv, TypeOK, run
<1>7. active' = Cardinality(Counted') /\ active' <= max_connections
  BY <1>1, <1>3, <1>4, <1>5
<1>8. QED
  BY <1>2, <1>5, <1>6, <1>7, Zenon DEF IInv, CountInv, run

(* A session that ends is still counted.                                   *)
LEMMA HandleInv == ASSUME IInv, NEW c \in Conns, handle_connection(c) PROVE IInv'
<1>1. /\ phase # "exited" /\ conn' \in [Conns -> ConnState]
      /\ \A d \in Conns : d # c => conn'[d] = conn[d]
      /\ conn[c] = "active" /\ conn'[c] = "handled"
  BY RunningStep, Zenon DEF handle_connection, ConnState
<1>2. Holding' = Holding /\ Counted' = Counted
  BY <1>1, Zenon DEF Holding, Counted
<1>3. UNCHANGED <<run, queue, permits, active, hb>>
  BY Zenon DEF handle_connection
<1>4. TypeOK'
  BY <1>1, <1>3, Zenon DEF IInv, TypeOK, run
<1>5. QED
  BY <1>2, <1>3, <1>4, Zenon DEF IInv, CountInv, run

(* fetch_sub never goes below zero.                                        *)
LEMMA CountDownInv == ASSUME IInv, NEW c \in Conns, CountDown(c) PROVE IInv'
<1>1. /\ phase # "exited" /\ conn' \in [Conns -> ConnState]
      /\ \A d \in Conns : d # c => conn'[d] = conn[d]
      /\ conn[c] = "handled" /\ conn'[c] = "ending"
      /\ active = Cardinality(Counted) /\ active \in Nat
      /\ max_connections \in Nat
  BY RunningStep, Zenon DEF CountDown, ConnState
<1>2. Holding' = Holding /\ Counted' = Counted \ {c} /\ c \in Counted
  BY <1>1, Zenon DEF Holding, Counted
<1>3. Cardinality(Counted') = Cardinality(Counted) - 1
  BY <1>2, CountedHold, FS_RemoveElement, Zenon
<1>4. Cardinality(Counted') \in Nat
  BY <1>2, CountedHold, FS_Subset, FS_CardinalityType, Zenon
<1>5. /\ active' = active - 1
      /\ UNCHANGED <<run, queue, permits, hb>>
  BY Zenon DEF CountDown
<1>6. active' = Cardinality(Counted') /\ active' \in Nat
      /\ active' <= max_connections
  BY <1>1, <1>3, <1>4, <1>5 DEF IInv, CountInv
<1>7. TypeOK'
  BY <1>1, <1>5, <1>6, Zenon DEF IInv, TypeOK, run
<1>8. QED
  BY <1>2, <1>5, <1>6, <1>7, Zenon DEF IInv, CountInv, run

(* The permit goes back to the semaphore.                                  *)
LEMMA ReleaseInv == ASSUME IInv, NEW c \in Conns, Release(c) PROVE IInv'
<1>1. /\ phase # "exited" /\ conn' \in [Conns -> ConnState]
      /\ \A d \in Conns : d # c => conn'[d] = conn[d]
      /\ conn[c] = "ending" /\ conn'[c] = "none"
      /\ permits + Cardinality(Holding) = max_connections
      /\ permits \in Nat /\ max_connections \in Nat
  BY RunningStep, Zenon DEF Release, ConnState
<1>2. Holding' = Holding \ {c} /\ c \in Holding /\ Counted' = Counted
  BY <1>1, Zenon DEF Holding, Counted
<1>3. Cardinality(Holding') = Cardinality(Holding) - 1
  BY <1>2, CountedHold, FS_RemoveElement, Zenon
<1>4. Cardinality(Holding') \in Nat
  BY <1>2, CountedHold, FS_Subset, FS_CardinalityType, Zenon
<1>5. /\ permits' = permits + 1
      /\ UNCHANGED <<run, queue, active, hb>>
  BY Zenon DEF Release
<1>6. permits' + Cardinality(Holding') = max_connections
      /\ permits' \in 0 .. max_connections
  BY <1>1, <1>3, <1>4, <1>5, CountedHold
<1>7. TypeOK'
  BY <1>1, <1>5, <1>6, Zenon DEF IInv, TypeOK, run
<1>8. QED
  BY <1>2, <1>5, <1>6, <1>7, Zenon DEF IInv, CountInv, run

(* Every step of run, of a task and of the heartbeat loop keeps the        *)
(* counters exact.                                                         *)
LEMMA NextInv == IInv /\ [Next]_vars => IInv'
<1> SUFFICES ASSUME IInv, [Next]_vars PROVE IInv'
  OBVIOUS
<1>1. CASE Register
  <2>1. TypeOK'
    BY <1>1, Zenon DEF Register, IInv, TypeOK, tasks
  <2>2. QED
    BY <1>1, <2>1, OtherStep, Zenon DEF Register, IInv, TypeOK
<1>2. CASE Bind
  <2>1. TypeOK'
    BY <1>2, Zenon DEF Bind, IInv, TypeOK, tasks
  <2>2. QED
    BY <1>2, <2>1, OtherStep, Zenon DEF Bind
<1>3. ASSUME Exit PROVE IInv'
  <2>1. conn' \in [Conns -> ConnState] /\ queue' \in Seq(Conns)
    BY <1>3 DEF Exit, ConnState
  <2>2. TypeOK'
    BY <1>3, <2>1, Zenon DEF Exit, IInv, TypeOK
  <2>3. QED
    BY <1>3, <2>2, BoundsAssumption DEF Exit, IInv, CountInv
<1>4. ASSUME NEW c \in Conns, Accept(c) PROVE IInv'
  <2>1. /\ conn' \in [Conns -> ConnState]
        /\ \A d \in Conns : d # c => conn'[d] = conn[d]
        /\ conn[c] = "none" /\ conn'[c] = "spawned"
    BY <1>4, Zenon DEF Accept, IInv, TypeOK, ConnState
  <2>2. Holding' = Holding /\ Counted' = Counted
    BY <2>1, Zenon DEF Holding, Counted
  <2>3. TypeOK'
    BY <1>4, <2>1, Zenon DEF Accept, IInv, TypeOK, run
  <2>4. QED
    BY <1>4, <2>2, <2>3, Zenon DEF Accept, IInv, CountInv, run
<1>5. CASE Cancel
  <2>1. TypeOK'
    BY <1>5, Zenon DEF Cancel, IInv, TypeOK, tasks
  <2>2. QED
    BY <1>5, <2>1, OtherStep, Zenon DEF Cancel
<1>6. CASE Break
  <2>1. TypeOK'
    BY <1>6, Zenon DEF Break, IInv, TypeOK, tasks
  <2>2. QED
    BY <1>6, <2>1, OtherStep, Zenon DEF Break
<1>7. CASE DrainTick
  <2>1. TypeOK'
    BY <1>7, BoundsAssumption DEF DrainTick, IInv, TypeOK, tasks
  <2>2. QED
    BY <1>7, <2>1, OtherStep, Zenon DEF DrainTick
<1>8. CASE HeartbeatTick
  <2>1. TypeOK' /\ hb'.load = active
    BY <1>8, Zenon DEF HeartbeatTick, IInv, TypeOK, tasks, run
  <2>2. QED
    BY <1>8, <2>1, OtherStep, Zenon DEF HeartbeatTick, run
<1>9. CASE HeartbeatSent \/ HeartbeatStops
  <2>1. TypeOK' /\ hb'.load = 0
    BY <1>9 DEF HeartbeatSent, HeartbeatStops, IInv, TypeOK, tasks, run
  <2>2. UNCHANGED <<tasks, active, phase>>
    BY <1>9, Zenon DEF HeartbeatSent, HeartbeatStops, run
  <2>3. QED
    BY <2>1, <2>2, OtherStep, Zenon
<1>10. CASE UNCHANGED vars
  <2>1. TypeOK'
    BY <1>10, Zenon DEF vars, run, tasks, IInv, TypeOK
  <2>2. QED
    BY <1>10, <2>1, OtherStep, Zenon DEF vars, run
<1>11. QED
  BY <1>1, <1>2, <1>3, <1>4, <1>5, <1>6, <1>7, <1>8, <1>9, <1>10, EnqueueInv,
     AcquireInv, CheckInv, CountUpInv, HandleInv, CountDownInv, ReleaseInv, Zenon
  DEF Next, TaskStep, BindFails, DrainEnds

(* The variables of the node agent keep their types.                       *)
THEOREM TypeCorrect == Spec => []TypeOK
<1>1. IInv => TypeOK
  BY Zenon DEF IInv
<1>2. QED
  BY InitInv, NextInv, <1>1, PTL DEF Spec

(* Neither the counter nor the load in a heartbeat exceeds the registered  *)
(* max_connections.                                                        *)
THEOREM LoadFits == Spec => []ReportedLoadFits
<1>1. IInv => ReportedLoadFits
  BY Zenon DEF IInv, CountInv, ReportedLoadFits
<1>2. QED
  BY InitInv, NextInv, <1>1, PTL DEF Spec

(* Before its deadline the drain of run never cuts off a connection that   *)
(* it has counted.                                                         *)
THEOREM DrainIsCareful == Spec => DrainSparesCounted
<1>1. IInv /\ [Next]_vars
        => [DrainEnds /\ elapsed < Deadline => Counted = {}]_vars
  <2> SUFFICES ASSUME IInv, DrainEnds, elapsed < Deadline PROVE Counted = {}
    OBVIOUS
  <2>1. active = 0
    BY BoundsAssumption DEF DrainEnds, IInv, TypeOK
  <2>2. active = Cardinality(Counted)
    BY Zenon DEF DrainEnds, IInv, CountInv
  <2>3. QED
    BY <2>1, <2>2, CountedHold, FS_EmptySet, Zenon
<1>2. QED
  BY InitInv, NextInv, <1>1, PTL DEF Spec, DrainSparesCounted
=============================================================================
