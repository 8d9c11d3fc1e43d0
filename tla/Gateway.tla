------------------------------- MODULE Gateway -------------------------------
(***************************************************************************)
(* The gateway server, Gateway::run (crates/gateway/src/gateway.rs): it    *)
(* accepts clients into tasks that wait for a permit of one semaphore, and *)
(* on shutdown waits until it holds the last reference to that semaphore.  *)
(* What a task does with its client is module Session.                     *)
(***************************************************************************)
EXTENDS Integers, Sequences, FiniteSets

CONSTANTS
    Clients,         \* client connections; an ended one may be used again
    max_connections, \* permits of the semaphore
    Deadline         \* the drain deadline, in ticks

ASSUME ClientsAssumption == IsFiniteSet(Clients)
ASSUME BoundsAssumption == max_connections \in Nat /\ Deadline \in Nat

VARIABLES
    phase,         \* where run is
    cancelled,     \* the shutdown token
    elapsed,       \* ticks since the drain began
    task,          \* the task of each client
    queue,         \* tasks waiting for a permit, first come first served
    permits,       \* permits left
    strong_count   \* references to the semaphore

run == <<phase, cancelled, elapsed>>
vars == <<run, task, queue, permits, strong_count>>

TaskState == {"none", "spawned", "queued", "permitted", "handling", "ending",
              "cut"}

Alive == {c \in Clients : task[c] \notin {"none", "cut"}}
Holding == {c \in Clients : task[c] \in {"permitted", "handling", "ending"}}
Handling == {c \in Clients : task[c] = "handling"}

Init ==
    /\ phase = "accepting" /\ cancelled = FALSE /\ elapsed = 0
    /\ task = [c \in Clients |-> "none"]
    /\ queue = <<>> /\ permits = max_connections
    /\ strong_count = 1

-----------------------------------------------------------------------------
(* Gateway::run                                                            *)

(* Mutant of Accept: the task borrows the semaphore.                       *)
AcceptBorrows(c) ==
    /\ phase = "accepting"
    /\ task[c] = "none"
    /\ task' = [task EXCEPT ![c] = "spawned"]
    /\ UNCHANGED <<run, queue, permits, strong_count>>

Accept(c) ==
    /\ phase = "accepting"
    /\ task[c] = "none"
    /\ task' = [task EXCEPT ![c] = "spawned"]
    /\ strong_count' = strong_count + 1
    /\ UNCHANGED <<run, queue, permits>>

Cancel ==
    /\ phase # "exited" /\ ~cancelled
    /\ cancelled' = TRUE
    /\ UNCHANGED <<phase, elapsed, task, queue, permits, strong_count>>

Break ==
    /\ phase = "accepting" /\ cancelled
    /\ phase' = "draining"
    /\ UNCHANGED <<cancelled, elapsed, task, queue, permits, strong_count>>

DrainTick ==
    /\ phase = "draining" /\ elapsed < Deadline
    /\ elapsed' = elapsed + 1
    /\ UNCHANGED <<phase, cancelled, task, queue, permits, strong_count>>

(* run returns and the process ends; what still runs is cut off.           *)
Exit ==
    /\ phase' = "exited"
    /\ task' = [c \in Clients |-> IF task[c] = "none" THEN "none" ELSE "cut"]
    /\ queue' = <<>>
    /\ UNCHANGED <<cancelled, elapsed, permits, strong_count>>

(* Mutant of DrainEnds: no deadline.                                       *)
DrainEndsOnlyIdle == phase = "draining" /\ strong_count <= 1 /\ Exit

DrainEnds ==
    /\ phase = "draining"
    /\ strong_count <= 1 \/ elapsed >= Deadline
    /\ Exit

-----------------------------------------------------------------------------
(* The task of a client.                                                   *)

Task(c, from, to) == /\ phase # "exited"
                     /\ task[c] = from
                     /\ task' = [task EXCEPT ![c] = to]

Enqueue(c) ==
    /\ Task(c, "spawned", "queued")
    /\ queue' = Append(queue, c)
    /\ UNCHANGED <<run, permits, strong_count>>

(* Mutants of Acquire: no permit needed, and last come first served.       *)
AcquireAlways(c) ==
    /\ Task(c, "queued", "permitted")
    /\ queue # <<>> /\ Head(queue) = c
    /\ permits' = IF permits > 0 THEN permits - 1 ELSE 0
    /\ queue' = Tail(queue)
    /\ UNCHANGED <<run, strong_count>>
AcquireLast(c) ==
    /\ Task(c, "queued", "permitted")
    /\ permits > 0 /\ queue # <<>> /\ queue[Len(queue)] = c
    /\ permits' = permits - 1
    /\ queue' = SubSeq(queue, 1, Len(queue) - 1)
    /\ UNCHANGED <<run, strong_count>>

Acquire(c) ==
    /\ Task(c, "queued", "permitted")
    /\ permits > 0 /\ queue # <<>> /\ Head(queue) = c
    /\ permits' = permits - 1
    /\ queue' = Tail(queue)
    /\ UNCHANGED <<run, strong_count>>

(* A client that got its permit after the shutdown is dropped.             *)
CheckShutdown(c) ==
    /\ Task(c, "permitted", IF cancelled THEN "ending" ELSE "handling")
    /\ UNCHANGED <<run, queue, permits, strong_count>>

handle_connection(c) ==
    /\ Task(c, "handling", "ending")
    /\ UNCHANGED <<run, queue, permits, strong_count>>

(* The permit is dropped, then the task's reference to the semaphore.      *)
TaskEnds(c) ==
    /\ Task(c, "ending", "none")
    /\ permits' = permits + 1
    /\ strong_count' = strong_count - 1
    /\ UNCHANGED <<run, queue>>

TaskStep(c) == \/ Enqueue(c) \/ Acquire(c) \/ CheckShutdown(c) \/ TaskEnds(c)

Next ==
    \/ Cancel \/ Break \/ DrainTick \/ DrainEnds
    \/ \E c \in Clients : Accept(c) \/ TaskStep(c) \/ handle_connection(c)

Spec == Init /\ [][Next]_vars

(* Ready tasks are polled, timers fire, and select! takes a branch that    *)
(* stays ready.  Sessions may last.                                        *)
FairSpec ==
    /\ Spec
    /\ WF_vars(Break) /\ WF_vars(DrainTick) /\ WF_vars(DrainEnds)
    /\ \A c \in Clients : WF_vars(TaskStep(c))

(* Every session ends (EverySessionEnds of module Session).                *)
SessionsEnd == \A c \in Clients : WF_vars(handle_connection(c))

-----------------------------------------------------------------------------
(* The counters stay within what was configured.                           *)
TypeOK ==
    /\ phase \in {"accepting", "draining", "exited"}
    /\ cancelled \in BOOLEAN
    /\ elapsed \in 0 .. Deadline
    /\ task \in [Clients -> TaskState]
    /\ queue \in Seq(Clients)
    /\ permits \in 0 .. max_connections
    /\ strong_count \in Nat

(* gateway.rs: the gateway is "enforcing a global connection ceiling":     *)
(* however tasks queue, check, end and are dropped, no more than           *)
(* max_connections clients are handled at once.                            *)
CeilingHolds == Cardinality(Handling) <= max_connections

(* gateway.rs: "Wait for in-flight tasks to drain": run returns before its *)
(* deadline only when no task is left, waiting ones included.              *)
DrainWaits == [][DrainEnds /\ elapsed < Deadline => Alive = {}]_vars

(* If sessions end, a client that waits for a permit gets one: the         *)
(* semaphore is fair, and every way out of a task gives its permit back.   *)
EveryoneIsServed ==
    SessionsEnd => \A c \in Clients : task[c] = "queued" ~> task[c] # "queued"

(* After Ctrl-C the gateway stops, even when sessions never end.           *)
ShutdownCompletes == cancelled ~> phase = "exited"
=============================================================================
