----------------------------- MODULE NodeServer -----------------------------
(***************************************************************************)
(* The node agent, NodeServer::run (crates/node/src/server.rs): it         *)
(* registers once, starts the heartbeat loop, accepts connections into     *)
(* tasks that wait for a semaphore permit, and on shutdown waits for the   *)
(* connections it counts.  The tasks, the heartbeat loop and run itself    *)
(* run on several threads, so they interleave between any two accesses to  *)
(* what they share.  NodeStats also has byte counters; nothing adds to     *)
(* them and they are left out.                                             *)
(***************************************************************************)
EXTENDS Integers, Sequences, FiniteSets

CONSTANTS
    Conns,           \* connections; an ended one may be used again
    max_connections, \* permits of the semaphore
    Deadline         \* the drain deadline, in ticks

ASSUME ConnsAssumption == IsFiniteSet(Conns)
ASSUME BoundsAssumption == /\ max_connections \in Nat
                           /\ Deadline \in Nat

VARIABLES
    phase,       \* where run is
    cancelled,   \* the shutdown token
    conn,        \* the connections and their tasks
    queue,       \* tasks waiting for a permit, first come first served
    permits,     \* permits left
    active,      \* NodeStats::active_connections
    hb,          \* the heartbeat loop
    elapsed      \* ticks since the drain began

run == <<phase, cancelled, elapsed>>
tasks == <<conn, queue, permits>>
vars == <<run, tasks, active, hb>>

ConnState == {"none", "spawned", "queued", "permitted", "checked", "active",
              "handled", "ending", "cut"}

(* The tasks that hold a permit, and those that are counted in active.     *)
Holding == {c \in Conns : conn[c] \in {"permitted", "checked", "active",
                                       "handled", "ending"}}
Counted == {c \in Conns : conn[c] \in {"active", "handled"}}

Running == phase \notin {"registering", "exited"}

Init ==
    /\ phase = "registering"
    /\ cancelled = FALSE /\ elapsed = 0
    /\ conn = [c \in Conns |-> "none"]
    /\ queue = <<>> /\ permits = max_connections
    /\ active = 0
    /\ hb = [pc |-> "off", load |-> 0]

-----------------------------------------------------------------------------
(* NodeServer::run                                                         *)

(* client.register returns, accepted or not: run goes on either way.       *)
Register ==
    /\ phase = "registering"
    /\ phase' = "binding"
    /\ hb' = [hb EXCEPT !.pc = "waiting"]
    /\ UNCHANGED <<cancelled, elapsed, tasks, active>>

(* run returns, and with it the process: whatever still runs is cut off.   *)
Exit ==
    /\ phase' = "exited"
    /\ hb' = [pc |-> "off", load |-> 0]
    /\ conn' = [c \in Conns |-> IF conn[c] = "none" THEN "none" ELSE "cut"]
    /\ queue' = <<>>
    /\ UNCHANGED <<cancelled, elapsed, permits, active>>

Bind ==
    /\ phase = "binding"
    /\ phase' = "accepting"
    /\ UNCHANGED <<cancelled, elapsed, tasks, active, hb>>

BindFails == phase = "binding" /\ Exit

Accept(c) ==
    /\ phase = "accepting"
    /\ conn[c] = "none"
    /\ conn' = [conn EXCEPT ![c] = "spawned"]
    /\ UNCHANGED <<run, queue, permits, active, hb>>

(* main: Ctrl-C cancels the token.                                         *)
Cancel ==
    /\ phase # "exited" /\ ~cancelled
    /\ cancelled' = TRUE
    /\ UNCHANGED <<phase, elapsed, tasks, active, hb>>

Break ==
    /\ phase = "accepting" /\ cancelled
    /\ phase' = "draining"
    /\ UNCHANGED <<cancelled, elapsed, tasks, active, hb>>

DrainTick ==
    /\ phase = "draining" /\ elapsed < Deadline
    /\ elapsed' = elapsed + 1
    /\ UNCHANGED <<phase, cancelled, tasks, active, hb>>

(* Mutants of DrainEnds: no deadline, and one connection too many.         *)
DrainEndsOnlyIdle == phase = "draining" /\ active = 0 /\ Exit
DrainEndsAtOne ==
    /\ phase = "draining"
    /\ active <= 1 \/ elapsed >= Deadline
    /\ Exit

DrainEnds ==
    /\ phase = "draining"
    /\ active = 0 \/ elapsed >= Deadline
    /\ Exit

-----------------------------------------------------------------------------
(* The task of a connection, one step for each access to shared state.     *)

Task(c, from, to) == /\ Running
                     /\ conn[c] = from
                     /\ conn' = [conn EXCEPT ![c] = to]

Enqueue(c) ==
    /\ Task(c, "spawned", "queued")
    /\ queue' = Append(queue, c)
    /\ UNCHANGED <<run, permits, active, hb>>

(* Mutants of Acquire: last come first served, and no permit needed.       *)
AcquireLast(c) ==
    /\ Task(c, "queued", "permitted")
    /\ permits > 0 /\ queue # <<>> /\ queue[Len(queue)] = c
    /\ permits' = permits - 1
    /\ queue' = SubSeq(queue, 1, Len(queue) - 1)
    /\ UNCHANGED <<run, active, hb>>
AcquireAlways(c) ==
    /\ Task(c, "queued", "permitted")
    /\ queue # <<>> /\ Head(queue) = c
    /\ permits' = IF permits > 0 THEN permits - 1 ELSE 0
    /\ queue' = Tail(queue)
    /\ UNCHANGED <<run, active, hb>>

Acquire(c) ==
    /\ Task(c, "queued", "permitted")
    /\ permits > 0 /\ queue # <<>> /\ Head(queue) = c
    /\ permits' = permits - 1
    /\ queue' = Tail(queue)
    /\ UNCHANGED <<run, active, hb>>

(* shutdown.is_cancelled() ends the task before it counts itself.          *)
CheckShutdown(c) ==
    /\ Task(c, "permitted", IF cancelled THEN "ending" ELSE "checked")
    /\ UNCHANGED <<run, queue, permits, active, hb>>

CountUp(c) ==
    /\ Task(c, "checked", "active")
    /\ active' = active + 1
    /\ UNCHANGED <<run, queue, permits, hb>>

(* handle_connection returns (module Session); it does not see NodeStats.  *)
handle_connection(c) ==
    /\ Task(c, "active", "handled")
    /\ UNCHANGED <<run, queue, permits, active, hb>>

CountDown(c) ==
    /\ Task(c, "handled", "ending")
    /\ active' = active - 1
    /\ UNCHANGED <<run, queue, permits, hb>>

(* Mutant of Release: the permit is given back by hand and dropped.        *)
ReleaseTwice(c) ==
    /\ Task(c, "ending", "none")
    /\ permits' = permits + 2
    /\ UNCHANGED <<run, queue, active, hb>>

(* The permit is dropped when the task ends.                               *)
Release(c) ==
    /\ Task(c, "ending", "none")
    /\ permits' = permits + 1
    /\ UNCHANGED <<run, queue, active, hb>>

TaskStep(c) == \/ Enqueue(c) \/ Acquire(c) \/ CheckShutdown(c) \/ CountUp(c)
               \/ CountDown(c) \/ Release(c)

-----------------------------------------------------------------------------
(* heartbeat_loop                                                          *)

HeartbeatTick ==
    /\ hb.pc = "waiting"
    /\ hb' = [pc |-> "sending", load |-> active]
    /\ UNCHANGED <<run, tasks, active>>

(* client.heartbeat returns; its result is logged and counted, no more.    *)
HeartbeatSent ==
    /\ hb.pc = "sending"
    /\ hb' = [pc |-> "waiting", load |-> 0]
    /\ UNCHANGED <<run, tasks, active>>

HeartbeatStops ==
    /\ hb.pc = "waiting" /\ cancelled
    /\ hb' = [pc |-> "off", load |-> 0]
    /\ UNCHANGED <<run, tasks, active>>

-----------------------------------------------------------------------------
Next ==
    \/ Register \/ Bind \/ BindFails \/ Cancel \/ Break \/ DrainTick \/ DrainEnds
    \/ HeartbeatTick \/ HeartbeatSent \/ HeartbeatStops
    \/ \E c \in Conns : Accept(c) \/ TaskStep(c) \/ handle_connection(c)

Spec == Init /\ [][Next]_vars

(* Ready tasks are polled, timers fire, requests to the control plane time *)
(* out, and select! takes a branch that stays ready.  Sessions may last.   *)
FairSpec ==
    /\ Spec
    /\ WF_vars(Register) /\ WF_vars(Bind) /\ WF_vars(Break)
    /\ WF_vars(DrainTick) /\ WF_vars(DrainEnds)
    /\ WF_vars(HeartbeatTick) /\ WF_vars(HeartbeatSent)
    /\ \A c \in Conns : WF_vars(TaskStep(c))

(* Every session ends (EverySessionEnds of module Session).                *)
SessionsEnd == \A c \in Conns : WF_vars(handle_connection(c))

-----------------------------------------------------------------------------
(* The counters stay within what was configured.                           *)
TypeOK ==
    /\ phase \in {"registering", "binding", "accepting", "draining", "exited"}
    /\ cancelled \in BOOLEAN
    /\ elapsed \in 0 .. Deadline
    /\ conn \in [Conns -> ConnState]
    /\ queue \in Seq(Conns)
    /\ permits \in 0 .. max_connections
    /\ active \in Nat
    /\ hb \in [pc : {"off", "waiting", "sending"}, load : Nat]

(* The load a heartbeat carries is never above the max_connections that    *)
(* the node registered with, however heartbeats fall between the counting, *)
(* the uncounting and the permit of a task.                                *)
ReportedLoadFits == hb.load <= max_connections /\ active <= max_connections

(* run returns before its deadline only when no connection that it counted *)
(* is still being handled.                                                 *)
DrainSparesCounted ==
    [][DrainEnds /\ elapsed < Deadline => Counted = {}]_vars

(* If sessions end, a connection that waits for a permit gets one: the     *)
(* semaphore is fair, and every way out of a task gives its permit back.   *)
EveryoneIsServed ==
    SessionsEnd => \A c \in Conns : conn[c] = "queued" ~> conn[c] # "queued"

(* After Ctrl-C the agent stops, even when sessions never end.             *)
ShutdownCompletes == cancelled ~> phase = "exited"

-----------------------------------------------------------------------------
(* What a comment says and the code does not do.                           *)

(* server.rs: "Drain: wait for in-flight connections with a deadline".     *)
DrainWaits ==
    [][DrainEnds /\ elapsed < Deadline =>
          \A c \in Conns : conn[c] \notin {"checked", "active", "handled"}]_vars
=============================================================================
