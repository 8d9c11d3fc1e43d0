---------------------------- MODULE ControlPlane ----------------------------
(***************************************************************************)
(* The control plane: the node table (registry.rs), the request handlers   *)
(* (api.rs, service.rs) and the background health sweep (server.rs).       *)
(*                                                                         *)
(* Every SQL statement commits on its own, so a handler is a sequence of   *)
(* steps, one per statement, and handlers and the sweep interleave between *)
(* any two of them.  The node table has one variable per column.           *)
(*                                                                         *)
(* Time is counted in ticks.  The table stores whole seconds, so a stored  *)
(* time stamp is truncated to a multiple of Second ticks.                  *)
(***************************************************************************)
EXTENDS Health, FiniteSets

CONSTANTS
    Nodes,           \* node ids; the table is listed in their order
    Tasks,           \* request handlers that may be in flight
    MaxConns,        \* the max_connections values a registration may carry
    ActiveCounts,    \* the active_connections values a heartbeat may carry
    OfflineTimeout,  \* HealthPolicy::offline_timeout, in ticks
    Second,          \* ticks in a second
    MaxTime,         \* bound: the clock stops here
    MaxInFlight,     \* bound: handlers and sweeps running at one time
    MaxFaults        \* bound: failed statements, lost clients and restarts

ASSUME NodesAssumption == Nodes \subseteq Nat /\ IsFiniteSet(Nodes)
ASSUME LoadAssumption == MaxConns \subseteq Nat /\ ActiveCounts \subseteq Nat
ASSUME TimeAssumption == /\ OfflineTimeout \in Nat \ {0}
                         /\ Second \in Nat \ {0}
                         /\ MaxTime \in Nat
ASSUME BoundAssumption == MaxInFlight \in Nat /\ MaxFaults \in Nat

VARIABLES
    state, last_heartbeat, max_connections, active_connections, \* the table
    gauge,    \* proxy_node_health per node, in halves; -1 before it is set
    task,     \* the handlers in flight
    sweep,    \* the health sweep
    now,      \* the clock
    faults,   \* failures so far
    beat,     \* history: the exact time stamp of the last applied heartbeat
    heard,    \* history: a heartbeat was applied since the node last started
    settled   \* history: the node was drained while nobody could undo it

table == <<state, last_heartbeat, max_connections, active_connections>>
history == <<beat, heard, settled>>
vars == <<table, gauge, task, sweep, now, faults, history>>

-----------------------------------------------------------------------------
(* A handler: where it is, the node it is about, the state and the         *)
(* max_connections it read or was given, the load in its heartbeat, when   *)
(* it last read the table, and the states it is about to publish.          *)
TaskPc == {"idle", "register", "get", "apply_heartbeat", "set_state",
           "set_draining", "get_again", "list", "record_node"}

Nothing == [n \in Nodes |-> "absent"]

Task == [pc : TaskPc, node : Nodes \cup {NoHeartbeat}, seen : RowState,
         max : Nat, active : Nat, since : Nat, snap : [Nodes -> RowState]]

Idle == [pc |-> "idle", node |-> NoHeartbeat, seen |-> "absent", max |-> 0,
         active |-> 0, since |-> 0, snap |-> Nothing]

(* A handler that has nothing left but to read the row and publish it.     *)
Rereads(n) == [Idle EXCEPT !.pc = "get_again", !.node = n]

SweepIdle == [pc |-> "idle", at |-> 0, todo |-> {}]

(* DateTime::timestamp: whole seconds.                                     *)
Truncated(at) == (at \div Second) * Second

InFlight == Cardinality({t \in Tasks : task[t].pc # "idle"})
            + (IF sweep.pc = "idle" THEN 0 ELSE 1)

(* The state a heartbeat handler decides on, from the row it read.         *)
NextState(k) == reclassify_after_heartbeat(k.seen, k.active, k.max)

(* Somebody is about to overwrite the node's state from an earlier read.   *)
Overlapped(n) ==
    \/ n \in sweep.todo
    \/ \E t \in Tasks : /\ task[t].node = n
                        /\ task[t].pc \in {"apply_heartbeat", "set_state"}
                        /\ NextState(task[t]) # task[t].seen

(* UPDATE ... WHERE id = n: touches no row when there is none.             *)
Updated(column, n, value) ==
    IF state[n] = "absent" THEN column ELSE [column EXCEPT ![n] = value]

-----------------------------------------------------------------------------
Init ==
    /\ state = Nothing
    /\ last_heartbeat = [n \in Nodes |-> NoHeartbeat]
    /\ max_connections = [n \in Nodes |-> 0]
    /\ active_connections = [n \in Nodes |-> 0]
    /\ gauge = [n \in Nodes |-> -1]
    /\ task = [t \in Tasks |-> Idle]
    /\ sweep = SweepIdle
    /\ now = 0
    /\ faults = 0
    /\ beat = [n \in Nodes |-> NoHeartbeat]
    /\ heard = [n \in Nodes |-> FALSE]
    /\ settled = [n \in Nodes |-> FALSE]

Receive(t, k) ==
    /\ task[t].pc = "idle"
    /\ InFlight < MaxInFlight
    /\ task' = [task EXCEPT ![t] = k]
    /\ UNCHANGED <<table, gauge, sweep, now, faults, history>>

register_node(t, n) == \E m \in MaxConns \ {0} :
    Receive(t, [Idle EXCEPT !.pc = "register", !.node = n, !.max = m])

heartbeat_node(t, n) == \E a \in ActiveCounts :
    Receive(t, [Idle EXCEPT !.pc = "get", !.node = n, !.active = a])

drain_node(t, n) ==
    Receive(t, [Idle EXCEPT !.pc = "set_draining", !.node = n])

get_node(t, n) == Receive(t, Rereads(n))

list_nodes(t) == Receive(t, [Idle EXCEPT !.pc = "list"])

-----------------------------------------------------------------------------
(* The handlers, statement by statement.                                   *)

(* Mutants of Register: it resets last_heartbeat; it always starts again.  *)
RegisterForgets(t) ==
    LET n == task[t].node
        restarts == state[n] \in {"absent", "offline", "starting"}
    IN  /\ task[t].pc = "register"
        /\ state' = [state EXCEPT ![n] = IF restarts THEN "starting" ELSE @]
        /\ last_heartbeat' = [last_heartbeat EXCEPT ![n] = NoHeartbeat]
        /\ max_connections' = [max_connections EXCEPT ![n] = task[t].max]
        /\ heard' = [heard EXCEPT ![n] = @ /\ ~restarts]
        /\ task' = [task EXCEPT ![t] = Rereads(n)]
        /\ UNCHANGED <<active_connections, gauge, sweep, now, faults, beat,
                       settled>>

RegisterRestarts(t) ==
    LET n == task[t].node
    IN  /\ task[t].pc = "register"
        /\ state' = [state EXCEPT ![n] = "starting"]
        /\ max_connections' = [max_connections EXCEPT ![n] = task[t].max]
        /\ heard' = [heard EXCEPT ![n] = FALSE]
        /\ task' = [task EXCEPT ![t] = Rereads(n)]
        /\ UNCHANGED <<last_heartbeat, active_connections, gauge, sweep, now,
                       faults, beat, settled>>

(* INSERT ... ON CONFLICT(id) DO UPDATE: a known node keeps its heartbeat  *)
(* and its load, and starts again only from 'offline' or 'starting'.       *)
Register(t) ==
    LET n == task[t].node
        restarts == state[n] \in {"absent", "offline", "starting"}
    IN  /\ task[t].pc = "register"
        /\ state' = [state EXCEPT ![n] = IF restarts THEN "starting" ELSE @]
        /\ max_connections' = [max_connections EXCEPT ![n] = task[t].max]
        /\ heard' = [heard EXCEPT ![n] = @ /\ ~restarts]
        /\ task' = [task EXCEPT ![t] = Rereads(n)]
        /\ UNCHANGED <<last_heartbeat, active_connections, gauge, sweep, now,
                       faults, beat, settled>>

(* The first read of service.heartbeat; an unknown node is ignored.        *)
HeartbeatGet(t) ==
    LET n == task[t].node
    IN  /\ task[t].pc = "get"
        /\ task' = [task EXCEPT ![t] =
               IF state[n] = "absent" THEN Idle
               ELSE [@ EXCEPT !.pc = "apply_heartbeat", !.seen = state[n],
                              !.max = max_connections[n], !.since = now]]
        /\ UNCHANGED <<table, gauge, sweep, now, faults, history>>

(* Mutants of apply_heartbeat: the load is not stored; a heartbeat that    *)
(* changes no state is not stored.                                         *)
ApplyWithoutLoad(t) ==
    LET n == task[t].node
        k == task[t]
    IN  /\ k.pc = "apply_heartbeat"
        /\ \E at \in k.since .. now :
              /\ last_heartbeat' = Updated(last_heartbeat, n, Truncated(at))
              /\ beat' = Updated(beat, n, at)
        /\ heard' = Updated(heard, n, TRUE)
        /\ task' = [task EXCEPT ![t] =
               IF NextState(k) # k.seen
               THEN [k EXCEPT !.pc = "set_state", !.since = 0] ELSE Rereads(n)]
        /\ UNCHANGED <<state, max_connections, active_connections, gauge, sweep,
                       now, faults, settled>>

ApplyOnChange(t) ==
    LET n == task[t].node
        k == task[t]
    IN  /\ k.pc = "apply_heartbeat"
        /\ \E at \in k.since .. now :
              IF NextState(k) = k.seen THEN UNCHANGED <<last_heartbeat, beat>>
              ELSE /\ last_heartbeat' = Updated(last_heartbeat, n, Truncated(at))
                   /\ beat' = Updated(beat, n, at)
        /\ active_connections' = Updated(active_connections, n, k.active)
        /\ heard' = Updated(heard, n, TRUE)
        /\ task' = [task EXCEPT ![t] =
               IF NextState(k) # k.seen
               THEN [k EXCEPT !.pc = "set_state", !.since = 0] ELSE Rereads(n)]
        /\ UNCHANGED <<state, max_connections, gauge, sweep, now, faults,
                       settled>>

(* The time stamp is taken some time between the read and the update.      *)
apply_heartbeat(t) ==
    LET n == task[t].node
        k == task[t]
    IN  /\ k.pc = "apply_heartbeat"
        /\ \E at \in k.since .. now :
              /\ last_heartbeat' = Updated(last_heartbeat, n, Truncated(at))
              /\ beat' = Updated(beat, n, at)
        /\ active_connections' = Updated(active_connections, n, k.active)
        /\ heard' = Updated(heard, n, TRUE)
        /\ task' = [task EXCEPT ![t] =
               IF NextState(k) # k.seen
               THEN [k EXCEPT !.pc = "set_state", !.since = 0] ELSE Rereads(n)]
        /\ UNCHANGED <<state, max_connections, gauge, sweep, now, faults,
                       settled>>

set_state(t) ==
    /\ task[t].pc = "set_state"
    /\ state' = Updated(state, task[t].node, NextState(task[t]))
    /\ task' = [task EXCEPT ![t] = Rereads(task[t].node)]
    /\ UNCHANGED <<last_heartbeat, max_connections, active_connections, gauge,
                   sweep, now, faults, history>>

(* Mutant of set_draining: the row is published as it was before the       *)
(* update.                                                                 *)
PublishThenDrain(t) ==
    LET n == task[t].node
    IN  /\ task[t].pc = "set_draining"
        /\ state' = Updated(state, n, "draining")
        /\ settled' = Updated(settled, n, ~Overlapped(n))
        /\ task' = [task EXCEPT ![t] = [Idle EXCEPT !.pc = "record_node",
                              !.snap = [Nothing EXCEPT ![n] = state[n]]]]
        /\ UNCHANGED <<last_heartbeat, max_connections, active_connections,
                       gauge, sweep, now, faults, beat, heard>>

(* UPDATE ... SET status = 'draining', whatever the status was.            *)
set_draining(t) ==
    LET n == task[t].node
    IN  /\ task[t].pc = "set_draining"
        /\ state' = Updated(state, n, "draining")
        /\ settled' = Updated(settled, n, ~Overlapped(n))
        /\ task' = [task EXCEPT ![t] = Rereads(n)]
        /\ UNCHANGED <<last_heartbeat, max_connections, active_connections,
                       gauge, sweep, now, faults, beat, heard>>

(* The read before record_node; without a row there is nothing to record.  *)
GetAgain(t) ==
    LET n == task[t].node
    IN  /\ task[t].pc = "get_again"
        /\ task' = [task EXCEPT ![t] =
               IF state[n] = "absent" THEN Idle
               ELSE [Idle EXCEPT !.pc = "record_node",
                                 !.snap = [Nothing EXCEPT ![n] = state[n]]]]
        /\ UNCHANGED <<table, gauge, sweep, now, faults, history>>

List(t) ==
    /\ task[t].pc = "list"
    /\ task' = [task EXCEPT ![t] =
           [Idle EXCEPT !.pc = "record_node", !.snap = state]]
    /\ UNCHANGED <<table, gauge, sweep, now, faults, history>>

record_node(t) ==
    /\ task[t].pc = "record_node"
    /\ gauge' = [n \in Nodes |-> IF task[t].snap[n] = "absent" THEN gauge[n]
                                 ELSE health_gauge_value(task[t].snap[n])]
    /\ task' = [task EXCEPT ![t] = Idle]
    /\ UNCHANGED <<table, sweep, now, faults, history>>

(* A statement fails, or the client goes away and its handler is dropped:  *)
(* what is committed stays, the remaining steps never run.                 *)
Abort(t) ==
    /\ task[t].pc # "idle"
    /\ faults < MaxFaults
    /\ faults' = faults + 1
    /\ task' = [task EXCEPT ![t] = Idle]
    /\ UNCHANGED <<table, gauge, sweep, now, history>>

-----------------------------------------------------------------------------
(* The health sweep, mark_stale_offline: it reads the clock, then the      *)
(* table, then marks the stale nodes of that snapshot one by one.          *)
SweepTick ==
    /\ sweep.pc = "idle"
    /\ InFlight < MaxInFlight
    /\ sweep' = [SweepIdle EXCEPT !.pc = "list", !.at = now]
    /\ UNCHANGED <<table, gauge, task, now, faults, history>>

Stale(at) == {n \in Nodes : /\ is_live(state[n])
                            /\ is_stale(last_heartbeat[n], at, OfflineTimeout)}

SweepList ==
    /\ sweep.pc = "list"
    /\ sweep' = IF Stale(sweep.at) = {} THEN SweepIdle
                ELSE [SweepIdle EXCEPT !.pc = "mark", !.todo = Stale(sweep.at)]
    /\ UNCHANGED <<table, gauge, task, now, faults, history>>

mark_offline(n) ==
    /\ n \in sweep.todo
    /\ \A m \in sweep.todo : n <= m
    /\ state' = Updated(state, n, "offline")
    /\ sweep' = IF sweep.todo = {n} THEN SweepIdle
                ELSE [sweep EXCEPT !.todo = @ \ {n}]
    /\ UNCHANGED <<last_heartbeat, max_connections, active_connections, gauge,
                   task, now, faults, history>>

SweepFails ==
    /\ sweep.pc # "idle"
    /\ faults < MaxFaults
    /\ faults' = faults + 1
    /\ sweep' = SweepIdle
    /\ UNCHANGED <<table, gauge, task, now, history>>

(* The process restarts: the table is on disk, the rest is gone.           *)
Restart ==
    /\ faults < MaxFaults
    /\ faults' = faults + 1
    /\ task' = [t \in Tasks |-> Idle]
    /\ sweep' = SweepIdle
    /\ gauge' = [n \in Nodes |-> -1]
    /\ UNCHANGED <<table, now, history>>

Tick ==
    /\ now < MaxTime
    /\ now' = now + 1
    /\ UNCHANGED <<table, gauge, task, sweep, faults, history>>

-----------------------------------------------------------------------------
Request(t) ==
    \/ \E n \in Nodes : \/ register_node(t, n) \/ heartbeat_node(t, n)
                         \/ drain_node(t, n) \/ get_node(t, n)
    \/ list_nodes(t)

Step(t) ==
    \/ Register(t) \/ HeartbeatGet(t) \/ apply_heartbeat(t) \/ set_state(t)
    \/ set_draining(t) \/ GetAgain(t) \/ List(t) \/ record_node(t)

Sweep == SweepTick \/ SweepList \/ \E n \in Nodes : mark_offline(n)

Next ==
    \/ \E t \in Tasks : Request(t) \/ Step(t) \/ Abort(t)
    \/ Sweep \/ SweepFails \/ Restart \/ Tick

Spec == Init /\ [][Next]_vars

-----------------------------------------------------------------------------
(* Every variable keeps its type: the columns hold what row_into_node can  *)
(* parse back, and the sweep only ever holds nodes it listed.              *)
TypeOK ==
    /\ state \in [Nodes -> RowState]
    /\ last_heartbeat \in [Nodes -> Nat \cup {NoHeartbeat}]
    /\ max_connections \in [Nodes -> Nat]
    /\ active_connections \in [Nodes -> Nat]
    /\ gauge \in [Nodes -> -1 .. 2]
    /\ task \in [Tasks -> Task]
    /\ sweep \in [pc : {"idle", "list", "mark"}, at : Nat, todo : SUBSET Nodes]
    /\ now \in Nat
    /\ faults \in Nat
    /\ beat \in [Nodes -> Nat \cup {NoHeartbeat}]
    /\ heard \in [Nodes -> BOOLEAN]
    /\ settled \in [Nodes -> BOOLEAN]

(* A node that the selector may hand to a client has sent a heartbeat: no  *)
(* registration, drain, sweep, lost request or restart makes a silent node *)
(* selectable (reclassify_after_heartbeat is the only way in).             *)
SelectableWasHeard ==
    \A n \in Nodes : is_selectable(state[n]) => last_heartbeat[n] # NoHeartbeat

(* A drain that no earlier read overlaps is final: whatever heartbeats,    *)
(* registrations, sweeps and failures follow, the node stays draining.     *)
DrainSticks == \A n \in Nodes : settled[n] => state[n] = "draining"

(* The sweep condemns a live node only after a silence of the timeout less *)
(* the second lost to whole-second time stamps, and never misses a node    *)
(* that was silent for the whole timeout when the sweep began.             *)
SweepIsExact ==
    [][SweepList => \A n \in Nodes :
          /\ n \in sweep'.todo
                => /\ beat[n] # NoHeartbeat
                   /\ sweep.at - beat[n] > OfflineTimeout - Second
          /\ is_live(state[n]) /\ beat[n] # NoHeartbeat
             /\ sweep.at - beat[n] >= OfflineTimeout
                => n \in sweep'.todo]_vars

(* Handlers that do not overlap implement the life cycle of model.rs.      *)
Lifecycle == INSTANCE NodeLifecycle WITH Nodes <- Nodes, state <- state
ImplementsLifecycle == Lifecycle!Spec

(* Handlers that do not overlap leave no mixed row behind: when the last   *)
(* update of a heartbeat is done, the node is out of service, or its class *)
(* is the one that the load and the size now in its row call for.          *)
HeartbeatClassifies ==
    [][\A t \in Tasks :
          LET n == task[t].node
          IN  /\ task[t].pc \in {"apply_heartbeat", "set_state"}
              /\ task'[t].pc = "get_again"
              => \/ ~is_live(state'[n])
                 \/ state'[n] = (IF Overloaded(active_connections'[n],
                                              max_connections'[n])
                                 THEN "degraded" ELSE "healthy")]_vars

(* When handlers do not overlap and none was cut short, the gauge is right *)
(* between requests, except that the sweep takes nodes offline without     *)
(* publishing it: each handler reads its row back after its last update    *)
(* and before record_node, and no handler changes a row it does not        *)
(* publish.                                                                *)
GaugeFollows ==
    InFlight = 0 /\ faults = 0 =>
        \A n \in Nodes : \/ state[n] \in {"absent", "offline"}
                         \/ gauge[n] = health_gauge_value(state[n])

-----------------------------------------------------------------------------
(* What the comments say and overlapping handlers do not keep.             *)

(* health.rs: "a draining node stays draining regardless of load".         *)
DrainingStaysDraining ==
    [][\A n \in Nodes :
          state[n] = "draining" => state'[n] \in {"draining", "offline"}]_vars

(* health.rs: a node is considered stale "only after a first beat"; here,  *)
(* after the first one since it registered as starting.                    *)
FirstBeatBeforeOffline ==
    [][\A n \in Nodes :
          state[n] = "starting" /\ state'[n] = "offline" => heard[n]]_vars
=============================================================================
