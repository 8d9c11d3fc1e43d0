------------------------- MODULE ControlPlaneProofs -------------------------
(***************************************************************************)
(* Proofs about the control plane for any set of nodes, any number of      *)
(* handlers in flight, any timeout and any number of failures; then about  *)
(* agents and control plane together: a configuration that satisfies       *)
(* ConfigAssumption never takes an agent in its first life out of service. *)
(***************************************************************************)
EXTENDS Cluster, TLAPS

(* What is known of a handler k: if it uses its node, that is a real one;  *)
(* past its first read a heartbeat is about a row (rows are never deleted);*)
(* about to write the state, it has recorded the heartbeat and differs     *)
(* from what it read.                                                      *)
TaskOK(k) ==
    /\ k.pc \notin {"idle", "list", "record_node"} => k.node \in Nodes
    /\ k.pc \in {"apply_heartbeat", "set_state"} => state[k.node] # "absent"
    /\ k.pc = "set_state" => /\ last_heartbeat[k.node] # NoHeartbeat
                             /\ NextState(k) # k.seen

TaskInv == \A t \in Tasks : TaskOK(task[t])

(* An idle handler and an idle sweep have their types.                     *)
LEMMA IdleType ==
    /\ Idle \in Task /\ SweepIdle.todo = {} /\ Nothing \in [Nodes -> RowState]
    /\ Idle.pc = "idle" /\ SweepIdle.pc = "idle"
    /\ SweepIdle \in [pc : {"idle", "list", "mark"}, at : Nat, todo : SUBSET Nodes]
    /\ \A n \in Nodes : Rereads(n) \in Task /\ Rereads(n).pc = "get_again"
                        /\ Rereads(n).node = n
  BY Zenon DEF Idle, Task, TaskPc, SweepIdle, Nothing, RowState, NodeState, Rereads

(* A stored time stamp is a natural number.                                *)
LEMMA TruncatedType == \A at \in Nat : Truncated(at) \in Nat
  BY TimeAssumption DEF Truncated

(* A heartbeat handler decides on a state that a row may hold.             *)
LEMMA NextStateType ==
    ASSUME NEW k \in Task PROVE NextState(k) \in RowState
  BY Zenon DEF NextState, reclassify_after_heartbeat, Task, RowState, NodeState

(* The types hold in an empty table.                                       *)
LEMMA InitType == Init => TypeOK /\ TaskInv
  BY IdleType DEF Init, TypeOK, TaskInv, TaskOK, NoHeartbeat, Nothing, RowState, NodeState

(* Every request starts one handler and changes nothing else.              *)
LEMMA RequestReceives ==
    ASSUME TypeOK, NEW t \in Tasks, Request(t)
    PROVE  \E k \in Task :
              /\ Receive(t, k)
              /\ k.pc \in {"register", "get", "set_draining", "get_again", "list"}
              /\ k.pc # "list" => k.node \in Nodes
<1>1. CASE list_nodes(t)
  BY <1>1, IdleType DEF list_nodes, Task, TaskPc
<1>2. ASSUME NEW n \in Nodes, register_node(t, n)
      PROVE  \E k \in Task : Receive(t, k) /\ k.pc = "register" /\ k.node = n
  <2>1. PICK m \in MaxConns \ {0} :
          Receive(t, [Idle EXCEPT !.pc = "register", !.node = n, !.max = m])
    BY <1>2, Zenon DEF register_node
  <2>2. m \in Nat
    BY LoadAssumption, Zenon
  <2>3. [Idle EXCEPT !.pc = "register", !.node = n, !.max = m] \in Task
    BY <2>2, IdleType, ZenonT(30) DEF Task, TaskPc, Idle
  <2>4. /\ [Idle EXCEPT !.pc = "register", !.node = n, !.max = m].pc = "register"
        /\ [Idle EXCEPT !.pc = "register", !.node = n, !.max = m].node = n
    BY Zenon DEF Idle
  <2>5. QED
    BY <2>1, <2>3, <2>4, Zenon
<1>3. ASSUME NEW n \in Nodes, heartbeat_node(t, n)
      PROVE  \E k \in Task : Receive(t, k) /\ k.pc = "get" /\ k.node = n
  <2>1. PICK a \in ActiveCounts :
          Receive(t, [Idle EXCEPT !.pc = "get", !.node = n, !.active = a])
    BY <1>3, Zenon DEF heartbeat_node
  <2>2. a \in Nat
    BY LoadAssumption, Zenon
  <2>3. [Idle EXCEPT !.pc = "get", !.node = n, !.active = a] \in Task
    BY <2>2, IdleType, Zenon DEF Task, TaskPc, Idle
  <2>4. /\ [Idle EXCEPT !.pc = "get", !.node = n, !.active = a].pc = "get"
        /\ [Idle EXCEPT !.pc = "get", !.node = n, !.active = a].node = n
    BY Zenon DEF Idle
  <2>5. QED
    BY <2>1, <2>3, <2>4, Zenon
<1>4. ASSUME NEW n \in Nodes, drain_node(t, n)
      PROVE  \E k \in Task : Receive(t, k) /\ k.pc = "set_draining" /\ k.node = n
  <2>1. [Idle EXCEPT !.pc = "set_draining", !.node = n] \in Task
    BY IdleType, Zenon DEF Task, TaskPc, Idle
  <2>2. /\ [Idle EXCEPT !.pc = "set_draining", !.node = n].pc = "set_draining"
        /\ [Idle EXCEPT !.pc = "set_draining", !.node = n].node = n
    BY Zenon DEF Idle
  <2>3. QED
    BY <1>4, <2>1, <2>2, Zenon DEF drain_node
<1>5. ASSUME NEW n \in Nodes, get_node(t, n)
      PROVE  \E k \in Task : Receive(t, k) /\ k.pc = "get_again" /\ k.node = n
  BY <1>5, IdleType, Zenon DEF get_node
<1>6. QED
  BY <1>1, <1>2, <1>3, <1>4, <1>5 DEF Request

(* Rows and heartbeats never disappear.                                    *)
Kept == /\ \A n \in Nodes : state[n] # "absent" => state'[n] # "absent"
        /\ \A n \in Nodes : last_heartbeat[n] # NoHeartbeat
                               => last_heartbeat'[n] # NoHeartbeat

(* A step of one handler keeps what is known of the others.                *)
LEMMA TaskInvKept ==
    ASSUME TypeOK, TaskInv, Kept, NEW t \in Tasks, NEW k \in Task,
           task' = [task EXCEPT ![t] = k], TaskOK(k)'
    PROVE  TaskInv'
<1> SUFFICES ASSUME NEW u \in Tasks, u # t PROVE TaskOK(task[u])'
  BY Zenon DEF TaskInv, TypeOK
<1>1. task'[u] = task[u]
  BY Zenon DEF TypeOK
<1>2. TaskOK(task[u])
  BY Zenon DEF TaskInv
<1>3. QED
  BY <1>1, <1>2, Zenon DEF TaskOK, Kept, NextState

(* A request keeps the types.                                              *)
LEMMA RequestType ==
    ASSUME TypeOK, TaskInv, NEW t \in Tasks, Request(t)
    PROVE  TypeOK' /\ TaskInv'
<1>1. PICK k \in Task :
         /\ Receive(t, k)
         /\ k.pc \in {"register", "get", "set_draining", "get_again", "list"}
         /\ k.pc # "list" => k.node \in Nodes
  BY RequestReceives, Zenon
<1>2. TypeOK'
  BY <1>1, Zenon DEF TypeOK, Receive, table, history
<1>3. Kept /\ TaskOK(k)' /\ task' = [task EXCEPT ![t] = k]
  BY <1>1, Zenon DEF Receive, Kept, TaskOK, table, history
<1>4. QED
  BY <1>2, <1>3, TaskInvKept, Zenon

(* The upsert of register keeps the types.                                 *)
LEMMA RegisterType ==
    ASSUME TypeOK, TaskInv, NEW t \in Tasks, Register(t)
    PROVE  TypeOK' /\ TaskInv'
<1>1. task[t].node \in Nodes /\ task[t].max \in Nat
  BY SMTT(30) DEF TaskInv, TaskOK, Register, TypeOK, Task
<1>2. PICK k : k = Rereads(task[t].node)
  OBVIOUS
<1>3. k \in Task /\ task' = [task EXCEPT ![t] = k]
  BY <1>1, <1>2, IdleType, Zenon DEF Register
<1>4. TypeOK'
  BY <1>1, <1>3, Zenon DEF TypeOK, Register, RowState, NodeState
<1>5. Kept
  BY <1>1, Zenon DEF Kept, Register, TypeOK
<1>6. TaskOK(k)'
  BY <1>1, <1>2, IdleType, Zenon DEF TaskOK
<1>7. QED
  BY <1>3, <1>4, <1>5, <1>6, TaskInvKept, Zenon

(* The first read of a heartbeat keeps the types.                          *)
LEMMA HeartbeatGetType ==
    ASSUME TypeOK, TaskInv, NEW t \in Tasks, HeartbeatGet(t)
    PROVE  TypeOK' /\ TaskInv'
<1>1. task[t].node \in Nodes /\ task[t] \in Task
  BY Zenon DEF TaskInv, TaskOK, HeartbeatGet, TypeOK
<1>2. PICK k : /\ task' = [task EXCEPT ![t] = k]
               /\ k = IF state[task[t].node] = "absent" THEN Idle
                      ELSE [task[t] EXCEPT !.pc = "apply_heartbeat",
                              !.seen = state[task[t].node],
                              !.max = max_connections[task[t].node], !.since = now]
  BY Zenon DEF HeartbeatGet
<1>3. k \in Task
  BY <1>1, <1>2, IdleType, ZenonT(30) DEF TypeOK, Task, TaskPc
<1>4. TypeOK'
  BY <1>2, <1>3 DEF TypeOK, HeartbeatGet, table, history
<1>5. Kept
  BY Zenon DEF Kept, HeartbeatGet, table
<1>6. TaskOK(k)'
  <2>1. CASE state[task[t].node] = "absent"
    BY <1>2, <2>1, IdleType, Zenon DEF TaskOK
  <2>2. CASE state[task[t].node] # "absent"
    <3>1. k.pc = "apply_heartbeat" /\ k.node = task[t].node
      BY <1>1, <1>2, <2>2, Zenon DEF Task
    <3>2. QED
      BY <1>1, <2>2, <3>1, Zenon DEF TaskOK, HeartbeatGet, table
  <2>3. QED
    BY <2>1, <2>2, Zenon
<1>7. QED
  BY <1>2, <1>3, <1>4, <1>5, <1>6, TaskInvKept, Zenon

(* An UPDATE keeps the type of its column and the other rows.              *)
LEMMA UpdatedType ==
    ASSUME NEW S, NEW column \in [Nodes -> S], NEW n \in Nodes, NEW v \in S
    PROVE  /\ Updated(column, n, v) \in [Nodes -> S]
           /\ \A m \in Nodes : Updated(column, n, v)[m] =
                  IF m = n /\ state[n] # "absent" THEN v ELSE column[m]
  BY Zenon DEF Updated

(* apply_heartbeat keeps the types.                                        *)
LEMMA ApplyHeartbeatType ==
    ASSUME TypeOK, TaskInv, NEW t \in Tasks, apply_heartbeat(t)
    PROVE  TypeOK' /\ TaskInv'
<1> DEFINE n == task[t].node
<1>1. n \in Nodes /\ task[t] \in Task /\ state[n] # "absent"
  BY Zenon DEF TaskInv, TaskOK, apply_heartbeat, TypeOK
<1>2. PICK at \in task[t].since .. now :
         /\ last_heartbeat' = Updated(last_heartbeat, n, Truncated(at))
         /\ beat' = Updated(beat, n, at)
  BY Zenon DEF apply_heartbeat
<1>3. at \in Nat /\ Truncated(at) \in Nat
  BY <1>1, <1>2, TruncatedType DEF TypeOK, Task
<1>4. PICK k : /\ task' = [task EXCEPT ![t] = k]
               /\ k = IF NextState(task[t]) # task[t].seen
                      THEN [task[t] EXCEPT !.pc = "set_state", !.since = 0]
                      ELSE Rereads(n)
  BY Zenon DEF apply_heartbeat
<1>5. k \in Task
  BY <1>1, <1>4, IdleType, Zenon DEF Task, TaskPc
<1>6. TypeOK'
  <2>1. /\ last_heartbeat' \in [Nodes -> Nat \cup {NoHeartbeat}]
        /\ beat' \in [Nodes -> Nat \cup {NoHeartbeat}]
    BY <1>1, <1>2, <1>3, UpdatedType, Zenon DEF TypeOK
  <2>2. /\ active_connections' \in [Nodes -> Nat]
        /\ heard' \in [Nodes -> BOOLEAN]
    <3>1. task[t].active \in Nat
      BY <1>1, Zenon DEF Task
    <3>2. active_connections' \in [Nodes -> Nat]
      BY <1>1, <3>1, UpdatedType, Zenon DEF TypeOK, apply_heartbeat
    <3>3. heard' \in [Nodes -> BOOLEAN]
      BY <1>1, UpdatedType, Zenon DEF TypeOK, apply_heartbeat
    <3>4. QED
      BY <3>2, <3>3, Zenon
  <2>3. task' \in [Tasks -> Task]
    BY <1>4, <1>5, Zenon DEF TypeOK
  <2>4. UNCHANGED <<state, max_connections, gauge, sweep, now, faults, settled>>
    BY Zenon DEF apply_heartbeat
  <2>5. QED
    BY <2>1, <2>2, <2>3, <2>4, Zenon DEF TypeOK
<1>7. Kept
  <2>1. state' = state
    BY Zenon DEF apply_heartbeat
  <2>2. ASSUME NEW m \in Nodes, last_heartbeat[m] # NoHeartbeat
        PROVE  last_heartbeat'[m] # NoHeartbeat
    BY <1>1, <1>2, <1>3, <2>2 DEF TypeOK, NoHeartbeat, Updated
  <2>3. QED
    BY <2>1, <2>2, Zenon DEF Kept
<1>8. TaskOK(k)'
  <2>1. CASE NextState(task[t]) # task[t].seen
    <3>1. k.pc = "set_state" /\ k.node = n /\ k.seen = task[t].seen
          /\ k.active = task[t].active /\ k.max = task[t].max
      BY <1>1, <1>4, <2>1, Zenon DEF Task
    <3>2. last_heartbeat'[n] # NoHeartbeat
      BY <1>1, <1>2, <1>3 DEF TypeOK, NoHeartbeat, Updated
    <3>3. state'[n] # "absent"
      BY <1>1, Zenon DEF apply_heartbeat
    <3>4. NextState(k) # k.seen
      BY <2>1, <3>1, Zenon DEF NextState
    <3>5. QED
      BY <1>1, <3>1, <3>2, <3>3, <3>4, Zenon DEF TaskOK, NextState
  <2>2. CASE NextState(task[t]) = task[t].seen
    BY <1>1, <1>4, <2>2, IdleType, Zenon DEF TaskOK
  <2>3. QED
    BY <2>1, <2>2, Zenon
<1>9. QED
  BY <1>4, <1>5, <1>6, <1>7, <1>8, TaskInvKept, Zenon

(* set_state and set_draining: the new state is never "absent".            *)
LEMMA WriteStateType ==
    ASSUME TypeOK, TaskInv, NEW t \in Tasks, set_state(t) \/ set_draining(t)
    PROVE  TypeOK' /\ TaskInv'
<1> DEFINE n == task[t].node
<1>1. n \in Nodes /\ task[t] \in Task
  BY Zenon DEF TaskInv, TaskOK, set_state, set_draining, TypeOK
<1>2. PICK s \in NodeState : state' = Updated(state, n, s)
  BY <1>1, Zenon DEF set_state, set_draining, NextState, reclassify_after_heartbeat,
              NodeState
<1>3. PICK k : k = Rereads(n) /\ task' = [task EXCEPT ![t] = k]
  BY Zenon DEF set_state, set_draining
<1>4. k \in Task
  BY <1>1, <1>3, IdleType, Zenon
<1>5. state' \in [Nodes -> RowState] /\ settled' \in [Nodes -> BOOLEAN]
  <2>1. state' \in [Nodes -> RowState]
    BY <1>1, <1>2, UpdatedType, Zenon DEF TypeOK, RowState
  <2>2. settled' \in [Nodes -> BOOLEAN]
    <3>1. CASE set_state(t)
      BY <3>1, Zenon DEF set_state, history, TypeOK
    <3>2. CASE set_draining(t)
      <4>1. (~Overlapped(n)) \in BOOLEAN
        BY Zenon DEF Overlapped
      <4>2. settled' = Updated(settled, n, ~Overlapped(n))
        BY <3>2, Zenon DEF set_draining
      <4>3. QED
        BY <1>1, <4>1, <4>2, UpdatedType, Zenon DEF TypeOK
    <3>3. QED
      BY <3>1, <3>2, Zenon
  <2>3. QED
    BY <2>1, <2>2, Zenon
<1>6. TypeOK'
  BY <1>3, <1>4, <1>5, Zenon DEF TypeOK, set_state, set_draining, history
<1>7. Kept
  <2>1. last_heartbeat' = last_heartbeat
    BY Zenon DEF set_state, set_draining
  <2>2. ASSUME NEW m \in Nodes, state[m] # "absent" PROVE state'[m] # "absent"
    BY <1>1, <1>2, <2>2, Zenon DEF TypeOK, NodeState, Updated
  <2>3. QED
    BY <2>1, <2>2, Zenon DEF Kept
<1>8. TaskOK(k)'
  BY <1>1, <1>3, IdleType, Zenon DEF TaskOK
<1>9. QED
  BY <1>3, <1>4, <1>6, <1>7, <1>8, TaskInvKept, Zenon

(* The handlers' last steps and their failure leave the table alone.       *)
LEMMA ReadType ==
    ASSUME TypeOK, TaskInv, NEW t \in Tasks,
           GetAgain(t) \/ List(t) \/ record_node(t) \/ Abort(t)
    PROVE  TypeOK' /\ TaskInv'
<1>1. PICK k \in Task : /\ task' = [task EXCEPT ![t] = k]
                        /\ k.pc \in {"idle", "record_node"}
  <2>1. ASSUME NEW f \in [Nodes -> RowState]
        PROVE  LET r == [Idle EXCEPT !.pc = "record_node", !.snap = f]
               IN  r \in Task /\ r.pc = "record_node"
    BY IdleType, Zenon DEF Task, TaskPc, Idle
  <2>2. CASE GetAgain(t)
    <3>1. task[t].node \in Nodes
      BY <2>2, Zenon DEF TaskInv, TaskOK, GetAgain
    <3>2. [Nothing EXCEPT ![task[t].node] = state[task[t].node]] \in [Nodes -> RowState]
      BY <3>1, IdleType, SMTT(30) DEF TypeOK
    <3>3. QED
      BY <2>1, <2>2, <3>2, IdleType, Zenon DEF GetAgain
  <2>3. CASE List(t)
    BY <2>1, <2>3, Zenon DEF List, TypeOK
  <2>4. CASE record_node(t) \/ Abort(t)
    BY <2>4, IdleType, Zenon DEF record_node, Abort
  <2>5. QED
    BY <2>2, <2>3, <2>4, Zenon
<1>2. gauge' \in [Nodes -> -1 .. 2] /\ faults' \in Nat
  BY DEF GetAgain, List, record_node, Abort, TypeOK, health_gauge_value
<1>3. UNCHANGED <<table, sweep, now, history>>
  BY Zenon DEF GetAgain, List, record_node, Abort
<1>4. TypeOK'
  BY <1>1, <1>2, <1>3, Zenon DEF TypeOK, table, history
<1>5. Kept /\ TaskOK(k)'
  BY <1>1, <1>3, Zenon DEF Kept, TaskOK, table
<1>6. QED
  BY <1>1, <1>4, <1>5, TaskInvKept, Zenon

(* The sweep, a restart and the clock do not touch running handlers.       *)
LEMMA BackgroundType ==
    ASSUME TypeOK, TaskInv, Sweep \/ SweepFails \/ Restart \/ Tick
    PROVE  TypeOK' /\ TaskInv'
<1>1. CASE SweepTick \/ SweepList \/ SweepFails \/ Tick
  <2>1. UNCHANGED <<table, gauge, task, history>>
    BY <1>1, Zenon DEF SweepTick, SweepList, SweepFails, Tick
  <2>2. sweep' \in [pc : {"idle", "list", "mark"}, at : Nat, todo : SUBSET Nodes]
    <3>1. ASSUME NEW p \in {"list", "mark"}, NEW a \in Nat, NEW S \in SUBSET Nodes
          PROVE  /\ [SweepIdle EXCEPT !.pc = p, !.at = a] \in
                       [pc : {"idle", "list", "mark"}, at : Nat, todo : SUBSET Nodes]
                 /\ [SweepIdle EXCEPT !.pc = p, !.todo = S] \in
                       [pc : {"idle", "list", "mark"}, at : Nat, todo : SUBSET Nodes]
      BY Zenon DEF SweepIdle
    <3>2. Stale(sweep.at) \in SUBSET Nodes
      BY Zenon DEF Stale
    <3>3. CASE SweepTick
      BY <3>1, <3>3, ZenonT(30) DEF SweepTick, TypeOK
    <3>4. CASE SweepList
      BY <3>1, <3>2, <3>4, IdleType, Zenon DEF SweepList
    <3>5. CASE SweepFails \/ Tick
      BY <3>5, IdleType, Zenon DEF SweepFails, Tick, TypeOK
    <3>6. QED
      BY <1>1, <3>3, <3>4, <3>5, Zenon
  <2>3. now' \in Nat /\ faults' \in Nat
    BY <1>1 DEF SweepTick, SweepList, SweepFails, Tick, TypeOK
  <2>4. TypeOK'
    BY <2>1, <2>2, <2>3, Zenon DEF TypeOK, table, history
  <2>5. TaskInv'
    BY <2>1, Zenon DEF TaskInv, TaskOK, NextState, table
  <2>6. QED
    BY <2>4, <2>5, Zenon
<1>2. ASSUME NEW n \in Nodes, mark_offline(n) PROVE TypeOK' /\ TaskInv'
  <2>1. /\ UNCHANGED <<last_heartbeat, max_connections, active_connections,
                       gauge, task, now, faults, history>>
        /\ state' = Updated(state, n, "offline")
    BY <1>2, Zenon DEF mark_offline
  <2>2. state' \in [Nodes -> RowState]
    BY <2>1, UpdatedType, Zenon DEF TypeOK, RowState, NodeState
  <2>3. sweep' \in [pc : {"idle", "list", "mark"}, at : Nat, todo : SUBSET Nodes]
    BY <1>2, IdleType, Zenon DEF mark_offline, TypeOK
  <2>4. TypeOK'
    BY <2>1, <2>2, <2>3, Zenon DEF TypeOK, history
  <2>5. \A m \in Nodes : state[m] # "absent" => state'[m] # "absent"
    BY <2>1, Zenon DEF Updated, TypeOK
  <2>6. TaskInv'
    BY <2>1, <2>5, Zenon DEF TaskInv, TaskOK, NextState
  <2>7. QED
    BY <2>4, <2>6, Zenon
<1>3. CASE Restart
  <2>1. TypeOK'
    BY <1>3, IdleType DEF Restart, TypeOK, table, history
  <2>2. TaskInv'
    BY <1>3, IdleType, Zenon DEF Restart, TaskInv, TaskOK
  <2>3. QED
    BY <2>1, <2>2, Zenon
<1>4. QED
  BY <1>1, <1>2, <1>3, Zenon DEF Sweep

(* Every step keeps the types.                                             *)
LEMMA NextType == TypeOK /\ TaskInv /\ [Next]_vars => TypeOK' /\ TaskInv'
<1> SUFFICES ASSUME TypeOK, TaskInv, [Next]_vars PROVE TypeOK' /\ TaskInv'
  OBVIOUS
<1>1. ASSUME NEW t \in Tasks, Request(t) \/ Step(t) \/ Abort(t)
      PROVE  TypeOK' /\ TaskInv'
  BY <1>1, RequestType, RegisterType, HeartbeatGetType, ApplyHeartbeatType,
     WriteStateType, ReadType, Zenon DEF Step
<1>2. CASE UNCHANGED vars
  BY <1>2, Zenon DEF vars, table, history, TypeOK, TaskInv, TaskOK, NextState
<1>3. QED
  BY <1>1, <1>2, BackgroundType, Zenon DEF Next

(* The control plane keeps its types, and a heartbeat handler is always    *)
(* about a row that exists, whatever handlers and sweeps interleave.       *)
THEOREM TypeCorrect == Spec => []TypeOK
<1>1. Spec => [](TypeOK /\ TaskInv)
  BY InitType, NextType, PTL DEF Spec
<1>2. QED
  BY <1>1, PTL

-----------------------------------------------------------------------------
(* A selectable node was heard: only set_state makes a node selectable,    *)
(* and it runs after its handler's apply_heartbeat.                        *)
LEMMA HeardStep ==
    ASSUME TypeOK, TaskInv, SelectableWasHeard, [Next]_vars
    PROVE  SelectableWasHeard'
<1> SUFFICES ASSUME NEW n \in Nodes, is_selectable(state'[n])
             PROVE  last_heartbeat'[n] # NoHeartbeat
  BY Zenon DEF SelectableWasHeard
<1> USE DEF is_selectable
<1>1. ASSUME UNCHANGED <<state, last_heartbeat>> PROVE last_heartbeat'[n] # NoHeartbeat
  BY <1>1, Zenon DEF SelectableWasHeard
<1>2. ASSUME NEW t \in Tasks, Register(t) PROVE last_heartbeat'[n] # NoHeartbeat
  BY <1>2, Zenon DEF Register, SelectableWasHeard, TypeOK, TaskInv, TaskOK
<1>3. ASSUME NEW t \in Tasks, apply_heartbeat(t)
      PROVE  last_heartbeat'[n] # NoHeartbeat
  <2>1. PICK at \in task[t].since .. now :
           last_heartbeat' = Updated(last_heartbeat, task[t].node, Truncated(at))
    BY <1>3, Zenon DEF apply_heartbeat
  <2>2. at \in Nat /\ Truncated(at) \in Nat /\ task[t].node \in Nodes
    BY <1>3, <2>1, TruncatedType DEF TypeOK, Task, TaskInv, TaskOK, apply_heartbeat
  <2>3. state' = state
    BY <1>3, Zenon DEF apply_heartbeat
  <2>4. QED
    BY <2>1, <2>2, <2>3 DEF SelectableWasHeard, Updated, TypeOK, NoHeartbeat
<1>4. ASSUME NEW t \in Tasks, set_state(t) PROVE last_heartbeat'[n] # NoHeartbeat
  <2>1. /\ task[t].node \in Nodes
        /\ last_heartbeat[task[t].node] # NoHeartbeat
    BY <1>4, Zenon DEF TaskInv, TaskOK, set_state
  <2>2. last_heartbeat' = last_heartbeat
    BY <1>4, Zenon DEF set_state
  <2>3. CASE n # task[t].node
    BY <1>4, <2>1, <2>2, <2>3, Zenon DEF set_state, Updated, TypeOK, SelectableWasHeard
  <2>4. QED
    BY <2>1, <2>2, <2>3, Zenon
<1>5. ASSUME NEW t \in Tasks, set_draining(t) PROVE last_heartbeat'[n] # NoHeartbeat
  BY <1>5, Zenon DEF set_draining, Updated, TypeOK, SelectableWasHeard, TaskInv, TaskOK
<1>6. ASSUME NEW m \in Nodes, mark_offline(m) PROVE last_heartbeat'[n] # NoHeartbeat
  BY <1>6, Zenon DEF mark_offline, Updated, TypeOK, SelectableWasHeard
<1>7. ASSUME NEW t \in Tasks,
             Request(t) \/ HeartbeatGet(t) \/ GetAgain(t) \/ List(t)
                \/ record_node(t) \/ Abort(t)
      PROVE  UNCHANGED <<state, last_heartbeat>>
  BY <1>7, RequestReceives, Zenon DEF Receive, HeartbeatGet, GetAgain, List,
                                record_node, Abort, table
<1>8. ASSUME SweepTick \/ SweepList \/ SweepFails \/ Restart \/ Tick \/ UNCHANGED vars
      PROVE  UNCHANGED <<state, last_heartbeat>>
  BY <1>8, Zenon DEF SweepTick, SweepList, SweepFails, Restart, Tick, vars, table
<1>9. QED
  BY <1>1, <1>2, <1>3, <1>4, <1>5, <1>6, <1>7, <1>8, Zenon DEF Next, Step, Sweep

(* Only nodes that have sent a heartbeat are ever selectable, for every    *)
(* interleaving of handlers, sweeps, failures and restarts.                *)
THEOREM SelectableHeard == Spec => []SelectableWasHeard
<1>1. Init => SelectableWasHeard
  BY Zenon DEF Init, SelectableWasHeard, Nothing, is_selectable
<1>2. TypeOK /\ TaskInv /\ SelectableWasHeard /\ [Next]_vars => SelectableWasHeard'
  BY HeardStep, Zenon
<1>3. QED
  BY <1>1, <1>2, InitType, NextType, PTL DEF Spec

-----------------------------------------------------------------------------
(* DrainSticks is not inductive: it needs that nobody is left who read the *)
(* node before it was drained and is about to overwrite its state.         *)
SettledInv ==
    \A n \in Nodes : settled[n] => state[n] = "draining" /\ ~Overlapped(n)

(* A handler whose write changes nothing overlaps no drain.                *)
LEMMA OverlapKept ==
    ASSUME TypeOK, NEW n \in Nodes, ~Overlapped(n), NEW t \in Tasks,
           NEW k \in Task, task' = [task EXCEPT ![t] = k], sweep' = sweep,
           k.node = n /\ k.pc \in {"apply_heartbeat", "set_state"}
              => NextState(k) = k.seen
    PROVE  ~Overlapped(n)'
<1> SUFFICES ASSUME NEW u \in Tasks, task'[u].node = n,
                    task'[u].pc \in {"apply_heartbeat", "set_state"},
                    NextState(task'[u]) # task'[u].seen
             PROVE  FALSE
  BY Zenon DEF Overlapped, NextState
<1>1. u # t
  BY Zenon DEF TypeOK
<1>2. task'[u] = task[u]
  BY <1>1, SMTT(30) DEF TypeOK
<1>3. QED
  BY <1>2, Zenon DEF Overlapped, NextState

(* A handler's step keeps a settled drain: the drained state is read back  *)
(* as it is, and a heartbeat that read it writes nothing.                  *)
LEMMA SettledTask ==
    ASSUME TypeOK, TaskInv, SettledInv, NEW t \in Tasks,
           Request(t) \/ Step(t) \/ Abort(t)
    PROVE  SettledInv'
<1> SUFFICES ASSUME NEW n \in Nodes, settled'[n]
             PROVE  (state[n] = "draining")' /\ ~Overlapped(n)'
  BY Zenon DEF SettledInv
<1>1. CASE Request(t)
  <2>1. PICK k \in Task :
           /\ Receive(t, k)
           /\ k.pc \in {"register", "get", "set_draining", "get_again", "list"}
    BY <1>1, RequestReceives, Zenon
  <2>2. state' = state /\ settled' = settled /\ sweep' = sweep
        /\ task' = [task EXCEPT ![t] = k]
    BY <2>1, Zenon DEF Receive, table, history
  <2>3. QED
    BY <2>1, <2>2, OverlapKept, Zenon DEF SettledInv
<1>2. CASE GetAgain(t) \/ List(t) \/ record_node(t) \/ Abort(t)
  <2>1. task' \in [Tasks -> Task]
    BY <1>2, ReadType, Zenon DEF TypeOK
  <2>2. PICK k \in Task : task' = [task EXCEPT ![t] = k] /\ k = task'[t]
    BY <1>2, <2>1, Zenon DEF GetAgain, List, record_node, Abort, TypeOK
  <2>3. k.pc \in {"idle", "record_node"}
    <3> DEFINE Records(f) == [Idle EXCEPT !.pc = "record_node", !.snap = f]
    <3>0. \A f : Records(f).pc = "record_node"
      BY Zenon DEF Idle
    <3> HIDE DEF Records
    <3>1. CASE GetAgain(t)
      <4>1. k = IF state[task[t].node] = "absent" THEN Idle
                ELSE Records([Nothing EXCEPT ![task[t].node] = state[task[t].node]])
        BY <2>2, <3>1, Zenon DEF GetAgain, TypeOK, Records
      <4>2. QED
        BY <3>0, <4>1, IdleType, Zenon
    <3>2. CASE List(t)
      <4>1. k = Records(state)
        BY <2>2, <3>2, SMTT(30) DEF List, TypeOK, Records
      <4>2. QED
        BY <3>0, <4>1, Zenon
    <3>3. CASE record_node(t) \/ Abort(t)
      BY <2>2, <3>3, IdleType, Zenon DEF record_node, Abort, TypeOK
    <3>4. QED
      BY <1>2, <3>1, <3>2, <3>3, Zenon
  <2>4. state' = state /\ settled' = settled /\ sweep' = sweep
    BY <1>2, SMTT(30) DEF GetAgain, List, record_node, Abort, table, history
  <2>5. QED
    BY <2>2, <2>3, <2>4, OverlapKept, Zenon DEF SettledInv
<1>3. CASE Register(t)
  <2>1. task[t].node \in Nodes /\ settled[n] /\ state[n] = "draining"
        /\ ~Overlapped(n) /\ sweep' = sweep
    BY <1>3, Zenon DEF Register, TaskInv, TaskOK, SettledInv
  <2>2. state'[n] = "draining"
    BY <1>3, <2>1, Zenon DEF Register, TypeOK
  <2>3. PICK k \in Task : task' = [task EXCEPT ![t] = k] /\ k.pc = "get_again"
    BY <1>3, <2>1, IdleType, Zenon DEF Register
  <2>4. QED
    BY <2>1, <2>2, <2>3, OverlapKept, ZenonT(30)
<1>4. CASE HeartbeatGet(t)
  <2>1. /\ settled[n] /\ state[n] = "draining" /\ ~Overlapped(n) /\ sweep' = sweep
        /\ state' = state
    BY <1>4, Zenon DEF HeartbeatGet, SettledInv, table, history
  <2>2. task[t] \in Task /\ task' \in [Tasks -> Task]
    BY <1>4, HeartbeatGetType, Zenon DEF TypeOK
  <2>3. PICK k \in Task : task' = [task EXCEPT ![t] = k] /\ k = task'[t]
    BY <1>4, <2>2, ZenonT(30) DEF HeartbeatGet, TypeOK
  <2>4. ASSUME k.node = n, k.pc \in {"apply_heartbeat", "set_state"}
        PROVE  NextState(k) = k.seen
    <3>1. k = IF state[task[t].node] = "absent" THEN Idle
              ELSE [task[t] EXCEPT !.pc = "apply_heartbeat",
                      !.seen = state[task[t].node],
                      !.max = max_connections[task[t].node], !.since = now]
      BY <1>4, <2>3, Zenon DEF HeartbeatGet, TypeOK
    <3>2. state[task[t].node] # "absent"
      BY <2>4, <3>1, IdleType, Zenon
    <3>3. k.node = task[t].node /\ k.seen = state[task[t].node]
      BY <2>2, <3>1, <3>2, Zenon DEF Task
    <3>4. k.seen = "draining"
      BY <2>1, <2>4, <3>3, Zenon
    <3>5. QED
      BY <3>4, Zenon DEF NextState, reclassify_after_heartbeat
  <2>5. QED
    BY <2>1, <2>3, <2>4, OverlapKept, Zenon
<1>5. CASE apply_heartbeat(t)
  <2>1. /\ settled[n] /\ state[n] = "draining" /\ ~Overlapped(n) /\ sweep' = sweep
        /\ state' = state
    BY <1>5, Zenon DEF apply_heartbeat, SettledInv
  <2>2. task[t] \in Task /\ task[t].node \in Nodes /\ task' \in [Tasks -> Task]
    BY <1>5, ApplyHeartbeatType, Zenon DEF TypeOK, TaskInv, TaskOK, apply_heartbeat
  <2>3. PICK k \in Task : task' = [task EXCEPT ![t] = k] /\ k = task'[t]
    BY <1>5, <2>2, Zenon DEF apply_heartbeat, TypeOK
  <2>4. ASSUME k.node = n, k.pc \in {"apply_heartbeat", "set_state"}
        PROVE  NextState(k) = k.seen
    <3>1. k = IF NextState(task[t]) # task[t].seen
              THEN [task[t] EXCEPT !.pc = "set_state", !.since = 0]
              ELSE Rereads(task[t].node)
      BY <1>5, <2>3, Zenon DEF apply_heartbeat, TypeOK
    <3>2. NextState(task[t]) # task[t].seen /\ task[t].node = n
      BY <2>2, <2>4, <3>1, IdleType, Zenon DEF Task
    <3>3. QED
      BY <1>5, <2>1, <3>2, Zenon DEF Overlapped, apply_heartbeat
  <2>5. QED
    BY <2>1, <2>3, <2>4, OverlapKept, Zenon
<1>6. CASE set_state(t)
  <2>1. /\ settled[n] /\ state[n] = "draining" /\ ~Overlapped(n) /\ sweep' = sweep
    BY <1>6, Zenon DEF set_state, SettledInv, history
  <2>2. task[t].node \in Nodes /\ task[t].node # n
    BY <1>6, <2>1, Zenon DEF set_state, TaskInv, TaskOK, Overlapped
  <2>3. state'[n] = "draining"
    BY <1>6, <2>1, <2>2, SMTT(30) DEF set_state, Updated, TypeOK
  <2>4. PICK k \in Task : task' = [task EXCEPT ![t] = k] /\ k.pc = "get_again"
    BY <1>6, <2>2, IdleType, Zenon DEF set_state
  <2>5. QED
    BY <2>1, <2>3, <2>4, OverlapKept, ZenonT(30)
<1>7. CASE set_draining(t)
  <2>1. task[t].node \in Nodes /\ sweep' = sweep
    BY <1>7, Zenon DEF set_draining, TaskInv, TaskOK
  <2>2. state'[n] = "draining" /\ ~Overlapped(n)
    BY <1>7, <2>1, SMTT(30) DEF set_draining, Updated, TypeOK, SettledInv
  <2>3. PICK k \in Task : task' = [task EXCEPT ![t] = k] /\ k.pc = "get_again"
    BY <1>7, <2>1, IdleType, Zenon DEF set_draining
  <2>4. QED
    BY <2>1, <2>2, <2>3, OverlapKept, ZenonT(30)
<1>8. QED
  BY <1>1, <1>2, <1>3, <1>4, <1>5, <1>6, <1>7, Zenon DEF Step

(* The sweep never takes up a draining node.                               *)
LEMMA SettledBackground ==
    ASSUME TypeOK, TaskInv, SettledInv,
           Sweep \/ SweepFails \/ Restart \/ Tick \/ UNCHANGED vars
    PROVE  SettledInv'
<1> SUFFICES ASSUME NEW n \in Nodes, settled'[n]
             PROVE  (state[n] = "draining")' /\ ~Overlapped(n)'
  BY Zenon DEF SettledInv
<1>1. settled[n] /\ state[n] = "draining" /\ ~Overlapped(n)
  BY Zenon DEF SettledInv, Sweep, SweepTick, SweepList, mark_offline, SweepFails,
         Restart, Tick, vars, history
<1>2. state'[n] = "draining"
  BY <1>1, Zenon DEF Sweep, SweepTick, SweepList, mark_offline, SweepFails, Restart,
              Tick, vars, table, Updated, TypeOK, Overlapped
<1>3. n \notin sweep'.todo
  <2>1. n \notin sweep.todo
    BY <1>1, Zenon DEF Overlapped
  <2>2. CASE SweepTick \/ SweepFails \/ Restart
    <3>1. \A a : [SweepIdle EXCEPT !.pc = "list", !.at = a].todo = {}
      BY Zenon DEF SweepIdle
    <3>2. QED
      BY <2>2, <3>1, IdleType, Zenon DEF SweepTick, SweepFails, Restart
  <2>3. CASE SweepList
    <3>1. n \notin Stale(sweep.at)
      BY <1>1, Zenon DEF Stale, is_live
    <3>2. \A S : [SweepIdle EXCEPT !.pc = "mark", !.todo = S].todo = S
      BY Zenon DEF SweepIdle
    <3>3. QED
      BY <2>3, <3>1, <3>2, IdleType, Zenon DEF SweepList
  <2>4. ASSUME NEW m \in Nodes, mark_offline(m) PROVE n \notin sweep'.todo
    BY <2>1, <2>4, IdleType, Zenon DEF mark_offline, TypeOK
  <2>5. CASE Tick \/ UNCHANGED vars
    BY <2>1, <2>5, Zenon DEF Tick, vars
  <2>6. QED
    BY <2>2, <2>3, <2>4, <2>5, Zenon DEF Sweep
<1>4. \A t \in Tasks : task'[t] \in {task[t], Idle}
  BY Zenon DEF Sweep, SweepTick, SweepList, mark_offline, SweepFails, Restart, Tick,
         vars
<1>5. QED
  BY <1>1, <1>2, <1>3, <1>4, IdleType DEF Overlapped, NextState

(* A drain that no handler and no sweep had read past is never undone, for *)
(* any number of later heartbeats, registrations, sweeps and failures.     *)
THEOREM DrainIsFinal == Spec => []DrainSticks
<1>1. Init => SettledInv
  BY Zenon DEF Init, SettledInv
<1>2. TypeOK /\ TaskInv /\ SettledInv /\ [Next]_vars => SettledInv'
  BY SettledTask, SettledBackground, Zenon DEF Next
<1>3. SettledInv => DrainSticks
  BY Zenon DEF SettledInv, DrainSticks
<1>4. QED
  BY <1>1, <1>2, <1>3, InitType, NextType, PTL DEF Spec

-----------------------------------------------------------------------------
(* The stored time stamp is the exact one cut to the second.               *)
Stamped ==
    \A n \in Nodes : \/ beat[n] = NoHeartbeat /\ last_heartbeat[n] = NoHeartbeat
                     \/ /\ beat[n] \in Nat
                        /\ last_heartbeat[n] = Truncated(beat[n])

(* Whole seconds lose less than a second.                                  *)
LEMMA TruncatedBounds ==
    ASSUME NEW b \in Nat
    PROVE  /\ Truncated(b) \in Nat
           /\ Truncated(b) <= b
           /\ b < Truncated(b) + Second
<1>1. PICK q : q = b \div Second
  OBVIOUS
<1>2. q \in Nat /\ q * Second <= b /\ b < q * Second + Second
  BY <1>1, TimeAssumption
<1>3. QED
  BY <1>1, <1>2, TimeAssumption, TruncatedType, Zenon DEF Truncated

(* The stored heartbeat stays the exact one in whole seconds.              *)
LEMMA StampedStep ==
    ASSUME TypeOK, TaskInv, Stamped, [Next]_vars
    PROVE  Stamped'
<1>1. ASSUME NEW t \in Tasks, apply_heartbeat(t) PROVE Stamped'
  <2>1. PICK at \in task[t].since .. now :
           /\ last_heartbeat' = Updated(last_heartbeat, task[t].node, Truncated(at))
           /\ beat' = Updated(beat, task[t].node, at)
    BY <1>1, SMTT(30) DEF apply_heartbeat
  <2>2. at \in Nat /\ task[t].node \in Nodes
    <3>1. task[t] \in Task /\ now \in Nat
      BY Zenon DEF TypeOK
    <3>2. at \in Nat
      BY <2>1, <3>1 DEF Task
    <3>3. task[t].node \in Nodes
      BY <1>1, Zenon DEF TaskInv, TaskOK, apply_heartbeat
    <3>4. QED
      BY <3>2, <3>3, Zenon
  <2>3. ASSUME NEW n \in Nodes
        PROVE  \/ beat'[n] = NoHeartbeat /\ last_heartbeat'[n] = NoHeartbeat
               \/ beat'[n] \in Nat /\ last_heartbeat'[n] = Truncated(beat'[n])
    <3>1. CASE n = task[t].node /\ state[n] # "absent"
      BY <2>1, <2>2, <3>1, Zenon DEF Updated, TypeOK
    <3>2. CASE ~(n = task[t].node /\ state[n] # "absent")
      <4>1. beat'[n] = beat[n] /\ last_heartbeat'[n] = last_heartbeat[n]
        BY <2>1, <2>2, <3>2, Zenon DEF Updated, TypeOK
      <4>2. QED
        BY <4>1, Zenon DEF Stamped
    <3>3. QED
      BY <3>1, <3>2, Zenon
  <2>4. QED
    BY <2>3, Zenon DEF Stamped, Truncated
<1>2. ASSUME NEW t \in Tasks,
             Request(t) \/ Register(t) \/ HeartbeatGet(t) \/ set_state(t)
                \/ set_draining(t) \/ GetAgain(t) \/ List(t) \/ record_node(t)
                \/ Abort(t)
      PROVE  UNCHANGED <<last_heartbeat, beat>>
  BY <1>2, RequestReceives, Zenon DEF Receive, Register, HeartbeatGet, set_state,
     set_draining, GetAgain, List, record_node, Abort, table, history
<1>3. ASSUME Sweep \/ SweepFails \/ Restart \/ Tick \/ UNCHANGED vars
      PROVE  UNCHANGED <<last_heartbeat, beat>>
  BY <1>3, Zenon DEF Sweep, SweepTick, SweepList, mark_offline, SweepFails, Restart,
              Tick, vars, table, history
<1>4. ASSUME UNCHANGED <<last_heartbeat, beat>> PROVE Stamped'
  BY <1>4, Zenon DEF Stamped, Truncated
<1>5. QED
  BY <1>1, <1>2, <1>3, <1>4, Zenon DEF Next, Step

(* What is_stale says of a stored heartbeat, said of the exact one.        *)
LEMMA StaleIsSilent ==
    ASSUME TypeOK, Stamped, NEW n \in Nodes, NEW at \in Nat
    PROVE  /\ n \in Stale(at) => /\ beat[n] # NoHeartbeat
                                 /\ at - beat[n] > OfflineTimeout - Second
           /\ is_live(state[n]) /\ beat[n] # NoHeartbeat
              /\ at - beat[n] >= OfflineTimeout => n \in Stale(at)
<1>1. CASE beat[n] = NoHeartbeat
  <2>1. last_heartbeat[n] = NoHeartbeat
    BY <1>1 DEF Stamped, NoHeartbeat
  <2>2. QED
    BY <1>1, <2>1, Zenon DEF Stale, is_stale
<1>2. CASE beat[n] # NoHeartbeat
  <2>1. beat[n] \in Nat /\ last_heartbeat[n] = Truncated(beat[n])
    BY <1>2, Zenon DEF Stamped
  <2>2. /\ last_heartbeat[n] \in Nat
        /\ last_heartbeat[n] <= beat[n] /\ beat[n] < last_heartbeat[n] + Second
    BY <2>1, TruncatedBounds, Zenon
  <2>3. QED
    BY <1>2, <2>1, <2>2, TimeAssumption DEF Stale, is_stale, NoHeartbeat
<1>3. QED
  BY <1>1, <1>2, Zenon

(* The sweep condemns no node that was heard within the timeout less one   *)
(* second, and overlooks none that was silent for the whole of it.         *)
THEOREM SweepExact == Spec => SweepIsExact
<1>1. Init => Stamped
  BY Zenon DEF Init, Stamped
<1>2. TypeOK /\ TaskInv /\ Stamped /\ [Next]_vars => Stamped'
  BY StampedStep, Zenon
<1>3. ASSUME TypeOK, Stamped, SweepList, NEW n \in Nodes
      PROVE  /\ n \in sweep'.todo
                   => /\ beat[n] # NoHeartbeat
                      /\ sweep.at - beat[n] > OfflineTimeout - Second
             /\ is_live(state[n]) /\ beat[n] # NoHeartbeat
                /\ sweep.at - beat[n] >= OfflineTimeout
                   => n \in sweep'.todo
  <2>1. sweep'.todo = Stale(sweep.at)
    <3>1. \A S : [SweepIdle EXCEPT !.pc = "mark", !.todo = S].todo = S
      BY Zenon DEF SweepIdle
    <3>2. QED
      BY <1>3, <3>1, IdleType, Zenon DEF SweepList
  <2>2. sweep.at \in Nat
    BY <1>3, Zenon DEF TypeOK
  <2>3. QED
    BY <1>3, <2>1, <2>2, StaleIsSilent, Zenon
<1>4. TypeOK /\ Stamped /\ [Next]_vars
      => [SweepList => \A n \in Nodes :
             /\ n \in sweep'.todo
                   => /\ beat[n] # NoHeartbeat
                      /\ sweep.at - beat[n] > OfflineTimeout - Second
             /\ is_live(state[n]) /\ beat[n] # NoHeartbeat
                /\ sweep.at - beat[n] >= OfflineTimeout
                   => n \in sweep'.todo]_vars
  BY <1>3, Zenon
<1>5. QED
  BY <1>1, <1>2, <1>4, InitType, NextType, PTL DEF Spec, SweepIsExact

-----------------------------------------------------------------------------
(* The rest is about handlers and sweeps that do not overlap: at most one  *)
(* is in flight (MaxInFlight = 1).                                         *)

(* What the handler k read or is about to publish is what is in the table. *)
Current(k) ==
    /\ k.pc \in {"apply_heartbeat", "set_state"}
          => k.seen = state[k.node] /\ k.max = max_connections[k.node]
    /\ k.pc = "set_state" => k.active = active_connections[k.node]
    /\ k.pc = "record_node"
          => \A n \in Nodes : k.snap[n] \in {"absent", state[n]}

(* The gauge of n is right, or the handler k is about to make it so.       *)
Owes(k, n) == \/ k.pc = "get_again" /\ k.node = n
              \/ k.pc = "record_node" /\ k.snap[n] = state[n]

Published == \A n \in Nodes : \/ state[n] \in {"absent", "offline"}
                              \/ gauge[n] = health_gauge_value(state[n])
                              \/ \E t \in Tasks : Owes(task[t], n)

(* One handler or one sweep at most; what it read is still so.             *)
Alone ==
    /\ \A t, u \in Tasks : task[t].pc # "idle" /\ task[u].pc # "idle" => t = u
    /\ sweep.pc # "idle" => \A t \in Tasks : task[t].pc = "idle"

Serial ==
    /\ Alone
    /\ sweep.pc # "mark" => sweep.todo = {}
    /\ \A n \in sweep.todo : is_live(state[n])
    /\ \A t \in Tasks : Current(task[t])
    /\ faults = 0 => Published

(* With nobody else running: nothing is in flight.                         *)
Quiet == sweep.pc = "idle" /\ \A t \in Tasks : task[t].pc = "idle"

(* The cardinality of a set of none or one, from its definition.           *)
LEMMA CardinalityOfNone == Cardinality({}) = 0
<1> DEFINE P(f) == f = [T \in SUBSET {} |->
                     IF T = {} THEN 0 ELSE 1 + f[T \ {CHOOSE x : x \in T}]]
<1>1. P([T \in SUBSET {} |-> 0])
  OBVIOUS
<1>2. P(CHOOSE f : P(f))
  BY <1>1, Zenon
<1>3. Cardinality({}) = (CHOOSE f : P(f))[{}]
  BY Zenon DEF Cardinality
<1> HIDE DEF P
<1>4. PICK g : g = CHOOSE f : P(f)
  OBVIOUS
<1>5. g[{}] = 0
  BY <1>2, <1>4, Zenon DEF P
<1>6. QED
  BY <1>3, <1>4, <1>5, Zenon

(* A set of one element counts one.                                        *)
LEMMA CardinalityOfOne == ASSUME NEW t PROVE Cardinality({t}) = 1
<1> DEFINE P(f) == f = [T \in SUBSET {t} |->
                     IF T = {} THEN 0 ELSE 1 + f[T \ {CHOOSE x : x \in T}]]
<1> DEFINE h == [T \in SUBSET {t} |-> IF T = {} THEN 0 ELSE 1]
<1>1. /\ {t} # {} /\ {t} \ {CHOOSE x : x \in {t}} = {}
      /\ \A T \in SUBSET {t} : T = {} \/ T = {t}
  OBVIOUS
<1>2. P(h)
  <2>1. \A T \in SUBSET {t} :
           h[T] = IF T = {} THEN 0 ELSE 1 + h[T \ {CHOOSE x : x \in T}]
    BY <1>1
  <2>2. QED
    BY <2>1, Zenon
<1>3. P(CHOOSE f : P(f))
  BY <1>2, Zenon
<1>4. Cardinality({t}) = (CHOOSE f : P(f))[{t}]
  BY Zenon DEF Cardinality
<1> HIDE DEF P
<1>5. PICK g : g = CHOOSE f : P(f)
  OBVIOUS
<1>6. g = [T \in SUBSET {t} |->
             IF T = {} THEN 0 ELSE 1 + g[T \ {CHOOSE x : x \in T}]]
  BY <1>3, <1>5, Zenon DEF P
<1>7. g[{}] = 0
  BY <1>6, Zenon
<1>8. g[{t}] = 1 + g[{t} \ {CHOOSE x : x \in {t}}]
  BY <1>1, <1>6
<1>9. g[{t}] = 1
  BY <1>1, <1>7, <1>8
<1>10. QED
  BY <1>4, <1>5, <1>9, Zenon

(* InFlight counts what runs: below one, nothing does.                     *)
LEMMA QuietWhenNoneInFlight ==
    ASSUME TypeOK, Alone, InFlight < 1 PROVE Quiet
<1> DEFINE B == {t \in Tasks : task[t].pc # "idle"}
<1>1. ASSUME NEW t \in Tasks, task[t].pc # "idle" PROVE FALSE
  <2>1. B = {t}
    BY <1>1, Zenon DEF Alone
  <2>2. Cardinality(B) = 1
    BY <2>1, CardinalityOfOne, Zenon
  <2>3. InFlight = 1 + (IF sweep.pc = "idle" THEN 0 ELSE 1)
    BY <2>2, Zenon DEF InFlight
  <2>4. QED
    BY <2>3
<1>2. B = {}
  BY <1>1, Zenon
<1>3. Cardinality(B) = 0
  BY <1>2, CardinalityOfNone, Zenon
<1>4. InFlight = 0 + (IF sweep.pc = "idle" THEN 0 ELSE 1)
  BY <1>3, Zenon DEF InFlight
<1>5. sweep.pc = "idle"
  BY <1>4
<1>6. QED
  BY <1>1, <1>5, Zenon DEF Quiet

(* The only handler that runs takes a step.                                *)
LEMMA SerialKept ==
    ASSUME TypeOK, NEW t \in Tasks, NEW k \in Task,
           task' = [task EXCEPT ![t] = k], sweep' = sweep,
           sweep.pc = "idle", sweep.todo = {},
           \A u \in Tasks : u # t => task[u].pc = "idle",
           Current(k)', faults' = 0 => Published'
    PROVE  Serial'
<1>1. task'[t] = k /\ \A u \in Tasks : u # t => task'[u] = task[u]
  BY Zenon DEF TypeOK
<1>2. Alone'
  BY <1>1, Zenon DEF Alone
<1>3. ASSUME NEW u \in Tasks PROVE Current(task[u])'
  <2>1. CASE u = t
    BY <1>1, <2>1, Zenon
  <2>2. CASE u # t
    BY <1>1, <2>2, Zenon DEF Current
  <2>3. QED
    BY <2>1, <2>2, Zenon
<1>4. QED
  BY <1>2, <1>3, Zenon DEF Serial

(* A handler that runs, runs alone.                                        *)
LEMMA RunsAlone ==
    ASSUME TypeOK, Serial, NEW t \in Tasks, task[t].pc # "idle"
    PROVE  /\ sweep.pc = "idle" /\ sweep.todo = {}
           /\ \A u \in Tasks : u # t => task[u].pc = "idle"
  BY Zenon DEF Serial, Alone

(* A handler is received when nobody else is at work.                      *)
LEMMA SerialRequest ==
    ASSUME MaxInFlight = 1, TypeOK, Serial, NEW t \in Tasks, Request(t)
    PROVE  Serial'
<1>1. PICK k \in Task :
         /\ Receive(t, k)
         /\ k.pc \in {"register", "get", "set_draining", "get_again", "list"}
  BY RequestReceives, Zenon
<1>2. Quiet
  BY <1>1, QuietWhenNoneInFlight, Zenon DEF Receive, Serial
<1>3. /\ task' = [task EXCEPT ![t] = k] /\ sweep' = sweep
      /\ UNCHANGED <<state, max_connections, active_connections, gauge, faults>>
  BY <1>1, Zenon DEF Receive, table
<1>4. Current(k)'
  BY <1>1, Zenon DEF Current
<1>5. faults' = 0 => Published'
  <2> SUFFICES ASSUME faults = 0, NEW n \in Nodes
               PROVE  \/ state[n] \in {"absent", "offline"}
                      \/ gauge[n] = health_gauge_value(state[n])
    BY <1>3, Zenon DEF Published
  <2>1. ~ \E u \in Tasks : Owes(task[u], n)
    BY <1>2, Zenon DEF Quiet, Owes
  <2>2. QED
    BY <2>1, Zenon DEF Serial, Published
<1>6. sweep.pc = "idle" /\ sweep.todo = {} /\ \A u \in Tasks : task[u].pc = "idle"
  BY <1>2, Zenon DEF Quiet, Serial
<1>7. QED
  BY <1>1, <1>3, <1>4, <1>5, <1>6, SerialKept, Zenon

(* The gauges of the nodes that a handler does not touch stay right.       *)
LEMMA PublishedKept ==
    ASSUME TypeOK, NEW t \in Tasks, NEW k \in Task, Published,
           task' = [task EXCEPT ![t] = k], UNCHANGED gauge,
           \A u \in Tasks : u # t => task[u].pc = "idle",
           \A n \in Nodes : \/ state'[n] = state[n] /\ ~Owes(task[t], n)
                            \/ Owes(k, n)' \/ state'[n] = "absent"
    PROVE  Published'
<1> SUFFICES ASSUME NEW n \in Nodes
             PROVE  \/ state'[n] \in {"absent", "offline"}
                    \/ gauge'[n] = health_gauge_value(state'[n])
                    \/ \E u \in Tasks : Owes(task[u], n)'
  BY Zenon DEF Published
<1>1. task'[t] = k
  BY Zenon DEF TypeOK
<1>2. CASE Owes(k, n)' \/ state'[n] = "absent"
  BY <1>1, <1>2, Zenon
<1>3. CASE state'[n] = state[n] /\ ~Owes(task[t], n)
  <2>1. ~ \E u \in Tasks : Owes(task[u], n)
    BY <1>3, Zenon DEF Owes
  <2>2. QED
    BY <1>3, <2>1, Zenon DEF Published
<1>4. QED
  BY <1>2, <1>3, Zenon

(* The steps that write the state of one row read it back before they      *)
(* publish it.                                                             *)
LEMMA SerialWrites ==
    ASSUME TypeOK, TaskInv, Serial, NEW t \in Tasks,
           Register(t) \/ set_state(t) \/ set_draining(t)
    PROVE  Serial'
<1>0. PICK n \in Nodes : n = task[t].node
  BY Zenon DEF TaskInv, TaskOK, Register, set_state, set_draining
<1>1. task[t].pc \in {"register", "set_state", "set_draining"}
  BY Zenon DEF Register, set_state, set_draining
<1>2. PICK k \in Task : k = Rereads(n) /\ k.pc = "get_again" /\ k.node = n
  BY IdleType, Zenon
<1>3. task' = [task EXCEPT ![t] = k]
  BY <1>0, <1>2, Zenon DEF Register, set_state, set_draining
<1>4. sweep' = sweep /\ gauge' = gauge /\ faults' = faults
  BY Zenon DEF Register, set_state, set_draining
<1>5. \A m \in Nodes : m # n => state'[m] = state[m]
  <2>1. CASE Register(t)
    BY <1>0, <2>1, Zenon DEF Register, TypeOK
  <2>2. CASE set_state(t) \/ set_draining(t)
    BY <1>0, <2>2, Zenon DEF set_state, set_draining, Updated, TypeOK
  <2>3. QED
    BY <2>1, <2>2, Zenon
<1>6. /\ sweep.pc = "idle" /\ sweep.todo = {}
      /\ \A u \in Tasks : u # t => task[u].pc = "idle"
  BY <1>1, RunsAlone, Zenon
<1>7. Current(k)'
  BY <1>2, Zenon DEF Current
<1>8. Owes(k, n)' /\ \A m \in Nodes : ~Owes(task[t], m)
  BY <1>1, <1>2, Zenon DEF Owes
<1>9. faults' = 0 => Published'
  <2>1. \A m \in Nodes : \/ state'[m] = state[m] /\ ~Owes(task[t], m)
                         \/ Owes(k, m)' \/ state'[m] = "absent"
    BY <1>5, <1>8, Zenon
  <2>2. QED
    BY <1>2, <1>3, <1>4, <1>6, <2>1, PublishedKept, Zenon DEF Serial
<1>10. QED
  BY <1>2, <1>3, <1>4, <1>6, <1>7, <1>9, SerialKept, Zenon

(* A heartbeat keeps what it read until it is done with it.                *)
LEMMA SerialHeartbeat ==
    ASSUME TypeOK, TaskInv, Serial, NEW t \in Tasks,
           HeartbeatGet(t) \/ apply_heartbeat(t)
    PROVE  Serial'
<1> DEFINE n == task[t].node
<1>1. /\ n \in Nodes /\ task[t].pc \in {"get", "apply_heartbeat"}
      /\ task[t] \in Task
  BY Zenon DEF TaskInv, TaskOK, HeartbeatGet, apply_heartbeat, TypeOK
<1>2. task' \in [Tasks -> Task]
  BY HeartbeatGetType, ApplyHeartbeatType, Zenon DEF TypeOK
<1>3. PICK k \in Task : task' = [task EXCEPT ![t] = k] /\ k = task'[t]
  BY <1>2, Zenon DEF HeartbeatGet, apply_heartbeat, TypeOK
<1>4. /\ sweep' = sweep /\ gauge' = gauge /\ faults' = faults
      /\ state' = state /\ max_connections' = max_connections
  BY Zenon DEF HeartbeatGet, apply_heartbeat, table
<1>5. /\ sweep.pc = "idle" /\ sweep.todo = {}
      /\ \A u \in Tasks : u # t => task[u].pc = "idle"
  BY <1>1, RunsAlone, Zenon
<1>6. Current(k)'
  <2>1. CASE HeartbeatGet(t)
    <3>1. k = IF state[n] = "absent" THEN Idle
              ELSE [task[t] EXCEPT !.pc = "apply_heartbeat", !.seen = state[n],
                      !.max = max_connections[n], !.since = now]
      BY <1>3, <2>1, Zenon DEF HeartbeatGet, TypeOK
    <3>2. CASE state[n] = "absent"
      BY <3>1, <3>2, IdleType, Zenon DEF Current
    <3>3. CASE state[n] # "absent"
      <4>1. k.pc = "apply_heartbeat" /\ k.node = n /\ k.seen = state[n]
            /\ k.max = max_connections[n]
        BY <1>1, <3>1, <3>3, Zenon DEF Task
      <4>2. QED
        BY <1>4, <4>1, Zenon DEF Current
    <3>4. QED
      BY <3>2, <3>3, Zenon
  <2>2. CASE apply_heartbeat(t)
    <3>1. k = IF NextState(task[t]) # task[t].seen
              THEN [task[t] EXCEPT !.pc = "set_state", !.since = 0]
              ELSE Rereads(n)
      BY <1>3, <2>2, Zenon DEF apply_heartbeat, TypeOK
    <3>2. CASE NextState(task[t]) = task[t].seen
      BY <1>1, <3>1, <3>2, IdleType, Zenon DEF Current
    <3>3. CASE NextState(task[t]) # task[t].seen
      <4>1. k.pc = "set_state" /\ k.node = n /\ k.seen = task[t].seen
            /\ k.max = task[t].max /\ k.active = task[t].active
        BY <1>1, <3>1, <3>3, Zenon DEF Task
      <4>2. task[t].seen = state[n] /\ task[t].max = max_connections[n]
        BY <2>2, Zenon DEF Serial, Current, apply_heartbeat
      <4>3. state[n] # "absent"
        BY <2>2, Zenon DEF TaskInv, TaskOK, apply_heartbeat
      <4>4. active_connections'[n] = task[t].active
        BY <1>1, <2>2, <4>3, Zenon DEF apply_heartbeat, Updated, TypeOK
      <4>5. QED
        BY <1>4, <4>1, <4>2, <4>4, Zenon DEF Current
    <3>4. QED
      BY <3>2, <3>3, Zenon
  <2>3. QED
    BY <2>1, <2>2, Zenon
<1>7. faults' = 0 => Published'
  <2>1. \A m \in Nodes : \/ state'[m] = state[m] /\ ~Owes(task[t], m)
                         \/ Owes(k, m)' \/ state'[m] = "absent"
    BY <1>1, <1>4, Zenon DEF Owes
  <2>2. QED
    BY <1>3, <1>4, <1>5, <2>1, PublishedKept, Zenon DEF Serial
<1>8. QED
  BY <1>3, <1>4, <1>5, <1>6, <1>7, SerialKept, Zenon

(* What is read back to be published is what the table holds.              *)
LEMMA SerialReads ==
    ASSUME TypeOK, TaskInv, Serial, NEW t \in Tasks, GetAgain(t) \/ List(t)
    PROVE  Serial'
<1> DEFINE Records(f) == [Idle EXCEPT !.pc = "record_node", !.snap = f]
<1>0. \A f : Records(f).pc = "record_node" /\ Records(f).snap = f
  BY Zenon DEF Idle
<1>1. task[t].pc \in {"get_again", "list"}
  BY Zenon DEF GetAgain, List
<1>2. task' \in [Tasks -> Task]
  BY ReadType, Zenon DEF TypeOK
<1>3. PICK k \in Task : task' = [task EXCEPT ![t] = k] /\ k = task'[t]
  BY <1>2, Zenon DEF GetAgain, List, TypeOK
<1>4. sweep' = sweep /\ gauge' = gauge /\ faults' = faults /\ state' = state
  BY Zenon DEF GetAgain, List, table
<1>5. /\ sweep.pc = "idle" /\ sweep.todo = {}
      /\ \A u \in Tasks : u # t => task[u].pc = "idle"
  BY <1>1, RunsAlone, Zenon
<1>6. /\ Current(k)'
      /\ \A m \in Nodes : \/ state'[m] = state[m] /\ ~Owes(task[t], m)
                          \/ Owes(k, m)' \/ state'[m] = "absent"
  <2>1. CASE GetAgain(t)
    <3>1. PICK n \in Nodes : n = task[t].node
      BY <2>1, Zenon DEF TaskInv, TaskOK, GetAgain
    <3>2. k = IF state[n] = "absent" THEN Idle
              ELSE Records([Nothing EXCEPT ![n] = state[n]])
      BY <1>3, <2>1, <3>1, Zenon DEF GetAgain, TypeOK
    <3>3. \A m \in Nodes : Owes(task[t], m) => m = n
      BY <2>1, <3>1, Zenon DEF Owes, GetAgain
    <3>4. CASE state[n] = "absent"
      <4>1. k.pc = "idle"
        BY <3>2, <3>4, IdleType, Zenon
      <4>2. QED
        BY <1>4, <3>3, <3>4, <4>1, Zenon DEF Current
    <3>5. CASE state[n] # "absent"
      <4>1. k.pc = "record_node" /\ k.snap = [Nothing EXCEPT ![n] = state[n]]
        BY <1>0, <3>2, <3>5, Zenon
      <4>2. /\ k.snap[n] = state[n]
            /\ \A m \in Nodes : m # n => k.snap[m] = "absent"
        BY <4>1, Zenon DEF Nothing
      <4>3. QED
        BY <1>4, <3>3, <4>1, <4>2, Zenon DEF Current, Owes
    <3>6. QED
      BY <3>4, <3>5, Zenon
  <2>2. CASE List(t)
    <3>1. k = Records(state)
      BY <1>3, <2>2, Zenon DEF List, TypeOK
    <3>2. k.pc = "record_node" /\ k.snap = state
      BY <1>0, <3>1, Zenon
    <3>3. QED
      BY <1>4, <3>2, Zenon DEF Current, Owes
  <2>3. QED
    BY <2>1, <2>2, Zenon
<1>7. faults' = 0 => Published'
  BY <1>3, <1>4, <1>5, <1>6, PublishedKept, Zenon DEF Serial
<1>8. QED
  BY <1>3, <1>4, <1>5, <1>6, <1>7, SerialKept, Zenon

(* record_node pays what the handler owes; a handler cut short is a fault. *)
LEMMA SerialEnds ==
    ASSUME TypeOK, TaskInv, Serial, NEW t \in Tasks, record_node(t) \/ Abort(t)
    PROVE  Serial'
<1>1. PICK k \in Task : k = Idle
  BY IdleType, Zenon
<1>2. /\ task' = [task EXCEPT ![t] = k] /\ sweep' = sweep /\ state' = state
      /\ task[t].pc # "idle"
  BY <1>1, Zenon DEF record_node, Abort, table
<1>3. /\ sweep.pc = "idle" /\ sweep.todo = {}
      /\ \A u \in Tasks : u # t => task[u].pc = "idle"
  BY <1>2, RunsAlone, Zenon
<1>4. Current(k)'
  BY <1>1, IdleType, Zenon DEF Current
<1>5. faults' = 0 => Published'
  <2>1. CASE Abort(t)
    BY <2>1 DEF Abort, TypeOK
  <2>2. CASE record_node(t)
    <3> SUFFICES ASSUME faults = 0, NEW n \in Nodes
                 PROVE  \/ state[n] \in {"absent", "offline"}
                        \/ gauge'[n] = health_gauge_value(state[n])
      BY <1>2, <2>2, Zenon DEF Published, record_node
    <3>1. task[t].snap[n] \in {"absent", state[n]}
      BY <2>2, Zenon DEF Serial, Current, record_node
    <3>2. gauge'[n] = IF task[t].snap[n] = "absent" THEN gauge[n]
                      ELSE health_gauge_value(task[t].snap[n])
      BY <2>2, Zenon DEF record_node
    <3>3. CASE task[t].snap[n] # "absent"
      BY <3>1, <3>2, <3>3, Zenon
    <3>4. CASE task[t].snap[n] = "absent"
      <4>1. \/ state[n] \in {"absent", "offline"}
            \/ gauge[n] = health_gauge_value(state[n])
            \/ \E u \in Tasks : Owes(task[u], n)
        BY Zenon DEF Serial, Published
      <4>2. ASSUME NEW u \in Tasks, Owes(task[u], n) PROVE state[n] = "absent"
        BY <1>3, <2>2, <3>4, <4>2, Zenon DEF Owes, record_node
      <4>3. QED
        BY <3>2, <3>4, <4>1, <4>2, Zenon
    <3>5. QED
      BY <3>3, <3>4, Zenon
  <2>3. QED
    BY <2>1, <2>2, Zenon
<1>6. QED
  BY <1>1, <1>2, <1>3, <1>4, <1>5, SerialKept, Zenon

(* The sweep starts when nobody runs, and what it listed stays live until  *)
(* it is marked.                                                           *)
LEMMA SerialSweep ==
    ASSUME MaxInFlight = 1, TypeOK, TaskInv, Serial, Sweep
    PROVE  Serial'
<1> USE DEF SweepIdle
<1>0. UNCHANGED <<task, gauge, faults, max_connections, active_connections>>
  BY Zenon DEF Sweep, SweepTick, SweepList, mark_offline, table
<1>1. Quiet \/ sweep.pc # "idle"
  BY QuietWhenNoneInFlight, Zenon DEF Sweep, SweepTick, SweepList, mark_offline, Serial
<1>2. \A t \in Tasks : task[t].pc = "idle"
  BY <1>1, Zenon DEF Quiet, Serial, Alone
<1>3. /\ Alone' /\ \A t \in Tasks : Current(task[t])'
  BY <1>0, <1>2, Zenon DEF Alone, Current
<1>4. \A n \in Nodes : state'[n] \in {state[n], "offline"}
  BY Zenon DEF Sweep, SweepTick, SweepList, mark_offline, table, Updated, TypeOK
<1>5. faults' = 0 => Published'
  <2>1. \A n \in Nodes : ~ \E t \in Tasks : Owes(task[t], n)
    BY <1>2, Zenon DEF Owes
  <2>2. QED
    BY <1>0, <1>4, <2>1, Zenon DEF Serial, Published
<1>6. (sweep.pc # "mark" => sweep.todo = {})' /\ (\A n \in sweep.todo : is_live(state[n]))'
  <2>1. CASE SweepTick
    BY <2>1, Zenon DEF SweepTick, Serial
  <2>2. CASE SweepList
    <3>1. state' = state /\ \A n \in Stale(sweep.at) : is_live(state[n])
      BY <2>2, Zenon DEF SweepList, Stale, table
    <3>2. sweep' = SweepIdle \/ (sweep'.pc = "mark" /\ sweep'.todo = Stale(sweep.at))
      BY <2>2, Zenon DEF SweepList
    <3>3. QED
      BY <3>1, <3>2
  <2>3. ASSUME NEW n \in Nodes, mark_offline(n)
        PROVE  (sweep.pc # "mark" => sweep.todo = {})'
               /\ (\A m \in sweep.todo : is_live(state[m]))'
    <3>1. sweep.pc = "mark" /\ \A m \in sweep.todo : m \in Nodes /\ is_live(state[m])
      BY <2>3, Zenon DEF mark_offline, Serial, TypeOK
    <3>2. sweep' = SweepIdle
          \/ (sweep'.pc = "mark" /\ sweep'.todo = sweep.todo \ {n})
      BY <2>3, <3>1, Zenon DEF mark_offline, TypeOK
    <3>3. \A m \in Nodes : m # n => state'[m] = state[m]
      BY <2>3, Zenon DEF mark_offline, Updated, TypeOK
    <3>4. QED
      BY <3>1, <3>2, <3>3
  <2>4. QED
    BY <2>1, <2>2, <2>3, Zenon DEF Sweep
<1>7. QED
  BY <1>3, <1>5, <1>6, Zenon DEF Serial

(* Failures of the sweep, restarts and the clock.                          *)
LEMMA SerialRest ==
    ASSUME TypeOK, Serial, SweepFails \/ Restart \/ Tick \/ UNCHANGED vars
    PROVE  Serial'
<1>1. CASE Tick \/ UNCHANGED vars
  BY <1>1 DEF Tick, vars, table, Serial, Alone, Current, Published, Owes
<1>2. CASE SweepFails
  <2>1. /\ sweep' = SweepIdle /\ task' = task /\ faults' # 0
        /\ UNCHANGED <<state, max_connections, active_connections>>
    BY <1>2 DEF SweepFails, table, TypeOK
  <2>2. Alone'
    BY <2>1, IdleType DEF Serial, Alone
  <2>3. \A t \in Tasks : Current(task[t])'
    BY <2>1, Zenon DEF Serial, Current
  <2>4. sweep'.pc # "mark" /\ sweep'.todo = {}
    BY <2>1, IdleType, Zenon
  <2>5. QED
    BY <2>1, <2>2, <2>3, <2>4, Zenon DEF Serial
<1>3. CASE Restart
  <2>1. /\ sweep' = SweepIdle /\ faults' # 0
        /\ \A t \in Tasks : task'[t] = Idle
    BY <1>3 DEF Restart, TypeOK
  <2>2. Alone' /\ \A t \in Tasks : Current(task[t])'
    BY <2>1, IdleType, Zenon DEF Alone, Current
  <2>3. sweep'.pc # "mark" /\ sweep'.todo = {}
    BY <2>1, IdleType, Zenon
  <2>4. QED
    BY <2>1, <2>2, <2>3, Zenon DEF Serial
<1>4. QED
  BY <1>1, <1>2, <1>3, Zenon

(* Every step of handlers that do not overlap keeps the invariant.         *)
LEMMA SerialStep ==
    MaxInFlight = 1 /\ TypeOK /\ TaskInv /\ Serial /\ [Next]_vars => Serial'
<1> SUFFICES ASSUME MaxInFlight = 1, TypeOK, TaskInv, Serial, [Next]_vars
             PROVE  Serial'
  OBVIOUS
<1>1. ASSUME NEW t \in Tasks, Request(t) \/ Step(t) \/ Abort(t) PROVE Serial'
  BY <1>1, SerialRequest, SerialWrites, SerialHeartbeat, SerialReads, SerialEnds,
     Zenon DEF Step
<1>2. QED
  BY <1>1, SerialSweep, SerialRest, Zenon DEF Next

(* It holds of an empty table.                                             *)
LEMMA SerialInit == Init => Serial
  BY IdleType DEF Init, Serial, Alone, Current, Published, Nothing

(* When handlers and sweeps do not overlap and none is cut short, every    *)
(* published gauge follows the row: no handler leaves a state that it      *)
(* wrote unpublished, and none publishes a state that it read too early.   *)
THEOREM GaugeIsRight == ASSUME MaxInFlight = 1 PROVE Spec => []GaugeFollows
<1>1. TypeOK /\ Serial => GaugeFollows
  <2> SUFFICES ASSUME TypeOK, Serial, InFlight = 0, faults = 0, NEW n \in Nodes
               PROVE  \/ state[n] \in {"absent", "offline"}
                      \/ gauge[n] = health_gauge_value(state[n])
    BY Zenon DEF GaugeFollows
  <2>1. Quiet
    BY QuietWhenNoneInFlight DEF Serial
  <2>2. ~ \E t \in Tasks : Owes(task[t], n)
    BY <2>1, Zenon DEF Quiet, Owes
  <2>3. QED
    BY <2>2, Zenon DEF Serial, Published
<1>2. TypeOK /\ TaskInv /\ Serial /\ [Next]_vars => Serial'
  BY SerialStep, Zenon
<1>3. QED
  BY <1>1, <1>2, SerialInit, InitType, NextType, PTL DEF Spec

-----------------------------------------------------------------------------
(* The last update of a heartbeat leaves the class that the row calls for. *)
LEMMA ClassifiesStep ==
    ASSUME TypeOK, TaskInv, Serial, [Next]_vars, NEW t \in Tasks,
           task[t].pc \in {"apply_heartbeat", "set_state"},
           task'[t].pc = "get_again"
    PROVE  LET n == task[t].node
           IN  \/ ~is_live(state'[n])
               \/ state'[n] = (IF Overloaded(active_connections'[n],
                                            max_connections'[n])
                               THEN "degraded" ELSE "healthy")
<1>0. PICK n \in Nodes : n = task[t].node
  BY Zenon DEF TaskInv, TaskOK
<1>1. /\ task[t].seen = state[n] /\ task[t].max = max_connections[n]
      /\ state[n] # "absent" /\ task[t] \in Task
  BY <1>0, Zenon DEF Serial, Current, TaskInv, TaskOK, TypeOK
<1>2. \A u \in Tasks : u # t => task[u].pc = "idle"
  BY RunsAlone, Zenon
<1>3. apply_heartbeat(t) \/ set_state(t)
  <2>1. ASSUME NEW u \in Tasks, Step(u)
        PROVE  apply_heartbeat(t) \/ set_state(t)
    <3>1. u = t
      BY <1>2, <2>1, Zenon DEF Step, Register, HeartbeatGet, apply_heartbeat, set_state,
                        set_draining, GetAgain, List, record_node
    <3>2. QED
      BY <2>1, <3>1, Zenon DEF Step, Register, HeartbeatGet, set_draining, GetAgain,
                        List, record_node
  <2>2. ASSUME NEW u \in Tasks, Request(u) PROVE FALSE
    <3>1. PICK k \in Task : task[u].pc = "idle" /\ task' = [task EXCEPT ![u] = k]
      BY <2>2, RequestReceives, Zenon DEF Receive
    <3>2. task'[t] = task[t]
      BY <3>1, Zenon DEF TypeOK
    <3>3. QED
      BY <3>2, Zenon
  <2>3. ASSUME NEW u \in Tasks, Abort(u) PROVE FALSE
    BY <2>3, IdleType, Zenon DEF Abort, TypeOK
  <2>4. CASE Sweep \/ SweepFails \/ Tick \/ UNCHANGED vars
    BY <2>4, Zenon DEF Sweep, SweepTick, SweepList, mark_offline, SweepFails, Tick, vars
  <2>5. CASE Restart
    BY <2>5, IdleType, Zenon DEF Restart
  <2>6. QED
    BY <2>1, <2>2, <2>3, <2>4, <2>5, Zenon DEF Next
<1>4. max_connections' = max_connections
  BY <1>3, Zenon DEF apply_heartbeat, set_state
<1>5. active_connections'[n] = task[t].active
  <2>1. CASE apply_heartbeat(t)
    BY <1>0, <1>1, <2>1, Zenon DEF apply_heartbeat, Updated, TypeOK
  <2>2. CASE set_state(t)
    BY <1>0, <2>2, Zenon DEF set_state, Serial, Current
  <2>3. QED
    BY <1>3, <2>1, <2>2, Zenon
<1>6. state'[n] = NextState(task[t])
  <2>1. CASE set_state(t)
    BY <1>0, <1>1, <2>1, Zenon DEF set_state, Updated, TypeOK
  <2>2. CASE apply_heartbeat(t)
    <3>1. task'[t] = IF NextState(task[t]) # task[t].seen
                     THEN [task[t] EXCEPT !.pc = "set_state", !.since = 0]
                     ELSE Rereads(task[t].node)
      BY <2>2, Zenon DEF apply_heartbeat, TypeOK
    <3>2. [task[t] EXCEPT !.pc = "set_state", !.since = 0].pc = "set_state"
      BY <1>1, Zenon DEF Task
    <3>3. NextState(task[t]) = task[t].seen
      BY <3>1, <3>2, Zenon
    <3>4. QED
      BY <1>1, <2>2, <3>3, Zenon DEF apply_heartbeat
  <2>3. QED
    BY <1>3, <2>1, <2>2, Zenon
<1>7. QED
  BY <1>0, <1>1, <1>4, <1>5, <1>6, Zenon
     DEF NextState, reclassify_after_heartbeat, is_live

(* Heartbeats that overlap nothing leave no mixed row: the class in a row  *)
(* is the one of the load and the size in that same row.                   *)
THEOREM RowsAreConsistent == ASSUME MaxInFlight = 1 PROVE Spec => HeartbeatClassifies
<1>1. TypeOK /\ TaskInv /\ Serial /\ [Next]_vars
      => [\A t \in Tasks :
             LET n == task[t].node
             IN  /\ task[t].pc \in {"apply_heartbeat", "set_state"}
                 /\ task'[t].pc = "get_again"
                 => \/ ~is_live(state'[n])
                    \/ state'[n] = (IF Overloaded(active_connections'[n],
                                                 max_connections'[n])
                                    THEN "degraded" ELSE "healthy")]_vars
  BY ClassifiesStep, Zenon
<1>2. TypeOK /\ TaskInv /\ Serial /\ [Next]_vars => Serial'
  BY SerialStep, Zenon
<1>3. QED
  BY <1>1, <1>2, SerialInit, InitType, NextType, PTL DEF Spec, HeartbeatClassifies

-----------------------------------------------------------------------------
(* Every step is a step of the life cycle, or leaves the states alone.     *)
LEMMA LifecycleStep ==
    TypeOK /\ TaskInv /\ Serial /\ [Next]_vars => [Lifecycle!Next]_state
<1> SUFFICES ASSUME TypeOK, TaskInv, Serial, [Next]_vars
             PROVE  state' = state \/ Lifecycle!Next
  OBVIOUS
<1> DEFINE Goal == state' = state \/ Lifecycle!Next
<1>1. ASSUME NEW n \in Nodes, NEW s, state' = [state EXCEPT ![n] = s],
             \/ state[n] \in {"absent", "starting", "offline"} /\ s = "starting"
             \/ is_live(state[n]) /\ s \in {"healthy", "degraded", "offline"}
             \/ state[n] \in NodeState /\ s = "draining"
      PROVE  Goal
  <2>1. CASE state[n] \in {"absent", "starting", "offline"} /\ s = "starting"
    <3>1. Lifecycle!Join(n)
      BY <1>1, <2>1, Zenon DEF Lifecycle!Join, Lifecycle!Moves
    <3>2. QED
      BY <3>1, Zenon DEF Lifecycle!Next
  <2>2. CASE is_live(state[n]) /\ s \in {"healthy", "degraded"}
    <3>1. Lifecycle!Beat(n)
      BY <1>1, <2>2, Zenon DEF Lifecycle!Beat, Lifecycle!Moves, is_live
    <3>2. QED
      BY <3>1, Zenon DEF Lifecycle!Next
  <2>3. CASE is_live(state[n]) /\ s = "offline"
    <3>1. Lifecycle!Expire(n)
      BY <1>1, <2>3, Zenon DEF Lifecycle!Expire, Lifecycle!Moves, is_live
    <3>2. QED
      BY <3>1, Zenon DEF Lifecycle!Next
  <2>4. CASE state[n] \in NodeState /\ s = "draining"
    <3>1. Lifecycle!Drain(n)
      BY <1>1, <2>4, Zenon DEF Lifecycle!Drain, Lifecycle!Moves, Lifecycle!NodeState, NodeState
    <3>2. QED
      BY <3>1, Zenon DEF Lifecycle!Next
  <2>5. QED
    BY <1>1, <2>1, <2>2, <2>3, <2>4, Zenon
<1> HIDE DEF Goal
<1>2. ASSUME state' = state PROVE Goal
  BY <1>2, Zenon DEF Goal
<1>3. ASSUME NEW t \in Tasks, Register(t) PROVE Goal
  <2>1. PICK n \in Nodes : n = task[t].node
    BY <1>3, Zenon DEF TaskInv, TaskOK, Register
  <2>2. CASE state[n] \in {"absent", "offline", "starting"}
    <3>1. state' = [state EXCEPT ![n] = "starting"]
      BY <1>3, <2>1, <2>2, Zenon DEF Register
    <3>2. QED
      BY <1>1, <2>2, <3>1, Zenon
  <2>3. CASE state[n] \notin {"absent", "offline", "starting"}
    BY <1>2, <1>3, <2>1, <2>3, Zenon DEF Register, TypeOK
  <2>4. QED
    BY <2>2, <2>3, Zenon
<1>4. ASSUME NEW t \in Tasks, set_state(t) PROVE Goal
  <2>1. PICK n \in Nodes : n = task[t].node
    BY <1>4, Zenon DEF TaskInv, TaskOK, set_state
  <2>2. /\ task[t].seen = state[n] /\ state[n] # "absent"
        /\ NextState(task[t]) # state[n] /\ state[n] \in RowState
    BY <1>4, <2>1, Zenon DEF Serial, Current, TaskInv, TaskOK, set_state, TypeOK
  <2>3. state' = [state EXCEPT ![n] = NextState(task[t])]
    BY <1>4, <2>1, <2>2, Zenon DEF set_state, Updated
  <2>4. is_live(state[n]) /\ NextState(task[t]) \in {"healthy", "degraded"}
    BY <2>2, Zenon DEF NextState, reclassify_after_heartbeat, is_live, RowState, NodeState
  <2>5. QED
    BY <1>1, <2>3, <2>4, Zenon
<1>5. ASSUME NEW t \in Tasks, set_draining(t) PROVE Goal
  <2>1. PICK n \in Nodes : n = task[t].node
    BY <1>5, Zenon DEF TaskInv, TaskOK, set_draining
  <2>2. state' = Updated(state, n, "draining") /\ state[n] \in RowState
    BY <1>5, <2>1, Zenon DEF set_draining, TypeOK
  <2>3. CASE state[n] = "absent"
    BY <1>2, <2>2, <2>3, Zenon DEF Updated
  <2>4. CASE state[n] # "absent"
    <3>1. state' = [state EXCEPT ![n] = "draining"] /\ state[n] \in NodeState
      BY <2>2, <2>4, Zenon DEF Updated, RowState
    <3>2. QED
      BY <1>1, <3>1, Zenon
  <2>5. QED
    BY <2>3, <2>4, Zenon
<1>6. ASSUME NEW n \in Nodes, mark_offline(n) PROVE Goal
  <2>1. is_live(state[n])
    BY <1>6, Zenon DEF Serial, mark_offline
  <2>2. state' = [state EXCEPT ![n] = "offline"]
    BY <1>6, <2>1, Zenon DEF mark_offline, Updated, is_live
  <2>3. QED
    BY <1>1, <2>1, <2>2, Zenon
<1>7. ASSUME NEW t \in Tasks,
             \/ Request(t) \/ HeartbeatGet(t) \/ apply_heartbeat(t)
             \/ GetAgain(t) \/ List(t) \/ record_node(t) \/ Abort(t)
      PROVE  state' = state
  BY <1>7, RequestReceives, Zenon DEF Receive, HeartbeatGet, apply_heartbeat, GetAgain,
                                List, record_node, Abort, table
<1>8. ASSUME SweepTick \/ SweepList \/ SweepFails \/ Restart \/ Tick \/ UNCHANGED vars
      PROVE  state' = state
  BY <1>8, Zenon DEF SweepTick, SweepList, SweepFails, Restart, Tick, vars, table
<1>9. Goal
  BY <1>2, <1>3, <1>4, <1>5, <1>6, <1>7, <1>8, Zenon DEF Next, Step, Sweep
<1>10. QED
  BY <1>9, Zenon DEF Goal

(* Handlers and sweeps that do not overlap implement the life cycle of a   *)
(* node: a draining node stays draining, and only a registration or a      *)
(* drain takes a node out of offline.                                      *)
THEOREM LifecycleImplemented == ASSUME MaxInFlight = 1 PROVE Spec => ImplementsLifecycle
<1>1. Init => Lifecycle!Init
  BY Zenon DEF Init, Lifecycle!Init, Nothing
<1>2. TypeOK /\ TaskInv /\ Serial /\ [Next]_vars => Serial'
  BY SerialStep, Zenon
<1>3. QED
  BY <1>1, <1>2, LifecycleStep, SerialInit, InitType, NextType, PTL
     DEF Spec, ImplementsLifecycle, Lifecycle!Spec

-----------------------------------------------------------------------------
(* Agents and control plane together.                                      *)

(* The agents make only requests that the control plane knows.             *)
LEMMA ClusterStep == [CNext]_cvars => [Next]_vars
<1> SUFFICES ASSUME [CNext]_cvars PROVE [Next]_vars
  OBVIOUS
<1>1. ASSUME NEW n \in Nodes, AgentStarts(n) PROVE Next
  BY <1>1, Zenon DEF AgentStarts, Next, Request
<1>2. ASSUME NEW n \in Nodes, AgentBeats(n) PROVE Next
  BY <1>2, AgentsAssumption, Zenon DEF AgentBeats, Next, Request
<1>3. ASSUME NEW n \in Nodes, OperatorDrains(n) PROVE Next
  BY <1>3, Zenon DEF OperatorDrains, Next, Request
<1>4. ASSUME NEW n \in Nodes, AgentDies(n) PROVE UNCHANGED vars
  BY <1>4, Zenon DEF AgentDies
<1>5. ASSUME NEW t \in Tasks, Serves(t) PROVE Next
  BY <1>5, Zenon DEF Serves, Next
<1>6. CASE Waits \/ Sweeps \/ Fails
  BY <1>6, Zenon DEF Waits, Sweeps, Fails, Next
<1>7. CASE UNCHANGED cvars
  BY <1>7, Zenon DEF cvars
<1> QED
  BY <1>1, <1>2, <1>3, <1>4, <1>5, <1>6, <1>7, Zenon DEF CNext

(* The control plane under its agents is the control plane: what is proved *)
(* of module ControlPlane (selection, drains, the sweep) holds here.       *)
THEOREM ClusterIsControlPlane == ClusterSpec => Spec
<1>1. CInit => Init
  BY Zenon DEF CInit
<1> QED
  BY <1>1, ClusterStep, PTL DEF ClusterSpec, Spec

AgentType ==
    /\ agent \in [Nodes -> {"new", "up", "dead"}]
    /\ lives \in [Nodes -> 0 .. MaxLives]
    /\ silence \in [Nodes -> 0 .. HeartbeatInterval]

(* Every step keeps the types of the agents.                               *)
LEMMA AgentTypeStep ==
    ASSUME AgentType, [CNext]_cvars
    PROVE  AgentType'
<1> USE ConfigAssumption
<1>1. ASSUME NEW n \in Nodes, AgentStarts(n) PROVE AgentType'
  BY <1>1 DEF AgentStarts, AgentType
<1>2. ASSUME NEW n \in Nodes, AgentBeats(n) PROVE AgentType'
  BY <1>2 DEF AgentBeats, AgentType
<1>3. ASSUME NEW n \in Nodes, AgentDies(n) PROVE AgentType'
  BY <1>3, Zenon DEF AgentDies, AgentType
<1>4. CASE Waits
  <2>1. \A n \in Nodes : silence'[n] \in 0 .. HeartbeatInterval
    BY <1>4 DEF Waits, AgentType
  <2> QED
    BY <1>4, <2>1, Zenon DEF Waits, AgentType
<1>5. ASSUME UNCHANGED <<agent, lives, silence>> PROVE AgentType'
  BY <1>5, Zenon DEF AgentType
<1> QED
  BY <1>1, <1>2, <1>3, <1>4, <1>5, Zenon
  DEF CNext, cvars, OperatorDrains, Serves, Sweeps, Fails

(* No agent sleeps through its interval, and the control plane keeps its   *)
(* types (heartbeat_loop: the timer fires before anything else is due).    *)
THEOREM ClusterTypes == ClusterSpec => []ClusterTypeOK
<1>1. CInit => AgentType
  BY ConfigAssumption DEF CInit, AgentType
<1>2. AgentType /\ [CNext]_cvars => AgentType'
  BY AgentTypeStep, Zenon
<1>3. TypeOK /\ AgentType => ClusterTypeOK
  BY Zenon DEF AgentType, ClusterTypeOK
<1> QED
  BY <1>1, <1>2, <1>3, ClusterIsControlPlane, TypeCorrect, PTL DEF ClusterSpec

-----------------------------------------------------------------------------
(* What a step of a handler does, as far as the agents are concerned.      *)

(* The handler goes on to k.                                               *)
Moves(t, k) ==
    /\ task' = [task EXCEPT ![t] = k]
    /\ \/ k.pc \in {"idle", "record_node"}
       \/ /\ k.pc = "get_again" /\ k.node = task[t].node
          /\ task[t].pc \in {"register", "apply_heartbeat", "set_state", "set_draining"}
       \/ /\ k.pc = "apply_heartbeat" /\ task[t].pc = "get"
          /\ k.node = task[t].node /\ k.since = now
       \/ /\ k.pc = "set_state" /\ task[t].pc = "apply_heartbeat"
          /\ k.node = task[t].node
    /\ k.pc \in {"idle", "record_node"} /\ task[t].pc = "get"
          => state[task[t].node] = "absent"

Rows(t) ==
    \A m \in Nodes :
        /\ state'[m] = "offline" => state[m] = "offline"
        /\ state'[m] = "absent" <=> /\ state[m] = "absent"
                                   /\ ~(task[t].pc = "register" /\ task[t].node = m)
        /\ \/ beat'[m] = beat[m]
           \/ /\ task[t].pc = "apply_heartbeat" /\ task[t].node = m
              /\ state[m] # "absent"
        /\ task[t].pc = "apply_heartbeat" /\ task[t].node = m
              => beat'[m] \in task[t].since .. now

(* A step of a handler is one of its moves.                                *)
LEMMA StepMoves ==
    ASSUME TypeOK, TaskInv, NEW t \in Tasks, Step(t), task[t].pc # "list"
    PROVE  /\ \E k \in Task : Moves(t, k)
           /\ UNCHANGED <<sweep, now, faults>>
<1> DEFINE n == task[t].node
<1>0. task[t] \in Task /\ (task[t].pc # "record_node" => n \in Nodes)
  <2>1. task[t].pc # "idle"
    BY Zenon DEF Step, Register, HeartbeatGet, apply_heartbeat, set_state, set_draining,
           GetAgain, List, record_node
  <2> QED
    BY <2>1, SMTT(30) DEF TypeOK, TaskInv, TaskOK
<1>1. CASE Register(t) \/ set_state(t) \/ set_draining(t)
  <2>1. task' = [task EXCEPT ![t] = Rereads(n)] /\ UNCHANGED <<sweep, now, faults>>
        /\ task[t].pc \in {"register", "set_state", "set_draining"}
    BY <1>1, Zenon DEF Register, set_state, set_draining
  <2> QED
    BY <1>0, <2>1, IdleType, Zenon DEF Moves
<1>2. CASE HeartbeatGet(t)
  <2> DEFINE k == [task[t] EXCEPT !.pc = "apply_heartbeat", !.seen = state[n],
                                  !.max = max_connections[n], !.since = now]
  <2>1. /\ task[t].pc = "get" /\ UNCHANGED <<sweep, now, faults>>
        /\ task' = [task EXCEPT ![t] = IF state[n] = "absent" THEN Idle ELSE k]
    BY <1>2, Zenon DEF HeartbeatGet
  <2>2. k \in Task /\ k.pc = "apply_heartbeat" /\ k.node = n /\ k.since = now
    BY <1>0, <2>1, Zenon DEF Task, TaskPc, TypeOK
  <2> HIDE DEF k
  <2>3. CASE state[n] = "absent"
    BY <2>1, <2>3, IdleType, Zenon DEF Moves
  <2>4. CASE state[n] # "absent"
    BY <2>1, <2>2, <2>4, Zenon DEF Moves
  <2> QED
    BY <2>3, <2>4, Zenon
<1>3. CASE apply_heartbeat(t)
  <2> DEFINE k == [task[t] EXCEPT !.pc = "set_state", !.since = 0]
  <2>1. /\ task[t].pc = "apply_heartbeat" /\ UNCHANGED <<sweep, now, faults>>
        /\ \/ task' = [task EXCEPT ![t] = k]
           \/ task' = [task EXCEPT ![t] = Rereads(n)]
    BY <1>3, Zenon DEF apply_heartbeat
  <2>2. k \in Task /\ k.pc = "set_state" /\ k.node = n
    BY <1>0, Zenon DEF Task, TaskPc
  <2> HIDE DEF k
  <2> QED
    BY <1>0, <2>1, <2>2, IdleType, Zenon DEF Moves
<1>4. CASE GetAgain(t) \/ record_node(t)
  <2>1. PICK k \in Task : /\ task' = [task EXCEPT ![t] = k]
                         /\ k.pc \in {"idle", "record_node"}
    <3>1. CASE record_node(t)
      BY <3>1, IdleType, Zenon DEF record_node
    <3>2. CASE GetAgain(t)
      <4> DEFINE k == [Idle EXCEPT !.pc = "record_node",
                                   !.snap = [Nothing EXCEPT ![n] = state[n]]]
      <4>1. k \in Task /\ k.pc = "record_node"
        BY IdleType, ZenonT(30) DEF Task, TaskPc, TypeOK, Idle
      <4>2. \/ task' = [task EXCEPT ![t] = k]
            \/ task' = [task EXCEPT ![t] = Idle]
        BY <3>2, Zenon DEF GetAgain
      <4> QED
        BY <4>1, <4>2, IdleType, Zenon
    <3> QED
      BY <1>4, <3>1, <3>2, Zenon
  <2>2. /\ task[t].pc \in {"get_again", "record_node"}
        /\ UNCHANGED <<sweep, now, faults>>
    BY <1>4, Zenon DEF GetAgain, record_node
  <2> QED
    BY <2>1, <2>2, Zenon DEF Moves
<1> QED
  BY <1>1, <1>2, <1>3, <1>4, Zenon DEF Step, List

(* What a step of a handler does to the rows.                              *)
LEMMA StepRows ==
    ASSUME TypeOK, TaskInv, NEW t \in Tasks, Step(t), task[t].pc # "list"
    PROVE  Rows(t)
<1> DEFINE n == task[t].node
<1>0. task[t] \in Task
  BY Zenon DEF TypeOK
<1>1. CASE Register(t)
  <2>1. /\ task[t].pc = "register" /\ n \in Nodes /\ beat' = beat
        /\ \E s \in {"starting", state[n]} :
              /\ state[n] \in {"absent", "offline"} => s = "starting"
              /\ state' = [state EXCEPT ![n] = s]
    BY <1>1, Zenon DEF Register, TaskInv, TaskOK
  <2> QED
    BY <2>1, Zenon DEF Rows, TypeOK
<1>2. CASE apply_heartbeat(t)
  <2>1. PICK at \in task[t].since .. now : beat' = Updated(beat, n, at)
    BY <1>2, Zenon DEF apply_heartbeat
  <2>2. /\ task[t].pc = "apply_heartbeat" /\ state' = state
        /\ n \in Nodes /\ state[n] # "absent"
    BY <1>2, Zenon DEF apply_heartbeat, TaskInv, TaskOK
  <2>3. beat' = [beat EXCEPT ![n] = at]
    BY <2>1, <2>2, Zenon DEF Updated
  <2> QED
    BY <2>1, <2>2, <2>3, Zenon DEF Rows, TypeOK
<1>3. CASE set_state(t)
  <2>1. /\ task[t].pc = "set_state" /\ beat' = beat /\ n \in Nodes
        /\ state[n] # "absent" /\ NextState(task[t]) # task[t].seen
        /\ state' = [state EXCEPT ![n] = NextState(task[t])]
    BY <1>3, Zenon DEF set_state, TaskInv, TaskOK, Updated, history
  <2>2. NextState(task[t]) \in {"healthy", "degraded", "draining"}
    BY <2>1, Zenon DEF NextState, reclassify_after_heartbeat
  <2> QED
    BY <2>1, <2>2, Zenon DEF Rows, TypeOK
<1>4. CASE set_draining(t)
  <2>1. /\ task[t].pc = "set_draining" /\ beat' = beat /\ n \in Nodes
        /\ state' = Updated(state, n, "draining")
    BY <1>4, Zenon DEF set_draining, TaskInv, TaskOK
  <2> QED
    BY <2>1, Zenon DEF Rows, TypeOK, Updated
<1>5. CASE HeartbeatGet(t) \/ GetAgain(t) \/ record_node(t)
  <2>1. /\ task[t].pc \in {"get", "get_again", "record_node"}
        /\ UNCHANGED <<state, beat>>
    BY <1>5, Zenon DEF HeartbeatGet, GetAgain, record_node, table, history
  <2> QED
    BY <2>1, Zenon DEF Rows
<1> QED
  BY <1>1, <1>2, <1>3, <1>4, <1>5, Zenon DEF Step, List

-----------------------------------------------------------------------------
(* The handlers: each is about a node that has been started, only handler  *)
(* n handles heartbeats of n, and no time passes inside a handler.         *)
HandlerOK(t, k) ==
    /\ k.pc # "list"
    /\ k.pc \notin {"idle", "record_node"} => k.node \in Nodes /\ lives[k.node] # 0
    /\ k.pc \in {"get", "apply_heartbeat", "set_state"} => k.node = t
    /\ k.pc = "apply_heartbeat" => k.since = now

Handlers == \A t \in Tasks : HandlerOK(t, task[t])

(* A node that was never started has no row, one without a row no          *)
(* heartbeat, and the sweep's clock is not ahead.                          *)
Started ==
    /\ \A n \in Nodes : /\ lives[n] = 0 => /\ state[n] = "absent" /\ agent[n] # "up"
                                          /\ n \notin sweep.todo
                        /\ state[n] = "absent" => beat[n] = NoHeartbeat
    /\ sweep.at <= now /\ faults <= MaxFaults

(* An agent or an operator makes a request about a node.                   *)
Asks(t, n, pc) ==
    \E k \in Task :
        /\ task[t].pc = "idle" /\ task' = [task EXCEPT ![t] = k]
        /\ k.pc = pc /\ k.node = n
        /\ UNCHANGED <<table, sweep, now, faults, history>>

(* An agent that starts sends a registration.                              *)
LEMMA StartAsks ==
    ASSUME NEW n \in Nodes, AgentStarts(n)
    PROVE  \E t \in Tasks : (t \in Nodes => t = n) /\ Asks(t, n, "register")
<1>1. PICK t \in Tasks : (t \in Nodes => t = n) /\ register_node(t, n)
  BY Zenon DEF AgentStarts
<1>2. PICK m \in MaxConns \ {0} :
         Receive(t, [Idle EXCEPT !.pc = "register", !.node = n, !.max = m])
  BY <1>1, Zenon DEF register_node
<1> DEFINE k == [Idle EXCEPT !.pc = "register", !.node = n, !.max = m]
<1>3. k \in Task /\ k.pc = "register" /\ k.node = n
  BY IdleType, LoadAssumption, Zenon DEF Task, TaskPc, Idle
<1> HIDE DEF k
<1>4. Receive(t, k)
  BY <1>2, Zenon DEF k
<1> QED
  BY <1>1, <1>3, <1>4, Zenon DEF Receive, Asks

(* An agent that beats sends a heartbeat.                                  *)
LEMMA BeatAsks ==
    ASSUME NEW n \in Nodes, AgentBeats(n)
    PROVE  n \in Tasks /\ Asks(n, n, "get")
<1>1. PICK a \in ActiveCounts :
         Receive(n, [Idle EXCEPT !.pc = "get", !.node = n, !.active = a])
  BY Zenon DEF AgentBeats, heartbeat_node
<1> DEFINE k == [Idle EXCEPT !.pc = "get", !.node = n, !.active = a]
<1>2. k \in Task /\ k.pc = "get" /\ k.node = n
  BY IdleType, LoadAssumption, Zenon DEF Task, TaskPc, Idle
<1> HIDE DEF k
<1>3. Receive(n, k)
  BY <1>1, Zenon DEF k
<1> QED
  BY <1>2, <1>3, AgentsAssumption, ZenonT(30) DEF Receive, Asks

(* An operator that drains sends a drain.                                  *)
LEMMA DrainAsks ==
    ASSUME NEW n \in Nodes, OperatorDrains(n)
    PROVE  \E t \in Tasks \ Nodes : Asks(t, n, "set_draining")
<1>1. PICK t \in Tasks \ Nodes : drain_node(t, n)
  BY Zenon DEF OperatorDrains
<1> DEFINE k == [Idle EXCEPT !.pc = "set_draining", !.node = n]
<1>2. k \in Task /\ k.pc = "set_draining" /\ k.node = n
  BY IdleType, Zenon DEF Task, TaskPc, Idle
<1> HIDE DEF k
<1>3. Receive(t, k)
  BY <1>1, Zenon DEF drain_node, k
<1> QED
  BY <1>2, <1>3, Zenon DEF Receive, Asks

(* What the sweep, a failure and the clock do to handlers and rows.        *)
LEMMA BackgroundDigest ==
    ASSUME TypeOK, Sweeps \/ Fails \/ Waits
    PROVE  /\ \A t \in Tasks : task'[t] \in {task[t], Idle}
           /\ Waits => \A t \in Tasks : task[t].pc = "idle" /\ task'[t] = task[t]
           /\ ~Waits => now' = now /\ silence' = silence
           /\ beat' = beat /\ UNCHANGED <<agent, lives>>
           /\ \A n \in Nodes : \/ state'[n] = state[n]
                              \/ /\ state[n] # "absent" /\ state'[n] = "offline"
                                 /\ n \in sweep.todo
<1>1. CASE Waits
  BY <1>1, Zenon DEF Waits, Tick, table, history
<1>2. CASE Fails
  <2>1. ASSUME NEW t \in Tasks, Abort(t)
        PROVE  /\ \A u \in Tasks : task'[u] \in {task[u], Idle}
               /\ UNCHANGED <<state, beat, now>>
    BY <2>1, Zenon DEF Abort, table, history, TypeOK
  <2>2. ASSUME SweepFails \/ Restart
        PROVE  /\ \A u \in Tasks : task'[u] \in {task[u], Idle}
               /\ UNCHANGED <<state, beat, now>>
    BY <2>2, Zenon DEF SweepFails, Restart, table, history
  <2>3. now' = now /\ ~Waits
    BY <1>2, <2>1, <2>2 DEF Fails, Waits, Tick, TypeOK
  <2> QED
    BY <1>2, <2>1, <2>2, <2>3, Zenon DEF Fails
<1>3. CASE Sweeps
  <2>1. task' = task /\ now' = now /\ beat' = beat /\ UNCHANGED <<agent, lives, silence>>
    BY <1>3, Zenon DEF Sweeps, Sweep, SweepTick, SweepList, mark_offline, history
  <2>2. ~Waits
    BY <2>1 DEF Waits, Tick, TypeOK
  <2>3. ASSUME NEW m \in Nodes, mark_offline(m), NEW n \in Nodes
        PROVE  \/ state'[n] = state[n]
               \/ /\ state[n] # "absent" /\ state'[n] = "offline"
                  /\ n \in sweep.todo
    BY <2>3, Zenon DEF mark_offline, Updated, TypeOK
  <2>4. SweepTick \/ SweepList => state' = state
    BY Zenon DEF SweepTick, SweepList, table
  <2> QED
    BY <1>3, <2>1, <2>2, <2>3, <2>4, Zenon DEF Sweeps, Sweep
<1> QED
  BY <1>1, <1>2, <1>3, Zenon

(* What the sweep, a fault and time do to the sweep.                       *)
LEMMA SweepDigest ==
    ASSUME TypeOK, Sweeps \/ Fails \/ Waits
    PROVE  /\ sweep'.at \in {0, now, sweep.at}
           /\ \A n \in sweep'.todo : n \in sweep.todo \/ n \in Stale(sweep.at)
           /\ \/ faults' = faults /\ ~Fails
              \/ faults < MaxFaults /\ faults' = faults + 1
<1>1. /\ \A a : /\ [SweepIdle EXCEPT !.pc = "list", !.at = a].todo = {}
               /\ [SweepIdle EXCEPT !.pc = "list", !.at = a].at = a
      /\ \A S : /\ [SweepIdle EXCEPT !.pc = "mark", !.todo = S].todo = S
               /\ [SweepIdle EXCEPT !.pc = "mark", !.todo = S].at = 0
      /\ SweepIdle.at = 0 /\ SweepIdle.todo = {}
  BY Zenon DEF SweepIdle
<1>2. CASE Fails
  BY <1>1, <1>2, Zenon DEF Fails, Abort, SweepFails, Restart
<1>3. CASE Waits
  <2>1. sweep' = sweep /\ faults' = faults /\ now' = now + 1
    BY <1>3, Zenon DEF Waits, Tick
  <2>2. ~Fails
    BY <2>1, SMTT(30) DEF Fails, Abort, SweepFails, Restart, TypeOK
  <2> QED
    BY <2>1, <2>2, Zenon
<1>4. CASE Sweeps
  <2>1. faults' = faults
    BY <1>4, Zenon DEF Sweeps, Sweep, SweepTick, SweepList, mark_offline
  <2>2. ~Fails
    BY <2>1 DEF Fails, Abort, SweepFails, Restart, TypeOK
  <2>3. CASE SweepTick
    BY <1>1, <2>1, <2>2, <2>3, Zenon DEF SweepTick
  <2>4. CASE SweepList
    BY <1>1, <2>1, <2>2, <2>4, Zenon DEF SweepList
  <2>5. ASSUME NEW m \in Nodes, mark_offline(m)
        PROVE  /\ sweep'.at \in {0, now, sweep.at}
               /\ \A n \in sweep'.todo : n \in sweep.todo
    BY <1>1, <2>5, Zenon DEF mark_offline, TypeOK
  <2> QED
    BY <1>4, <2>1, <2>2, <2>3, <2>4, <2>5, Zenon DEF Sweeps, Sweep
<1> QED
  BY <1>2, <1>3, <1>4, Zenon

(* A step of one handler keeps what is known of the others.                *)
LEMMA HandlersKept ==
    ASSUME TypeOK, Handlers, NEW t \in Tasks, NEW k, task' = [task EXCEPT ![t] = k],
           now' = now, \A n \in Nodes : lives[n] # 0 => lives'[n] # 0,
           HandlerOK(t, k)'
    PROVE  Handlers'
<1> SUFFICES ASSUME NEW u \in Tasks PROVE HandlerOK(u, task[u])'
  BY Zenon DEF Handlers
<1>1. CASE u = t
  BY <1>1, Zenon DEF TypeOK
<1>2. CASE u # t
  <2>1. task'[u] = task[u] /\ HandlerOK(u, task[u])
    BY <1>2, Zenon DEF TypeOK, Handlers
  <2> QED
    BY <2>1, Zenon DEF HandlerOK
<1> QED
  BY <1>1, <1>2, Zenon

(* Every step keeps what is known of the handlers.                         *)
LEMMA HandlersStep ==
    ASSUME TypeOK, TaskInv, AgentType, Started, Handlers, [CNext]_cvars
    PROVE  Handlers'
<1>1. ASSUME NEW n \in Nodes, AgentStarts(n) PROVE Handlers'
  <2>1. PICK t \in Tasks : Asks(t, n, "register")
    BY <1>1, StartAsks, Zenon
  <2>2. PICK k \in Task : /\ task' = [task EXCEPT ![t] = k] /\ now' = now
                         /\ k.pc = "register" /\ k.node = n
    BY <2>1, Zenon DEF Asks
  <2>3. lives'[n] # 0 /\ \A m \in Nodes : lives[m] # 0 => lives'[m] # 0
    BY <1>1 DEF AgentStarts, AgentType
  <2>4. HandlerOK(t, k)'
    BY <2>2, <2>3, Zenon DEF HandlerOK
  <2> QED
    BY <2>2, <2>3, <2>4, HandlersKept, Zenon
<1>2. ASSUME NEW n \in Nodes, AgentBeats(n) PROVE Handlers'
  <2>1. n \in Tasks /\ Asks(n, n, "get")
    BY <1>2, BeatAsks, Zenon
  <2>2. PICK k \in Task : /\ task' = [task EXCEPT ![n] = k] /\ now' = now
                         /\ k.pc = "get" /\ k.node = n
    BY <2>1, Zenon DEF Asks
  <2>3. lives' = lives /\ lives[n] # 0
    BY <1>2, Zenon DEF AgentBeats, Started
  <2>4. HandlerOK(n, k)'
    BY <2>2, <2>3, Zenon DEF HandlerOK
  <2> QED
    BY <2>1, <2>2, <2>3, <2>4, HandlersKept, Zenon
<1>3. ASSUME NEW n \in Nodes, OperatorDrains(n) PROVE Handlers'
  <2>1. PICK t \in Tasks \ Nodes : Asks(t, n, "set_draining")
    BY <1>3, DrainAsks, Zenon
  <2>2. PICK k \in Task : /\ task' = [task EXCEPT ![t] = k] /\ now' = now
                         /\ k.pc = "set_draining" /\ k.node = n
    BY <2>1, Zenon DEF Asks
  <2>3. lives' = lives /\ lives[n] # 0
    BY <1>3, Zenon DEF OperatorDrains, Started
  <2>4. HandlerOK(t, k)'
    BY <2>2, <2>3, Zenon DEF HandlerOK
  <2> QED
    BY <2>2, <2>3, <2>4, HandlersKept, Zenon
<1>4. ASSUME NEW t \in Tasks, Serves(t) PROVE Handlers'
  <2>1. HandlerOK(t, task[t])
    BY Zenon DEF Handlers
  <2>2. PICK k \in Task : Moves(t, k)
    BY <1>4, <2>1, StepMoves, Zenon DEF Serves, HandlerOK
  <2>3. now' = now /\ lives' = lives
    BY <1>4, <2>1, StepMoves, Zenon DEF Serves, HandlerOK
  <2>4. HandlerOK(t, k)'
    BY <2>1, <2>2, <2>3, Zenon DEF HandlerOK, Moves
  <2>5. task' = [task EXCEPT ![t] = k]
    BY <2>2, Zenon DEF Moves
  <2> QED
    BY <2>3, <2>4, <2>5, HandlersKept, Zenon
<1>5. CASE Sweeps \/ Fails \/ Waits
  <2> SUFFICES ASSUME NEW t \in Tasks PROVE HandlerOK(t, task[t])'
    BY Zenon DEF Handlers
  <2>1. lives' = lives /\ task'[t] \in {task[t], Idle} /\ HandlerOK(t, task[t])
    BY <1>5, BackgroundDigest, Zenon DEF Handlers
  <2>2. CASE Waits
    BY <2>1, <2>2, <1>5, BackgroundDigest, Zenon DEF HandlerOK
  <2>3. CASE ~Waits
    BY <2>1, <2>3, <1>5, BackgroundDigest, IdleType, Zenon DEF HandlerOK
  <2> QED
    BY <2>2, <2>3, Zenon
<1>6. ASSUME UNCHANGED <<task, now, lives>> PROVE Handlers'
  BY <1>6, Zenon DEF Handlers, HandlerOK
<1> QED
  BY <1>1, <1>2, <1>3, <1>4, <1>5, <1>6, Zenon DEF CNext, AgentDies, cvars, vars

(* Every step keeps what is known of agents that have started.             *)
LEMMA StartedStep ==
    ASSUME TypeOK, TaskInv, AgentType, Started, Handlers, [CNext]_cvars
    PROVE  Started'
<1>1. ASSUME NEW n \in Nodes, AgentStarts(n) PROVE Started'
  <2>1. PICK t \in Tasks : Asks(t, n, "register")
    BY <1>1, StartAsks, Zenon
  <2>2. UNCHANGED <<state, beat, sweep, now, faults>>
    BY <2>1, Zenon DEF Asks, table, history
  <2>3. \A m \in Nodes : lives'[m] = 0 => lives[m] = 0 /\ agent'[m] = agent[m]
    BY <1>1 DEF AgentStarts, AgentType
  <2> QED
    BY <2>2, <2>3, Zenon DEF Started
<1>2. ASSUME NEW n \in Nodes, AgentBeats(n) \/ OperatorDrains(n) \/ AgentDies(n)
      PROVE  Started'
  <2>1. UNCHANGED <<state, beat, sweep, now, faults>>
    BY <1>2, BeatAsks, DrainAsks, Zenon DEF Asks, AgentDies, vars, table, history
  <2>2. lives' = lives /\ \A m \in Nodes : agent'[m] # "up" \/ agent'[m] = agent[m]
    BY <1>2, SMTT(30) DEF AgentBeats, OperatorDrains, AgentDies, AgentType
  <2> QED
    BY <2>1, <2>2, Zenon DEF Started
<1>3. ASSUME NEW t \in Tasks, Serves(t) PROVE Started'
  <2>1. HandlerOK(t, task[t])
    BY Zenon DEF Handlers
  <2>2. UNCHANGED <<sweep, now, faults, agent, lives>> /\ Rows(t)
    BY <1>3, <2>1, StepMoves, StepRows, Zenon DEF Serves, HandlerOK
  <2> QED
    BY <2>1, <2>2, Zenon DEF Started, Rows, HandlerOK
<1>4. CASE Sweeps \/ Fails \/ Waits
  <2>1. sweep'.at <= now' /\ faults' <= MaxFaults
    <3>1. now' = now \/ now' = now + 1
      BY <1>4, BackgroundDigest, SMTT(30) DEF Waits, Tick
    <3>2. sweep'.at \in {0, now, sweep.at} /\ now \in Nat /\ sweep.at \in Nat
      BY <1>4, SweepDigest, Zenon DEF TypeOK
    <3>3. faults' <= MaxFaults
      BY <1>4, SweepDigest, BoundAssumption, SMTT(30) DEF Started, TypeOK
    <3> QED
      BY <3>1, <3>2, <3>3 DEF Started
  <2>2. ASSUME NEW n \in Nodes, lives'[n] = 0
        PROVE  state'[n] = "absent" /\ agent'[n] # "up" /\ n \notin sweep'.todo
    <3>1. /\ lives[n] = 0 /\ agent'[n] = agent[n] /\ state[n] = "absent"
          /\ agent[n] # "up" /\ n \notin sweep.todo
      BY <1>4, <2>2, BackgroundDigest, Zenon DEF Started
    <3>2. n \notin Stale(sweep.at)
      BY <3>1, Zenon DEF Stale, is_live
    <3> QED
      BY <1>4, <3>1, <3>2, BackgroundDigest, SweepDigest, Zenon
  <2>3. ASSUME NEW n \in Nodes, state'[n] = "absent" PROVE beat'[n] = NoHeartbeat
    BY <1>4, <2>3, BackgroundDigest, Zenon DEF Started
  <2> QED
    BY <2>1, <2>2, <2>3, Zenon DEF Started
<1>5. CASE UNCHANGED cvars
  BY <1>5, Zenon DEF cvars, vars, table, history, Started
<1> QED
  BY <1>1, <1>2, <1>3, <1>4, <1>5, SMTT(30) DEF CNext

-----------------------------------------------------------------------------
(* How old the last heartbeat of an agent in its first life may be: the    *)
(* agent's own silence, and an interval for each call that was lost or is  *)
(* still on its way.                                                       *)
First(n) == agent[n] = "up" /\ lives[n] = 1
Early(n) == task[n].pc \in {"get", "apply_heartbeat"}
Lost(f) == f * HeartbeatInterval
Age(n) == IF Early(n) THEN Lost(faults + 1) ELSE silence[n] + Lost(faults)

Fresh ==
    \A n \in Nodes : First(n) =>
        /\ n \notin sweep.todo /\ state[n] # "offline"
        /\ beat[n] # NoHeartbeat => now - beat[n] <= Age(n)

(* The time that lost heartbeats cost, and that the timeout covers it.     *)
LEMMA LostGrows ==
    /\ \A f \in Nat : /\ Lost(f) \in Nat
                      /\ Lost(f + 1) = Lost(f) + HeartbeatInterval
                      /\ f <= MaxFaults => Lost(f) <= Lost(MaxFaults)
    /\ Lost(MaxFaults + 1) + Second <= OfflineTimeout
<1> USE ConfigAssumption, BoundAssumption
<1>1. \A f \in Nat : Lost(f) \in Nat /\ Lost(f + 1) = Lost(f) + HeartbeatInterval
  BY DEF Lost
<1>2. ASSUME NEW f \in Nat, f <= MaxFaults PROVE Lost(f) <= Lost(MaxFaults)
  BY <1>2 DEF Lost
<1> QED
  BY <1>1, <1>2, Zenon DEF Lost

(* Fresh means not stale.                                                  *)
LEMMA FreshIsNotStale ==
    ASSUME TypeOK, AgentType, Stamped, Started, Fresh, NEW n \in Nodes, First(n)
    PROVE  n \notin Stale(sweep.at)
<1> SUFFICES ASSUME n \in Stale(sweep.at) PROVE FALSE
  OBVIOUS
<1>1. sweep.at \in Nat /\ now \in Nat /\ faults \in Nat /\ silence[n] \in Nat
      /\ silence[n] <= HeartbeatInterval
  BY ConfigAssumption, SMTT(30) DEF TypeOK, AgentType
<1>2. beat[n] # NoHeartbeat /\ sweep.at - beat[n] > OfflineTimeout - Second
  BY <1>1, StaleIsSilent, Zenon
<1>3. beat[n] \in Nat
  BY <1>2, Zenon DEF TypeOK
<1>4. now - beat[n] <= Age(n) /\ sweep.at <= now /\ faults <= MaxFaults
  BY <1>2, Zenon DEF Fresh, Started
<1>5. Age(n) \in Nat /\ Age(n) <= Lost(faults) + HeartbeatInterval
  BY <1>1, LostGrows, ConfigAssumption, SMTT(30) DEF Age
<1>6. Lost(faults) + HeartbeatInterval <= OfflineTimeout - Second
  <2>1. Lost(faults) <= Lost(MaxFaults) /\ Lost(faults) \in Nat
    BY <1>1, <1>4, LostGrows, Zenon
  <2>2. Lost(MaxFaults) + HeartbeatInterval + Second <= OfflineTimeout
        /\ Lost(MaxFaults) \in Nat
    BY LostGrows, BoundAssumption, Zenon
  <2> QED
    BY <2>1, <2>2, ConfigAssumption, TimeAssumption
<1> QED
  BY <1>1, <1>2, <1>3, <1>4, <1>5, <1>6, TimeAssumption, LostGrows, ConfigAssumption

(* A request leaves the other agents alone.                                *)
LEMMA FreshOthers ==
    ASSUME TypeOK, Fresh, NEW t \in Tasks, NEW m \in Nodes, NEW pc, Asks(t, m, pc),
           NEW n \in Nodes, n # t, First(n), silence'[n] = silence[n]
    PROVE  /\ n \notin sweep'.todo /\ state'[n] # "offline"
           /\ beat'[n] # NoHeartbeat => now' - beat'[n] <= Age(n)'
<1>1. UNCHANGED <<state, beat, sweep, now, faults>> /\ task'[n] = task[n]
  BY AgentsAssumption, SMTT(30) DEF Asks, table, history, TypeOK
<1>2. Age(n)' = Age(n)
  BY <1>1, SMTT(30) DEF Age, Early
<1> QED
  BY <1>1, <1>2, SMTT(30) DEF Fresh

(* Agents and operators keep first lives fresh.                            *)
LEMMA FreshAgents ==
    ASSUME TypeOK, AgentType, Started, Fresh, NEW m \in Nodes,
           AgentStarts(m) \/ AgentBeats(m) \/ OperatorDrains(m) \/ AgentDies(m)
    PROVE  Fresh'
<1> SUFFICES ASSUME NEW n \in Nodes, First(n)'
             PROVE  /\ n \notin sweep'.todo /\ state'[n] # "offline"
                    /\ beat'[n] # NoHeartbeat => now' - beat'[n] <= Age(n)'
  BY SMTT(30) DEF Fresh
<1>1. CASE AgentStarts(m)
  <2>1. PICK t \in Tasks : (t \in Nodes => t = m) /\ Asks(t, m, "register")
    BY <1>1, StartAsks, Zenon
  <2>2. CASE n = m
    <3>1. lives[n] = 0
      BY <1>1, <2>2 DEF AgentStarts, First, AgentType
    <3>2. UNCHANGED <<state, beat, sweep>>
      BY <2>1, SMTT(30) DEF Asks, table, history
    <3> QED
      BY <3>1, <3>2, Zenon DEF Started
  <2>3. CASE n # m
    <3>1. n # t /\ First(n) /\ silence'[n] = silence[n]
      BY <1>1, <2>1, <2>3, SMTT(30) DEF AgentStarts, First, AgentType
    <3> QED
      BY <2>1, <3>1, FreshOthers, Zenon
  <2> QED
    BY <2>2, <2>3, Zenon
<1>2. CASE AgentBeats(m)
  <2>1. m \in Tasks /\ Asks(m, m, "get") /\ First(n)
    BY <1>2, BeatAsks, ZenonT(30) DEF AgentBeats, First
  <2>2. CASE n = m
    <3>1. /\ task[n].pc = "idle" /\ task'[n].pc = "get"
          /\ UNCHANGED <<state, beat, sweep, now, faults>>
      BY <2>1, <2>2, Zenon DEF Asks, table, history, TypeOK
    <3>2. Age(n) = silence[n] + Lost(faults) /\ Age(n)' = Lost(faults + 1)
      BY <3>1, Zenon DEF Age, Early, Lost
    <3>3. Age(n) <= Age(n)'
      <4>1. silence[n] \in Nat /\ silence[n] <= HeartbeatInterval /\ faults \in Nat
        BY ConfigAssumption DEF AgentType, TypeOK
      <4> QED
        BY <3>2, <4>1, LostGrows, ConfigAssumption
    <3>4. beat[n] # NoHeartbeat => now - beat[n] <= Age(n) /\ now - beat[n] \in Int
      BY <2>1 DEF Fresh, TypeOK
    <3>5. Age(n) \in Int /\ Age(n)' \in Int
      BY <3>2, LostGrows, ConfigAssumption, SMTT(30) DEF TypeOK, AgentType
    <3> QED
      BY <2>1, <3>1, <3>3, <3>4, <3>5 DEF Fresh
  <2>3. CASE n # m
    <3>1. silence'[n] = silence[n]
      BY <1>2, <2>3, Zenon DEF AgentBeats, AgentType
    <3> QED
      BY <2>1, <2>3, <3>1, FreshOthers, Zenon
  <2> QED
    BY <2>2, <2>3, Zenon
<1>3. CASE OperatorDrains(m)
  <2>1. PICK t \in Tasks \ Nodes : Asks(t, m, "set_draining")
    BY <1>3, DrainAsks, Zenon
  <2>2. First(n) /\ silence'[n] = silence[n] /\ n # t
    BY <1>3, <2>1, Zenon DEF OperatorDrains, First
  <2> QED
    BY <2>1, <2>2, FreshOthers, Zenon
<1>4. CASE AgentDies(m)
  <2>1. First(n) /\ UNCHANGED <<vars, silence>>
    BY <1>4, Zenon DEF AgentDies, First, AgentType
  <2> QED
    BY <2>1, Zenon DEF vars, table, history, Fresh, Age, Early
<1> QED
  BY <1>1, <1>2, <1>3, <1>4, Zenon

(* Handlers keep first lives fresh.                                        *)
LEMMA FreshServes ==
    ASSUME TypeOK, TaskInv, AgentType, Started, Handlers, Fresh,
           NEW t \in Tasks, Serves(t)
    PROVE  Fresh'
<1> SUFFICES ASSUME NEW n \in Nodes, First(n)'
             PROVE  /\ n \notin sweep'.todo /\ state'[n] # "offline"
                    /\ beat'[n] # NoHeartbeat => now' - beat'[n] <= Age(n)'
  BY Zenon DEF Fresh
<1>1. HandlerOK(t, task[t])
  BY Zenon DEF Handlers
<1>2. PICK k \in Task : Moves(t, k)
  BY <1>1, StepMoves, Zenon DEF Serves, HandlerOK
<1>3. UNCHANGED <<sweep, now, faults, agent, lives, silence>> /\ Rows(t)
  BY <1>1, StepMoves, StepRows, SMTT(30) DEF Serves, HandlerOK
<1>4. /\ First(n) /\ n \notin sweep'.todo /\ state'[n] # "offline"
      /\ beat[n] # NoHeartbeat => now - beat[n] <= Age(n)
  BY <1>3, SMTT(30) DEF Fresh, First, Rows
<1>5. now' = now /\ faults' = faults /\ silence' = silence
  BY <1>3, Zenon
<1>6. ASSUME beat'[n] = beat[n], Age(n)' = Age(n)
      PROVE  beat'[n] # NoHeartbeat => now' - beat'[n] <= Age(n)'
  BY <1>4, <1>5, <1>6, Zenon
<1>7. ASSUME Early(n)' <=> Early(n) PROVE Age(n)' = Age(n)
  <2>1. CASE Early(n)
    BY <1>5, <1>7, <2>1, Zenon DEF Age, Lost
  <2>2. CASE ~Early(n)
    BY <1>5, <1>7, <2>2, Zenon DEF Age, Lost
  <2> QED
    BY <2>1, <2>2, Zenon
<1>8. CASE n # t
  <2>1. beat'[n] = beat[n] /\ task'[n] = task[n]
    BY <1>1, <1>2, <1>3, <1>8, AgentsAssumption, SMTT(30)
    DEF Rows, HandlerOK, Moves, TypeOK
  <2>2. Early(n)' <=> Early(n)
    BY <2>1, Zenon DEF Early
  <2> QED
    BY <1>4, <1>6, <1>7, <2>1, <2>2, Zenon
<1>9. CASE n = t /\ task[n].pc = "apply_heartbeat"
  <2>1. beat'[n] \in now .. now
    BY <1>1, <1>3, <1>9, Zenon DEF Rows, HandlerOK
  <2>2. now' - beat'[n] = 0
    BY <1>5, <2>1 DEF TypeOK
  <2>3. Age(n)' \in Nat
    <3>1. faults \in Nat /\ silence[n] \in Nat
      BY ConfigAssumption DEF TypeOK, AgentType
    <3>2. Lost(faults) \in Nat /\ Lost(faults + 1) \in Nat
      BY <3>1, LostGrows
    <3>3. Age(n)' = Lost(faults + 1) \/ Age(n)' = silence[n] + Lost(faults)
      BY <1>5, Zenon DEF Age, Lost
    <3> QED
      BY <3>1, <3>2, <3>3
  <2>4. now' - beat'[n] <= Age(n)'
    BY <2>2, <2>3
  <2> QED
    BY <1>4, <2>4, Zenon
<1>10. CASE n = t /\ task[n].pc = "get"
  <2>1. beat'[n] = beat[n] /\ task[n].node = n /\ task'[n] = k
    BY <1>1, <1>2, <1>3, <1>10, SMTT(30) DEF Rows, HandlerOK, Moves, TypeOK
  <2>2. CASE state[n] = "absent"
    BY <1>4, <2>1, <2>2, ZenonT(30) DEF Started
  <2>3. CASE state[n] # "absent"
    <3>1. Early(n) /\ Early(n)'
      BY <1>2, <1>10, <2>1, <2>3, Zenon DEF Moves, Early
    <3> QED
      BY <1>4, <1>6, <1>7, <2>1, <3>1, Zenon
  <2> QED
    BY <2>2, <2>3, Zenon
<1>11. CASE n = t /\ task[n].pc \notin {"get", "apply_heartbeat"}
  <2>1. beat'[n] = beat[n] /\ task'[n] = k
    BY <1>2, <1>3, <1>11, SMTT(30) DEF Rows, Moves, TypeOK
  <2>2. ~Early(n) /\ ~Early(n)'
    BY <1>2, <1>11, <2>1, Zenon DEF Moves, Early
  <2> QED
    BY <1>4, <1>6, <1>7, <2>1, <2>2, Zenon
<1> QED
  BY <1>8, <1>9, <1>10, <1>11, Zenon

(* The sweep, faults and time keep first lives fresh.                      *)
LEMMA FreshBackground ==
    ASSUME TypeOK, AgentType, Stamped, Started, Fresh, Sweeps \/ Fails \/ Waits
    PROVE  Fresh'
<1> SUFFICES ASSUME NEW n \in Nodes, First(n)'
             PROVE  /\ n \notin sweep'.todo /\ state'[n] # "offline"
                    /\ beat'[n] # NoHeartbeat => now' - beat'[n] <= Age(n)'
  BY Zenon DEF Fresh
<1>1. First(n) /\ beat' = beat
  BY BackgroundDigest, Zenon DEF First
<1>2. /\ n \notin sweep.todo /\ state[n] # "offline"
      /\ beat[n] # NoHeartbeat => now - beat[n] <= Age(n)
  BY <1>1, SMTT(30) DEF Fresh
<1>3. n \notin sweep'.todo /\ state'[n] # "offline"
  BY <1>1, <1>2, FreshIsNotStale, SweepDigest, BackgroundDigest, SMTT(30)
<1>4. /\ now \in Nat /\ beat[n] \in Int /\ silence[n] \in Nat /\ faults \in Nat
      /\ Lost(faults) \in Nat /\ Lost(faults + 1) = Lost(faults) + HeartbeatInterval
      /\ Lost(faults + 2) = Lost(faults + 1) + HeartbeatInterval
      /\ HeartbeatInterval \in Nat
  <2>1. faults \in Nat /\ beat[n] \in Int /\ silence[n] \in Nat /\ now \in Nat
    BY ConfigAssumption DEF TypeOK, AgentType, NoHeartbeat
  <2>2. Lost((faults + 1) + 1) = Lost(faults + 1) + HeartbeatInterval
    BY <2>1, LostGrows, SMTT(30)
  <2>3. (faults + 1) + 1 = faults + 2
    BY <2>1, SMTT(30)
  <2> QED
    BY <2>1, <2>2, <2>3, LostGrows, ConfigAssumption, SMTT(30)
<1>5. CASE Waits
  <2>1. /\ task[n].pc = "idle" /\ task'[n].pc = "idle" /\ faults' = faults
        /\ now' = now + 1 /\ silence'[n] = silence[n] + 1
    BY <1>1, <1>5, AgentsAssumption, SMTT(30) DEF Waits, Tick, First
  <2>2. Age(n) = silence[n] + Lost(faults) /\ Age(n)' = silence[n] + 1 + Lost(faults)
    BY <2>1, SMTT(30) DEF Age, Early, Lost
  <2> QED
    BY <1>1, <1>2, <1>3, <1>4, <2>1, <2>2, SMTT(30)
<1>6. CASE Fails
  <2>1. faults' = faults + 1 /\ now' = now /\ silence' = silence
    BY <1>6, Zenon DEF Fails, Abort, SweepFails, Restart
  <2>2. Age(n)' = IF Early(n)' THEN Lost(faults + 2) ELSE silence[n] + Lost(faults + 1)
    <3>1. faults' + 1 = faults + 2
      BY <1>4, <2>1, SMTT(30)
    <3> QED
      BY <2>1, <3>1, Zenon DEF Age, Lost
  <2>3. Age(n) <= Age(n)' /\ Age(n) \in Int /\ Age(n)' \in Int
    <3>1. Early(n)' => Early(n)
      BY <1>6, BackgroundDigest, IdleType, AgentsAssumption, Zenon DEF Early
    <3>2. Age(n) = IF Early(n) THEN Lost(faults + 1) ELSE silence[n] + Lost(faults)
      BY Zenon DEF Age
    <3>3. CASE Early(n)'
      BY <1>4, <2>2, <3>1, <3>2, <3>3, SMTT(30)
    <3>4. CASE ~Early(n)' /\ Early(n)
      BY <1>4, <2>2, <3>2, <3>4, SMTT(30)
    <3>5. CASE ~Early(n)' /\ ~Early(n)
      BY <1>4, <2>2, <3>2, <3>5, SMTT(30)
    <3> QED
      BY <3>3, <3>4, <3>5, Zenon
  <2> QED
    BY <1>1, <1>2, <1>3, <1>4, <2>1, <2>3, SMTT(30)
<1>7. CASE Sweeps
  <2>1. UNCHANGED <<task, now, faults, silence>>
    BY <1>7, Zenon DEF Sweeps, Sweep, SweepTick, SweepList, mark_offline
  <2>2. Age(n)' = Age(n)
    BY <2>1, Zenon DEF Age, Early, Lost
  <2> QED
    BY <1>1, <1>2, <1>3, <2>1, <2>2, Zenon
<1> QED
  BY <1>5, <1>6, <1>7, Zenon

(* With a timeout that allows for MaxFaults lost calls and the second lost *)
(* to whole-second time stamps, the sweep never takes an agent in its      *)
(* first life out of service, however handlers, sweeps and failures        *)
(* interleave (heartbeat_loop against mark_stale_offline).                 *)
THEOREM NeverFalselyOffline == ClusterSpec => []NoFalseOffline
<1> DEFINE Base == TypeOK /\ TaskInv /\ Stamped
           CInv == AgentType /\ Started /\ Handlers /\ Fresh
<1>1. CInit => Base
  BY InitType, Zenon DEF CInit, Init, Stamped
<1>2. Base /\ [CNext]_cvars => Base'
  BY ClusterStep, NextType, StampedStep, Zenon
<1>3. CInit => CInv
  <2> SUFFICES ASSUME CInit PROVE CInv
    OBVIOUS
  <2>1. AgentType /\ Fresh
    BY ConfigAssumption DEF CInit, AgentType, Fresh, First
  <2>2. Handlers
    BY IdleType, Zenon DEF CInit, Init, Handlers, HandlerOK
  <2>3. Started
    BY BoundAssumption DEF CInit, Init, Started, Nothing, SweepIdle
  <2> QED
    BY <2>1, <2>2, <2>3, Zenon
<1>4. Base /\ CInv /\ [CNext]_cvars => CInv'
  <2> SUFFICES ASSUME Base, CInv, [CNext]_cvars PROVE CInv'
    BY Zenon
  <2>1. TypeOK /\ TaskInv /\ Stamped /\ AgentType /\ Started /\ Handlers /\ Fresh
    BY Zenon
  <2>2. AgentType' /\ Started' /\ Handlers'
    BY <2>1, AgentTypeStep, StartedStep, HandlersStep, Zenon
  <2>3. CASE UNCHANGED cvars
    <3>1. Fresh'
      BY <2>1, <2>3, Zenon DEF cvars, vars, table, history, Fresh, First, Age, Early
    <3> QED
      BY <2>2, <3>1, ZenonT(30)
  <2>4. CASE CNext
    <3>1. Fresh'
      BY <2>1, <2>4, FreshAgents, FreshServes, FreshBackground, ZenonT(30) DEF CNext
    <3> QED
      BY <2>2, <3>1, Zenon
  <2> QED
    BY <2>3, <2>4, Zenon
<1>5. CInv => NoFalseOffline
  BY Zenon DEF NoFalseOffline, Fresh, First
<1> QED
  BY <1>1, <1>2, <1>3, <1>4, <1>5, PTL DEF ClusterSpec
=============================================================================
