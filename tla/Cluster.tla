------------------------------- MODULE Cluster -------------------------------
(***************************************************************************)
(* Node agents and the control plane together.  Each agent registers once  *)
(* and then sends a heartbeat every interval (node/src/server.rs); it may  *)
(* die and be started again.  The control plane is module ControlPlane,    *)
(* with its handlers interleaved.                                          *)
(*                                                                         *)
(* An agent waits for the answer to one call before it makes the next, so  *)
(* handler n serves agent n.  A call that a dead agent left behind keeps   *)
(* its handler, so the others may serve the agent's next life; they also   *)
(* serve operators.  A tick is long against a request: no tick passes      *)
(* while a handler runs.                                                   *)
(***************************************************************************)
EXTENDS ControlPlane

CONSTANTS
    HeartbeatInterval,   \* NodeConfig::heartbeat_interval, in ticks
    MaxLives             \* bound: starts of one agent

ASSUME AgentsAssumption == Nodes \subseteq Tasks

(* The configuration tolerates MaxFaults lost heartbeats in a row, and the *)
(* second that a stored time stamp loses.                                  *)
ASSUME ConfigAssumption ==
    /\ HeartbeatInterval \in Nat \ {0} /\ MaxLives \in Nat
    /\ (MaxFaults + 1) * HeartbeatInterval + Second <= OfflineTimeout

VARIABLES
    agent,    \* whether each agent is new, up or dead
    lives,    \* how often it was started
    silence   \* ticks since its last call

cvars == <<vars, agent, lives, silence>>

CInit ==
    /\ Init
    /\ agent = [n \in Nodes |-> "new"]
    /\ lives = [n \in Nodes |-> 0]
    /\ silence = [n \in Nodes |-> 0]

(* NodeServer::run: the one registration of a life.                        *)
AgentStarts(n) ==
    /\ agent[n] # "up" /\ lives[n] < MaxLives
    /\ \E t \in Tasks : (t \in Nodes => t = n) /\ register_node(t, n)
    /\ agent' = [agent EXCEPT ![n] = "up"]
    /\ lives' = [lives EXCEPT ![n] = @ + 1]
    /\ silence' = [silence EXCEPT ![n] = 0]

(* heartbeat_loop: the first heartbeat comes an interval after the start.  *)
AgentBeats(n) ==
    /\ agent[n] = "up" /\ silence[n] > 0
    /\ heartbeat_node(n, n)
    /\ silence' = [silence EXCEPT ![n] = 0]
    /\ UNCHANGED <<agent, lives>>

(* The agent is killed, or the network cuts it off.                        *)
AgentDies(n) ==
    /\ agent[n] = "up"
    /\ agent' = [agent EXCEPT ![n] = "dead"]
    /\ UNCHANGED <<vars, lives, silence>>

(* Bound: an operator drains a node that is there and not draining yet.    *)
OperatorDrains(n) ==
    /\ state[n] \notin {"absent", "draining"}
    /\ \E t \in Tasks \ Nodes : drain_node(t, n)
    /\ UNCHANGED <<agent, lives, silence>>

(* Mutant of Waits: the interval timer never fires.                        *)
WaitsForEver ==
    /\ Tick
    /\ \A t \in Tasks : task[t].pc = "idle"
    /\ silence' = [n \in Nodes |-> IF agent[n] = "up" THEN silence[n] + 1
                                   ELSE silence[n]]
    /\ UNCHANGED <<agent, lives>>

(* Time passes, but no agent sleeps through its interval.                  *)
Waits ==
    /\ Tick
    /\ \A t \in Tasks : task[t].pc = "idle"
    /\ \A n \in Nodes : agent[n] = "up" => silence[n] < HeartbeatInterval
    /\ silence' = [n \in Nodes |-> IF agent[n] = "up" THEN silence[n] + 1
                                   ELSE silence[n]]
    /\ UNCHANGED <<agent, lives>>

Serves(t) == Step(t) /\ UNCHANGED <<agent, lives, silence>>
Sweeps == Sweep /\ UNCHANGED <<agent, lives, silence>>

Fails ==
    /\ (\E t \in Tasks : Abort(t)) \/ SweepFails \/ Restart
    /\ UNCHANGED <<agent, lives, silence>>

CNext ==
    \/ \E n \in Nodes : \/ AgentStarts(n) \/ AgentBeats(n) \/ AgentDies(n)
                        \/ OperatorDrains(n)
    \/ \E t \in Tasks : Serves(t)
    \/ Waits \/ Sweeps \/ Fails

ClusterSpec == CInit /\ [][CNext]_cvars

(* Time passes, handlers run to their end, the sweep comes round again     *)
(* (tokio::time::interval) and a live agent keeps beating.  Nobody has to  *)
(* start, die, drain or fail.                                              *)
ClusterFairSpec ==
    /\ ClusterSpec
    /\ WF_cvars(Waits) /\ WF_cvars(Sweeps)
    /\ \A t \in Tasks : WF_cvars(Serves(t))
    /\ \A n \in Nodes : WF_cvars(AgentBeats(n))

-----------------------------------------------------------------------------
(* No agent is ever silent for longer than its interval.                   *)
ClusterTypeOK ==
    /\ TypeOK
    /\ agent \in [Nodes -> {"new", "up", "dead"}]
    /\ lives \in [Nodes -> 0 .. MaxLives]
    /\ silence \in [Nodes -> 0 .. HeartbeatInterval]

(* In its first life an agent is never taken out of service by the sweep,  *)
(* even when as many heartbeats in a row are lost as the configuration     *)
(* allows for, the control plane restarts, and time stamps are cut to      *)
(* whole seconds.  (A later life starts with the old time stamp and may.)  *)
NoFalseOffline ==
    \A n \in Nodes :
        agent[n] = "up" /\ lives[n] = 1 => state[n] # "offline"

(* A node whose agent died leaves the selection for good unless the agent  *)
(* is started again: a heartbeat that was in flight, or a handler that     *)
(* read the row before the sweep marked it, can bring it back only until   *)
(* the next sweep.                                                         *)
DeadNodeLeaves ==
    \A n \in Nodes :
        agent[n] = "dead" /\ now + OfflineTimeout <= MaxTime
            ~> agent[n] = "up" \/ [](~is_selectable(state[n]))

(* An agent that starts and keeps beating comes into service, unless it is *)
(* drained or dies first, or a failure costs it its one registration; a    *)
(* later life also unless the sweep takes it for its predecessor.          *)
LiveNodeServes ==
    \A n \in Nodes :
        agent[n] = "up" /\ now + (MaxFaults + 1) * HeartbeatInterval <= MaxTime
            ~> \/ is_selectable(state[n])
               \/ state[n] = "draining" \/ agent[n] = "dead"
               \/ faults > 0 /\ state[n] = "absent"
               \/ lives[n] > 1 /\ state[n] = "offline"
=============================================================================
