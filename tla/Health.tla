------------------------------- MODULE Health -------------------------------
(***************************************************************************)
(* The vocabulary of a node's life and the pure decisions taken about it:  *)
(* crates/control-plane/src/model.rs and health.rs, and the gauge value of *)
(* metrics.rs.  Times are clock ticks; there are no variables here.        *)
(***************************************************************************)
EXTENDS Integers

(* NodeState, plus "absent" for an id that has no row in the table.        *)
NodeState == {"starting", "healthy", "degraded", "draining", "offline"}
RowState == NodeState \cup {"absent"}

(* A NULL last_heartbeat: never a time stamp.                              *)
NoHeartbeat == -1

(* Node::is_selectable.                                                    *)
is_selectable(s) == s \in {"healthy", "degraded"}

(* Mutant of is_live: it leaves degraded nodes out.                        *)
is_live_not_degraded(s) == s \in {"starting", "healthy"}

(* The states that the sweep considers alive.                              *)
is_live(s) == s \in {"starting", "healthy", "degraded"}

(* Utilization at or above the default degraded_threshold, 0.9.  A node    *)
(* without slots counts as fully used.                                     *)
Overloaded(active, max) == max = 0 \/ 10 * active >= 9 * max

(* Mutants of reclassify_after_heartbeat: it revives an offline node; it   *)
(* leaves a starting node as it is.                                        *)
reclassify_forgets_offline(current, active, max) ==
    IF current = "draining" THEN current
    ELSE IF Overloaded(active, max) THEN "degraded" ELSE "healthy"

reclassify_keeps_starting(current, active, max) ==
    IF current \in {"draining", "offline", "starting"} THEN current
    ELSE IF Overloaded(active, max) THEN "degraded" ELSE "healthy"

(* The state after a heartbeat: only a live node is classified by load.    *)
reclassify_after_heartbeat(current, active, max) ==
    IF current \in {"draining", "offline"} THEN current
    ELSE IF Overloaded(active, max) THEN "degraded" ELSE "healthy"

(* Mutant of is_stale: strictly longer than the timeout.                   *)
is_stale_off_by_one(last, at, timeout) ==
    last # NoHeartbeat /\ at - last > timeout

(* A heartbeat stamped after `now` counts as zero elapsed time.            *)
is_stale(last, at, timeout) ==
    LET elapsed == IF at > last THEN at - last ELSE 0
    IN  last # NoHeartbeat /\ elapsed >= timeout

(* proxy_node_health in halves: 1, 0.5, 0.                                 *)
health_gauge_value(s) == CASE s = "healthy" -> 2
                           [] s = "degraded" -> 1
                           [] OTHER -> 0
=============================================================================
