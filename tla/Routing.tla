------------------------------- MODULE Routing -------------------------------
(***************************************************************************)
(* Scoring and selecting nodes (routing.rs, model.rs).  A row is a record  *)
(* with the columns that the score and the reservation read; a list of     *)
(* rows is a function from node ids, which order it (ORDER BY id).         *)
(*                                                                         *)
(* Scores are exact fractions <<numerator, denominator>> in place of f64.  *)
(***************************************************************************)
EXTENDS Health

Row == [state : NodeState, max_connections : Nat, active_connections : Nat,
        latency_ms : Nat, bandwidth_limit : Nat]

OnePlus(f) == <<f[2] + f[1], f[2]>>
Times(f, g) == <<f[1] * g[1], f[2] * g[2]>>
Below(f, g) == f[1] * g[2] < g[1] * f[2]

(* Node::available_capacity: saturating_sub.                               *)
available_capacity(row) ==
    IF row.active_connections >= row.max_connections THEN 0
    ELSE row.max_connections - row.active_connections

(* Node::bandwidth_utilization: the share of slots in use, at most 1.      *)
bandwidth_utilization(row) ==
    IF row.active_connections >= row.max_connections THEN <<1, 1>>
    ELSE <<row.active_connections, row.max_connections>>

health_factor(s) == CASE s = "healthy" -> <<1, 1>>
                      [] s = "degraded" -> <<1, 2>>
                      [] OTHER -> <<0, 1>>

capacity_factor(row) ==
    IF row.max_connections = 0 THEN <<0, 1>>
    ELSE <<available_capacity(row), row.max_connections>>

(* Mutant of latency_factor: it grows with the latency.                    *)
latency_factor_reversed(latency_ms) == <<latency_ms, 1 + latency_ms>>

latency_factor(latency_ms) == <<1, 1 + latency_ms>>

bandwidth_factor(row) ==
    LET used == bandwidth_utilization(row)
    IN  <<used[2] - used[1], used[2]>>

(* ScoreWeights::default: 100 for the health, 1 for the other factors.     *)
score(row) ==
    IF ~is_selectable(row.state) THEN <<0, 1>>
    ELSE Times(Times(<<100, 1>>, health_factor(row.state)),
               Times(OnePlus(capacity_factor(row)),
                     Times(OnePlus(latency_factor(row.latency_ms)),
                           OnePlus(bandwidth_factor(row)))))

(* The selectable rows of a list.                                          *)
Eligible(rows) == [n \in {m \in DOMAIN rows : is_selectable(rows[m].state)}
                      |-> rows[n]]

Beats(rows, n, m) == Below(score(rows[m]), score(rows[n]))

(* HealthAwareSelector::select returns n: the highest score, and max_by    *)
(* keeps the last of equal rows.                                           *)
select(rows, n) ==
    /\ n \in DOMAIN Eligible(rows)
    /\ \A m \in DOMAIN Eligible(rows) \ {n} :
          Beats(rows, n, m) \/ (~Beats(rows, m, n) /\ m < n)

(* n heads the list that select_with_bandwidth sorts by falling score:     *)
(* sort_by is stable, so it is the first of equal rows.                    *)
First(rows, n) ==
    /\ n \in DOMAIN rows
    /\ \A m \in DOMAIN rows \ {n} :
          Beats(rows, n, m) \/ (~Beats(rows, m, n) /\ n < m)

-----------------------------------------------------------------------------
(* A row that is at least as good as another in each respect the docs name *)
(* (health, free slots, latency), and better in one.                       *)
Dominates(p, q) ==
    LET up == bandwidth_utilization(p)
        uq == bandwidth_utilization(q)
        ranks == <<p.state = "healthy" \/ q.state = "degraded",
                   ~Below(uq, up), p.latency_ms <= q.latency_ms>>
    IN  /\ ranks[1] /\ ranks[2] /\ ranks[3]
        /\ p.state # q.state \/ Below(up, uq) \/ p.latency_ms < q.latency_ms
=============================================================================
