------------------------------ MODULE Admission ------------------------------
(***************************************************************************)
(* Admitting connections (service.rs): select_with_bandwidth lists the     *)
(* table, sorts the selectable nodes by score, and tries to reserve a slot *)
(* worth of bandwidth at one after the other.  Calls run concurrently: the *)
(* list may be stale and the counters may move while a call tries them.    *)
(*                                                                         *)
(* The table belongs to ControlPlane; here any row may be replaced by any  *)
(* other.  A failed list (`?`) changes nothing and is left out.            *)
(***************************************************************************)
EXTENDS Routing, BandwidthAllocator

CONSTANTS
    Rows,        \* the rows a node may have
    MaxUpdates   \* bound: changes of the table

ASSUME RowsAssumption == Rows \subseteq Row /\ Allocators \subseteq Nat
ASSUME ListAssumption == IsFiniteSet(Allocators)
ASSUME UpdatesAssumption == MaxUpdates \in Nat

VARIABLES
    table,    \* the row of each node
    updates,  \* changes so far
    calling,  \* the connections whose call has listed the table
    left      \* the rows of its list that a call has not given up on

avars == <<vars, table, updates, calling, left>>

NoRows == [n \in {} |-> {}]
Without(rows, n) == [m \in DOMAIN rows \ {n} |-> rows[m]]

AInit ==
    /\ Init
    /\ table \in [Allocators -> Rows]
    /\ updates = 0
    /\ calling = {}
    /\ left = [c \in Conns |-> NoRows]

(* A registration, heartbeat, drain or sweep commits.                      *)
UpdateRow(n) ==
    /\ updates < MaxUpdates
    /\ \E row \in Rows \ {table[n]} : table' = [table EXCEPT ![n] = row]
    /\ updates' = updates + 1
    /\ UNCHANGED <<vars, calling, left>>

select_with_bandwidth(c) ==
    /\ c \notin calling
    /\ calling' = calling \cup {c}
    /\ left' = [left EXCEPT ![c] = Eligible(table)]
    /\ UNCHANGED <<vars, table, updates>>

(* Mutant of Share: rounded up.                                            *)
ShareRoundedUp(row) == (row.bandwidth_limit + row.max_connections - 1)
                       \div row.max_connections

(* An equal slice of the node's bandwidth per connection slot.             *)
Share(row) ==
    LET slots == IF row.max_connections = 0 THEN 1 ELSE row.max_connections
        share == row.bandwidth_limit \div slots
    IN  IF share = 0 THEN 1 ELSE share

(* Rates and Limits are what the rows give rise to.                        *)
ASSUME SharesAssumption ==
    \A row \in Rows : row.bandwidth_limit \in Limits /\ Share(row) \in Rates

TryFirst(c) ==
    /\ c \in calling
    /\ \E n \in Allocators :
          /\ First(left[c], n)
          /\ try_reserve(c, n, left[c][n].bandwidth_limit, Share(left[c][n]))
    /\ UNCHANGED <<table, updates, calling, left>>

(* try_reserve between its call and its result.                            *)
Reserving(c) ==
    /\ Load(c) \/ ExchangeFails(c)
    /\ UNCHANGED <<table, updates, calling, left>>

(* Some(SelectedNode { node, guard }).                                     *)
Selected(c) ==
    /\ compare_exchange_weak(c)
    /\ left' = [left EXCEPT ![c] = [n \in {alloc[c]} |-> @[n]]]
    /\ UNCHANGED <<table, updates, calling>>

TryAnother(c) ==
    /\ ReturnNone(c)
    /\ left' = [left EXCEPT ![c] = Without(@, alloc[c])]
    /\ UNCHANGED <<table, updates, calling>>

NoneSelected(c) ==
    /\ c \in calling /\ left[c] = NoRows
    /\ calling' = calling \ {c}
    /\ UNCHANGED <<vars, table, updates, left>>

(* The connection ends and its SelectedNode is dropped.                    *)
ConnectionEnds(c) ==
    /\ drop(c)
    /\ calling' = calling \ {c}
    /\ left' = [left EXCEPT ![c] = NoRows]
    /\ UNCHANGED <<table, updates>>

ANext ==
    \/ \E n \in Allocators : UpdateRow(n)
    \/ \E c \in Conns :
          \/ select_with_bandwidth(c) \/ TryFirst(c) \/ Reserving(c)
          \/ Selected(c) \/ TryAnother(c) \/ NoneSelected(c)
          \/ ConnectionEnds(c)

AdmissionSpec == AInit /\ [][ANext]_avars

-----------------------------------------------------------------------------
(* Callers, their lists and the table keep their types; a caller that is   *)
(* at an allocator got there from a row of its list.                       *)
AdmissionTypeOK ==
    /\ TypeOK
    /\ table \in [Allocators -> Rows]
    /\ updates \in 0 .. MaxUpdates
    /\ calling \subseteq Conns
    /\ \A c \in Conns : /\ DOMAIN left[c] \subseteq Allocators
                        /\ \A n \in DOMAIN left[c] : left[c][n] \in Rows
                        /\ pc[c] # "idle" => /\ c \in calling
                                             /\ alloc[c] \in DOMAIN left[c]

(* A node is refused only when it is full: when every guard out there was  *)
(* reserved under the row that the caller listed, as many connections as   *)
(* the node has slots hold one.  Rounding, racing callers and drops cost   *)
(* no slot its share.                                                      *)
RefusalMeansFull ==
    [][\A c \in Conns : pc[c] = "load" /\ pc'[c] = "refused" =>
          LET a == alloc[c]
              row == left[c][a]
              guards == {d \in Conns : pc[d] = "held" /\ alloc[d] = a}
          IN  /\ limit[a] = row.bandwidth_limit
              /\ row.bandwidth_limit >= row.max_connections
              /\ \A d \in guards : rate[d] = rate[c]
              => Cardinality(guards) >= row.max_connections]_avars

(* Both ways of choosing find a node exactly when there is one to find,    *)
(* and neither passes over a node for one that is no better in any respect *)
(* and worse in one: the winner of /nodes/select, and the node that a call *)
(* with bandwidth tries next.                                              *)
ChoosesWell(rows, chosen) ==
    /\ (DOMAIN rows # {}) <=> (chosen # {})
    /\ \A k \in chosen, n \in DOMAIN rows : ~Dominates(rows[n], rows[k])

NoDominatedChoice ==
    /\ ChoosesWell(Eligible(table), {n \in Allocators : select(table, n)})
    /\ \A c \in Conns :
          ChoosesWell(left[c], {n \in Allocators : First(left[c], n)})
=============================================================================
