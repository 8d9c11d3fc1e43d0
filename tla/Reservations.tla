---------------------------- MODULE Reservations ----------------------------
(***************************************************************************)
(* What the bandwidth allocators promise: reserving is one atomic step,    *)
(* granted exactly when the rates outstanding at that allocator leave room *)
(* for the new one.  An allocator keeps the ceiling of its first use.      *)
(***************************************************************************)
EXTENDS Integers, FiniteSets

CONSTANTS Conns, Allocators, Rates, Limits

VARIABLES status, alloc, rate, limit

NoAllocator == -1

(* The reserved bytes per second, one element for each.                    *)
Units(granted, r) == UNION {{c} \X (1 .. r[c]) : c \in granted}
Total(a) == Cardinality(Units({c \in Conns : /\ status[c] = "granted"
                                             /\ alloc[c] = a}, rate))

Init ==
    /\ status = [c \in Conns |-> "idle"]
    /\ alloc = [c \in Conns |-> NoAllocator]
    /\ rate = [c \in Conns |-> 0]
    /\ limit = [a \in Allocators |-> NoAllocator]

Moves(c, from, to) == /\ status[c] = from
                      /\ status' = [status EXCEPT ![c] = to]

Ask(c) ==
    /\ Moves(c, "idle", "asking")
    /\ \E a \in Allocators, r \in Rates, l \in Limits :
          /\ alloc' = [alloc EXCEPT ![c] = a]
          /\ rate' = [rate EXCEPT ![c] = r]
          /\ limit' = [limit EXCEPT ![a] = IF @ = NoAllocator THEN l ELSE @]

Grant(c) ==
    /\ Moves(c, "asking", "granted")
    /\ Total(alloc[c]) + rate[c] <= limit[alloc[c]]
    /\ UNCHANGED <<alloc, rate, limit>>

Refuse(c) ==
    /\ Moves(c, "asking", "refused")
    /\ Total(alloc[c]) + rate[c] > limit[alloc[c]]
    /\ UNCHANGED <<alloc, rate, limit>>

Leave(c) ==
    /\ Moves(c, "granted", "idle") \/ Moves(c, "refused", "idle")
    /\ alloc' = [alloc EXCEPT ![c] = NoAllocator]
    /\ rate' = [rate EXCEPT ![c] = 0]
    /\ UNCHANGED limit

Next == \E c \in Conns : Ask(c) \/ Grant(c) \/ Refuse(c) \/ Leave(c)

Spec == Init /\ [][Next]_<<status, alloc, rate, limit>>
=============================================================================
