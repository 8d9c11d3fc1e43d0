------------------------- MODULE BandwidthAllocator -------------------------
(***************************************************************************)
(* BandwidthAllocator and BandwidthGuard (bandwidth.rs): one atomic        *)
(* counter per allocator, shared by every connection that asks for a share *)
(* of a node's bandwidth and by every guard that holds one.  try_reserve   *)
(* loads the counter, decides, and publishes with a weak compare-exchange; *)
(* any other caller may act between the load and the exchange.             *)
(*                                                                         *)
(* The allocators of the service (service.rs) are made on first use, under *)
(* a mutex, and never made again.                                          *)
(***************************************************************************)
EXTENDS Integers, FiniteSets

CONSTANTS
    Conns,       \* the connections that reserve, one at a time each
    Allocators,  \* the keys of the map of allocators: node ids
    Rates,       \* the rates they ask for
    Limits,      \* the ceilings
    MaxU64       \* the largest value of the counter's type

ASSUME ConnsAssumption == IsFiniteSet(Conns)
ASSUME LimitAssumption == /\ Rates \subseteq Nat /\ MaxU64 \in Nat
                          /\ Limits \subseteq 0 .. MaxU64

(* No allocator yet: no ceiling and no key of the map.                     *)
NoAllocator == -1
ASSUME KeyAssumption == NoAllocator \notin Allocators

VARIABLES
    limit,     \* the ceiling of each allocator
    reserved,  \* its shared counter
    pc,        \* where each connection is
    alloc,     \* the allocator it asks
    rate,      \* the rate it asks for or holds
    current    \* the value it loaded

allocators == <<limit, reserved>>
vars == <<allocators, pc, alloc, rate, current>>

Init ==
    /\ limit = [a \in Allocators |-> NoAllocator]
    /\ reserved = [a \in Allocators |-> 0]
    /\ pc = [c \in Conns |-> "idle"]
    /\ alloc = [c \in Conns |-> NoAllocator]
    /\ rate = [c \in Conns |-> 0]
    /\ current = [c \in Conns |-> 0]

(* allocator: or_insert_with keeps the ceiling of the first use; then      *)
(* try_reserve is called on it.                                            *)
try_reserve(c, a, l, r) ==
    /\ pc[c] = "idle"
    /\ limit' = [limit EXCEPT ![a] = IF @ = NoAllocator THEN l ELSE @]
    /\ alloc' = [alloc EXCEPT ![c] = a]
    /\ rate' = [rate EXCEPT ![c] = r]
    /\ pc' = [pc EXCEPT ![c] = "load"]
    /\ UNCHANGED <<reserved, current>>

(* Mutants of Fits.                                                        *)
FitsOffByOne(a, r) == LET next == reserved[a] + r
                      IN  next <= MaxU64 /\ next <= limit[a] + 1
FitsExclusive(a, r) == LET next == reserved[a] + r
                       IN  next <= MaxU64 /\ next < limit[a]
FitsUnchecked(a, r) == (reserved[a] + r) % (MaxU64 + 1) <= limit[a]

(* checked_add fails, or the sum is above the ceiling: None.               *)
Fits(a, r) == LET next == reserved[a] + r
              IN  next <= MaxU64 /\ next <= limit[a]

Load(c) ==
    /\ pc[c] = "load"
    /\ IF Fits(alloc[c], rate[c])
       THEN /\ pc' = [pc EXCEPT ![c] = "exchange"]
            /\ current' = [current EXCEPT ![c] = reserved[alloc[c]]]
       ELSE /\ pc' = [pc EXCEPT ![c] = "refused"]
            /\ UNCHANGED current
    /\ UNCHANGED <<allocators, alloc, rate>>

(* Mutant of compare_exchange_weak: store without comparing.               *)
ExchangeBlindly(c) ==
    /\ pc[c] = "exchange"
    /\ reserved' = [reserved EXCEPT ![alloc[c]] = current[c] + rate[c]]
    /\ pc' = [pc EXCEPT ![c] = "held"]
    /\ current' = [current EXCEPT ![c] = 0]
    /\ UNCHANGED <<limit, alloc, rate>>

compare_exchange_weak(c) ==
    /\ pc[c] = "exchange"
    /\ reserved[alloc[c]] = current[c]
    /\ reserved' = [reserved EXCEPT ![alloc[c]] = current[c] + rate[c]]
    /\ pc' = [pc EXCEPT ![c] = "held"]
    /\ current' = [current EXCEPT ![c] = 0]
    /\ UNCHANGED <<limit, alloc, rate>>

(* The exchange fails because the counter moved, or for no reason at all.  *)
ExchangeFails(c) ==
    /\ pc[c] = "exchange"
    /\ pc' = [pc EXCEPT ![c] = "load"]
    /\ current' = [current EXCEPT ![c] = 0]
    /\ UNCHANGED <<allocators, alloc, rate>>

ReturnNone(c) ==
    /\ pc[c] = "refused"
    /\ pc' = [pc EXCEPT ![c] = "idle"]
    /\ alloc' = [alloc EXCEPT ![c] = NoAllocator]
    /\ rate' = [rate EXCEPT ![c] = 0]
    /\ UNCHANGED <<allocators, current>>

(* BandwidthGuard::drop: fetch_sub wraps around below zero.                *)
drop(c) ==
    /\ pc[c] = "held"
    /\ reserved' = [reserved EXCEPT ![alloc[c]] = (@ - rate[c]) % (MaxU64 + 1)]
    /\ pc' = [pc EXCEPT ![c] = "idle"]
    /\ alloc' = [alloc EXCEPT ![c] = NoAllocator]
    /\ rate' = [rate EXCEPT ![c] = 0]
    /\ UNCHANGED <<limit, current>>

Next == \E c \in Conns :
    \/ \E a \in Allocators, l \in Limits, r \in Rates : try_reserve(c, a, l, r)
    \/ Load(c) \/ compare_exchange_weak(c) \/ ExchangeFails(c)
    \/ ReturnNone(c) \/ drop(c)

Spec == Init /\ [][Next]_vars

-----------------------------------------------------------------------------
(* The counters stay in their u64 range, and so does every loaded value; a *)
(* caller that is at an allocator finds it made.                           *)
TypeOK ==
    /\ limit \in [Allocators -> Limits \cup {NoAllocator}]
    /\ reserved \in [Allocators -> 0 .. MaxU64]
    /\ pc \in [Conns -> {"idle", "load", "exchange", "refused", "held"}]
    /\ alloc \in [Conns -> Allocators \cup {NoAllocator}]
    /\ rate \in [Conns -> Nat]
    /\ current \in [Conns -> 0 .. MaxU64]
    /\ \A c \in Conns : pc[c] # "idle" => /\ alloc[c] \in Allocators
                                          /\ limit[alloc[c]] \in Limits

(* The abstract view of a caller.                                          *)
Status == [c \in Conns |-> CASE pc[c] \in {"load", "exchange"} -> "asking"
                             [] pc[c] = "held" -> "granted"
                             [] OTHER -> pc[c]]

Abstract == INSTANCE Reservations WITH status <- Status, alloc <- alloc,
                                       rate <- rate, limit <- limit

(* Each counter is the sum of the rates held there, so no reservation is   *)
(* lost or counted twice by racing exchanges and drops, none is charged to *)
(* another node, and fetch_sub never wraps.                                *)
CounterIsSum == \A a \in Allocators : reserved[a] = Abstract!Total(a)

(* "The sum of all outstanding reservations never exceeds the configured   *)
(* ceiling" (bandwidth.rs).                                                *)
NeverOverCommitted == \A a \in Allocators :
    limit[a] # NoAllocator => Abstract!Total(a) <= limit[a]

(* try_reserve is linearizable: its load and exchange act as one atomic    *)
(* step that grants exactly when the rate fits the ceiling.                *)
ImplementsReservations == Abstract!Spec
=============================================================================
