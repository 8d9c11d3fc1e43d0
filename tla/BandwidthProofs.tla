-------------------------- MODULE BandwidthProofs --------------------------
(***************************************************************************)
(* Proofs about the bandwidth allocators and the calls that use them, for  *)
(* any finite set of connections, any allocators, and any rates, ceilings  *)
(* and counter width.                                                      *)
(***************************************************************************)
EXTENDS Admission, FiniteSetTheorems, TLAPS

Held(a) == {c \in Conns : pc[c] = "held" /\ alloc[c] = a}

(* A ceiling that has been set.                                            *)
Made(a) == limit[a] # NoAllocator

(* The counter is the sum of the held rates; what a caller is about to     *)
(* publish fits the ceiling, and so does what a guard holds.               *)
IInv ==
    /\ TypeOK
    /\ \A a \in Allocators : reserved[a] = Cardinality(Abstract!Units(Held(a), rate))
    /\ \A a \in Allocators : Made(a) => reserved[a] <= limit[a]
    /\ \A c \in Conns : pc[c] = "exchange" => current[c] + rate[c] <= limit[alloc[c]]
    /\ \A c \in Conns : pc[c] = "held" => rate[c] <= MaxU64

(* The abstract total counts the shares that guards hold.                  *)
LEMMA TotalIsHeld ==
    ASSUME TypeOK, NEW a \in Allocators
    PROVE  Abstract!Total(a) = Cardinality(Abstract!Units(Held(a), rate))
<1>1. {c \in Conns : Status[c] = "granted" /\ alloc[c] = a} = Held(a)
  BY Zenon DEF Status, Held, TypeOK
<1>2. QED
  BY <1>1, Zenon DEF Abstract!Total, Abstract!Cardinality, Cardinality

(* One more connection adds its rate to the number of units.               *)
LEMMA AddUnits ==
    ASSUME NEW D \in SUBSET Conns, NEW r \in [Conns -> Nat],
           NEW c \in Conns, c \notin D, \A d \in D : r[d] <= MaxU64,
           r[c] <= MaxU64
    PROVE  /\ Cardinality(Abstract!Units(D, r)) \in Nat
           /\ Cardinality(Abstract!Units(D \cup {c}, r))
                 = Cardinality(Abstract!Units(D, r)) + r[c]
<1> DEFINE U == Abstract!Units(D, r)
           V == {c} \X (1 .. r[c])
           W == Abstract!Units(D \cup {c}, r)
           Box == Conns \X (1 .. MaxU64)
<1>1. MaxU64 \in Nat /\ IsFiniteSet(Box)
  <2>1. MaxU64 \in Nat
    BY LimitAssumption, Zenon
  <2>2. IsFiniteSet(1 .. MaxU64)
    BY <2>1, FS_Interval
  <2>3. QED
    BY <2>1, <2>2, ConnsAssumption, FS_Product, Zenon
<1>2. W = U \cup V
  BY Zenon DEF Abstract!Units
<1>3. U \cap V = {}
  BY DEF Abstract!Units
<1>4. U \in SUBSET Box
  BY <1>1 DEF Abstract!Units
<1>5. IsFiniteSet(U) /\ Cardinality(U) \in Nat
  BY <1>1, <1>4, FS_Subset, FS_CardinalityType, Zenon
<1>6. IsFiniteSet(V) /\ Cardinality(V) = r[c]
  <2>1. r[c] \in Nat
    OBVIOUS
  <2>2. IsFiniteSet(1 .. r[c]) /\ Cardinality(1 .. r[c]) = r[c]
    BY <2>1, FS_Interval
  <2>3. IsFiniteSet({c}) /\ Cardinality({c}) = 1
    BY FS_Singleton, Zenon
  <2>4. Cardinality(V) = Cardinality({c}) * Cardinality(1 .. r[c])
        /\ IsFiniteSet(V)
    BY <2>2, <2>3, FS_Product, Zenon
  <2>5. QED
    BY <2>1, <2>2, <2>3, <2>4
<1>7. Cardinality(W) = Cardinality(U) + Cardinality(V) - Cardinality(U \cap V)
  BY <1>2, <1>5, <1>6, FS_Union, ZenonT(30)
<1>8. Cardinality(U \cap V) = 0
  BY <1>3, FS_EmptySet, Zenon
<1>9. QED
  BY <1>5, <1>6, <1>7, <1>8

(* The units do not depend on the rates of connections that hold nothing.  *)
LEMMA SameUnits ==
    ASSUME NEW D \in SUBSET Conns, NEW r, NEW q, \A d \in D : r[d] = q[d]
    PROVE  Abstract!Units(D, r) = Abstract!Units(D, q)
  BY Zenon DEF Abstract!Units

(* No counter has a reservation before its allocator is made.              *)
LEMMA InitInv == Init => IInv
<1> SUFFICES ASSUME Init PROVE IInv
  OBVIOUS
<1>1. TypeOK
  BY LimitAssumption DEF Init, TypeOK
<1>2. \A a \in Allocators : Held(a) = {} /\ ~Made(a) /\ reserved[a] = 0
  BY Zenon DEF Init, Held, Made
<1>3. Abstract!Units({}, rate) = {}
  BY Zenon DEF Abstract!Units
<1>4. Cardinality(Abstract!Units({}, rate)) = 0
  BY <1>3, FS_EmptySet, Zenon
<1>5. \A a \in Allocators : reserved[a] = Cardinality(Abstract!Units(Held(a), rate))
  BY <1>2, <1>4, Zenon
<1>6. QED
  BY <1>1, <1>2, <1>5, Zenon DEF Init, IInv

(* Where nobody gains or drops a share, the units stay as they are.        *)
LEMMA SameHeld ==
    ASSUME NEW a \in Allocators, IInv, Held(a)' = Held(a),
           \A d \in Held(a) : rate'[d] = rate[d], reserved'[a] = reserved[a]
    PROVE  reserved'[a] = Cardinality(Abstract!Units(Held(a)', rate'))
<1>1. Held(a) \in SUBSET Conns
  BY Zenon DEF Held
<1>2. Abstract!Units(Held(a), rate') = Abstract!Units(Held(a), rate)
  BY <1>1, SameUnits, Zenon
<1>3. QED
  BY <1>2, Zenon DEF IInv

(* A connection that gains a share takes its rate; a connection that drops *)
(* its share gives it back; the units of the others stay.                  *)
LEMMA NextInv == IInv /\ [Next]_vars => IInv'
<1> SUFFICES ASSUME IInv, [Next]_vars PROVE IInv'
  OBVIOUS
<1> USE LimitAssumption, KeyAssumption
<1>0. /\ \A a \in Allocators : Held(a) \in SUBSET Conns
      /\ rate \in [Conns -> Nat] /\ MaxU64 \in Nat /\ Limits \subseteq Nat
      /\ \A a \in Allocators : reserved[a] \in Nat
      /\ \A c \in Conns : pc[c] # "idle" => /\ alloc[c] \in Allocators
                                            /\ limit[alloc[c]] \in Nat
                                            /\ limit[alloc[c]] <= MaxU64
                                            /\ Made(alloc[c])
  <2>1. TypeOK
    BY Zenon DEF IInv
  <2>2. /\ \A a \in Allocators : Held(a) \in SUBSET Conns
        /\ rate \in [Conns -> Nat] /\ MaxU64 \in Nat /\ Limits \subseteq Nat
        /\ \A a \in Allocators : reserved[a] \in Nat
    BY <2>1 DEF Held, TypeOK
  <2>3. \A l \in Limits : l \in Nat /\ l <= MaxU64 /\ l # NoAllocator
    BY DEF NoAllocator
  <2>4. \A c \in Conns : pc[c] # "idle" => /\ alloc[c] \in Allocators
                                            /\ limit[alloc[c]] \in Limits
    BY <2>1, Zenon DEF TypeOK
  <2>5. QED
    BY <2>2, <2>3, <2>4, Zenon DEF Made
<1>1. ASSUME NEW c \in Conns, NEW a \in Allocators, NEW l \in Limits,
             NEW r \in Rates, try_reserve(c, a, l, r)
      PROVE  IInv'
  <2>1. TypeOK'
    <3>1. /\ limit' \in [Allocators -> Limits \cup {NoAllocator}]
          /\ reserved' \in [Allocators -> 0 .. MaxU64]
          /\ pc' \in [Conns -> {"idle", "load", "exchange", "refused", "held"}]
          /\ alloc' \in [Conns -> Allocators \cup {NoAllocator}]
          /\ rate' \in [Conns -> Nat] /\ current' \in [Conns -> 0 .. MaxU64]
      BY <1>1, Zenon DEF IInv, TypeOK, try_reserve
    <3>2. limit'[a] \in Limits
      BY <1>1, Zenon DEF IInv, TypeOK, try_reserve
    <3>3. \A d \in Conns : pc'[d] # "idle" => /\ alloc'[d] \in Allocators
                                              /\ limit'[alloc'[d]] \in Limits
      BY <1>0, <1>1, <3>2, Zenon DEF IInv, TypeOK, try_reserve, Made
    <3>4. QED
      BY <3>1, <3>3, Zenon DEF TypeOK
  <2>2. \A b \in Allocators : /\ Held(b)' = Held(b)
                              /\ \A d \in Held(b) : rate'[d] = rate[d]
                              /\ reserved'[b] = reserved[b]
    BY <1>1, Zenon DEF IInv, TypeOK, try_reserve, Held
  <2>3. \A b \in Allocators : reserved'[b] = Cardinality(Abstract!Units(Held(b)', rate'))
    BY <2>2, SameHeld, Zenon
  <2>4. \A b \in Allocators : Made(b)' => reserved'[b] <= limit'[b]
    <3>1. SUFFICES ASSUME NEW b \in Allocators, Made(b)'
                   PROVE  reserved'[b] <= limit'[b]
      OBVIOUS
    <3>2. CASE Made(b)
      BY <1>1, <3>2, Zenon DEF IInv, TypeOK, try_reserve, Made
    <3>3. CASE ~Made(b)
      <4>1. Held(b) = {}
        BY <3>3 DEF Held, IInv, TypeOK, Made, NoAllocator
      <4>2. Abstract!Units({}, rate) = {}
        BY Zenon DEF Abstract!Units
      <4>3. reserved[b] = 0
        BY <4>1, <4>2, FS_EmptySet, Zenon DEF IInv
      <4>4. limit'[b] \in Nat
        BY <2>1, <3>1, <1>0, Zenon DEF TypeOK, Made, NoAllocator
      <4>5. QED
        BY <2>2, <4>3, <4>4
    <3>4. QED
      BY <3>2, <3>3, Zenon
  <2>5. \A d \in Conns :
           /\ pc'[d] = "exchange" => /\ pc[d] = "exchange" /\ rate'[d] = rate[d]
                                     /\ alloc'[d] = alloc[d]
                                     /\ current'[d] = current[d]
                                     /\ limit'[alloc[d]] = limit[alloc[d]]
           /\ pc'[d] = "held" => pc[d] = "held" /\ rate'[d] = rate[d]
    BY <1>0, <1>1, Zenon DEF IInv, TypeOK, try_reserve, Made
  <2>6. QED
    BY <2>1, <2>3, <2>4, <2>5 DEF IInv
<1>2. ASSUME NEW c \in Conns, Load(c) \/ ExchangeFails(c) PROVE IInv'
  <2>1. /\ rate' = rate /\ limit' = limit /\ alloc' = alloc
        /\ reserved' = reserved
    BY <1>2, Zenon DEF Load, ExchangeFails, allocators
  <2>2. TypeOK'
    BY <1>0, <1>2, <2>1, SMTT(30) DEF IInv, TypeOK, Load, ExchangeFails
  <2>3. \A b \in Allocators : Held(b)' = Held(b)
    BY <1>2, <2>1, Zenon DEF IInv, TypeOK, Load, ExchangeFails, Held
  <2>4. \A b \in Allocators : reserved'[b] = Cardinality(Abstract!Units(Held(b)', rate'))
    BY <2>1, <2>3, SameHeld, Zenon
  <2>5. \A d \in Conns :
           pc'[d] = "exchange" => current'[d] + rate[d] <= limit[alloc[d]]
    <3>1. CASE Load(c)
      BY <1>0, <3>1, Zenon DEF IInv, TypeOK, Load, Fits
    <3>2. CASE ExchangeFails(c)
      BY <3>2, Zenon DEF IInv, TypeOK, ExchangeFails
    <3>3. QED
      BY <1>2, <3>1, <3>2, Zenon
  <2>6. \A d \in Conns : pc'[d] = "held" => pc[d] = "held"
    BY <1>2, Zenon DEF IInv, TypeOK, Load, ExchangeFails
  <2>7. QED
    BY <2>1, <2>2, <2>4, <2>5, <2>6, Zenon DEF IInv, Made
<1>3. ASSUME NEW c \in Conns, compare_exchange_weak(c) PROVE IInv'
  <2> PICK a \in Allocators : a = alloc[c]
    BY <1>0, <1>3, Zenon DEF compare_exchange_weak
  <2>0. /\ a \in Allocators /\ Made(a) /\ limit[a] \in Nat /\ limit[a] <= MaxU64
        /\ rate' = rate /\ limit' = limit /\ alloc' = alloc
    BY <1>0, <1>3, Zenon DEF compare_exchange_weak
  <2>1. /\ reserved' = [reserved EXCEPT ![a] = reserved[a] + rate[c]]
        /\ reserved[a] + rate[c] <= limit[a]
        /\ rate[c] \in Nat /\ rate[c] <= MaxU64
    BY <1>0, <1>3, <2>0 DEF IInv, TypeOK, compare_exchange_weak
  <2>2. /\ Held(a)' = Held(a) \cup {c} /\ c \notin Held(a)
        /\ \A b \in Allocators \ {a} : Held(b)' = Held(b)
    BY <1>3, <2>0, Zenon DEF IInv, TypeOK, compare_exchange_weak, Held
  <2>3. \A d \in Held(a) : rate[d] <= MaxU64
    BY Zenon DEF IInv, Held
  <2>4. reserved'[a] = Cardinality(Abstract!Units(Held(a)', rate'))
    <3>1. Cardinality(Abstract!Units(Held(a) \cup {c}, rate))
             = Cardinality(Abstract!Units(Held(a), rate)) + rate[c]
      BY <1>0, <2>0, <2>1, <2>2, <2>3, AddUnits, SMTT(30)
    <3>2. reserved'[a] = reserved[a] + rate[c]
      BY <2>0, <2>1, SMTT(30) DEF IInv, TypeOK
    <3>3. QED
      BY <2>0, <2>2, <3>1, <3>2, SMTT(30) DEF IInv
  <2>5. \A b \in Allocators \ {a} :
           reserved'[b] = Cardinality(Abstract!Units(Held(b)', rate'))
    <3>1. \A b \in Allocators \ {a} : reserved'[b] = reserved[b]
      BY <2>0, <2>1, Zenon DEF IInv, TypeOK
    <3>2. QED
      BY <2>0, <2>2, <3>1, SameHeld, SMTT(30)
  <2>6. reserved' \in [Allocators -> 0 .. MaxU64]
        /\ \A b \in Allocators : Made(b) => reserved'[b] <= limit[b]
    BY <1>0, <2>0, <2>1 DEF IInv, TypeOK
  <2>7. TypeOK'
    BY <1>0, <1>3, <2>0, <2>6 DEF IInv, TypeOK, compare_exchange_weak
  <2>8. \A d \in Conns : /\ pc'[d] = "exchange" => /\ pc[d] = "exchange"
                                                   /\ current'[d] = current[d]
                         /\ pc'[d] = "held" => pc[d] = "held" \/ d = c
    BY <1>3, Zenon DEF IInv, TypeOK, compare_exchange_weak
  <2>9. \A b \in Allocators : Made(b)' => reserved'[b] <= limit'[b]
    BY <2>0, <2>6, Zenon DEF Made
  <2>10. \A d \in Conns :
            /\ pc'[d] = "exchange" => current'[d] + rate'[d] <= limit'[alloc'[d]]
            /\ pc'[d] = "held" => rate'[d] <= MaxU64
    BY <2>0, <2>1, <2>8, Zenon DEF IInv
  <2>11. \A b \in Allocators : reserved'[b] = Cardinality(Abstract!Units(Held(b)', rate'))
    BY <2>4, <2>5, Zenon
  <2>12. QED
    BY <2>7, <2>9, <2>10, <2>11, SMTT(30) DEF IInv
<1>4. ASSUME NEW c \in Conns, ReturnNone(c) PROVE IInv'
  <2>1. limit' = limit /\ reserved' = reserved
    BY <1>4, Zenon DEF ReturnNone, allocators
  <2>2. /\ TypeOK'
        /\ \A b \in Allocators : /\ Held(b)' = Held(b)
                                 /\ \A d \in Held(b) : rate'[d] = rate[d]
    BY <1>4, <2>1, Zenon DEF IInv, TypeOK, ReturnNone, Held
  <2>3. \A b \in Allocators : reserved'[b] = Cardinality(Abstract!Units(Held(b)', rate'))
    BY <2>1, <2>2, SameHeld, Zenon
  <2>4. \A d \in Conns :
           /\ pc'[d] = "exchange" => /\ pc[d] = "exchange" /\ rate'[d] = rate[d]
                                     /\ alloc'[d] = alloc[d]
                                     /\ current'[d] = current[d]
           /\ pc'[d] = "held" => pc[d] = "held" /\ rate'[d] = rate[d]
    BY <1>4, SMTT(30) DEF IInv, TypeOK, ReturnNone
  <2>5. QED
    BY <2>1, <2>2, <2>3, <2>4, Zenon DEF IInv, Made
<1>5. ASSUME NEW c \in Conns, drop(c) PROVE IInv'
  <2> PICK a \in Allocators : a = alloc[c]
    BY <1>0, <1>5, Zenon DEF drop
  <2>0. /\ a \in Allocators /\ Made(a) /\ limit[a] \in Nat /\ limit' = limit
        /\ rate[c] \in Nat
    BY <1>0, <1>5, Zenon DEF drop
  <2>1. /\ Held(a)' = Held(a) \ {c} /\ c \in Held(a)
        /\ \A b \in Allocators \ {a} : Held(b)' = Held(b) /\ c \notin Held(b)
        /\ rate' \in [Conns -> Nat]
        /\ \A d \in Conns \ {c} : rate'[d] = rate[d]
    <3>1. /\ pc' = [pc EXCEPT ![c] = "idle"] /\ pc[c] = "held"
          /\ alloc' = [alloc EXCEPT ![c] = NoAllocator]
          /\ rate' = [rate EXCEPT ![c] = 0]
      BY <1>5, Zenon DEF drop
    <3>2. /\ pc \in [Conns -> {"idle", "load", "exchange", "refused", "held"}]
          /\ alloc \in [Conns -> Allocators \cup {NoAllocator}]
      BY Zenon DEF IInv, TypeOK
    <3>3. rate' \in [Conns -> Nat] /\ \A d \in Conns \ {c} : rate'[d] = rate[d]
      BY <1>0, <3>1, Zenon
    <3>4. \A d \in Conns \ {c} : pc'[d] = pc[d] /\ alloc'[d] = alloc[d]
      BY <3>1, <3>2, Zenon
    <3>5. pc'[c] = "idle"
      BY <3>1, <3>2, Zenon
    <3>6. \A b \in Allocators : Held(b)' = Held(b) \ {c}
      BY <3>4, <3>5, Zenon DEF Held
    <3>7. c \in Held(a) /\ \A b \in Allocators \ {a} : c \notin Held(b)
      BY <3>1, Zenon DEF Held
    <3>8. QED
      BY <2>0, <3>3, <3>6, <3>7
  <2>2. \A d \in Held(a) : rate[d] <= MaxU64
    BY Zenon DEF IInv, Held
  <2>3. /\ Held(a) = Held(a)' \cup {c} /\ Held(a)' \in SUBSET Conns
        /\ c \notin Held(a)' /\ c \in Conns
    BY <1>0, <2>0, <2>1, SMTT(30)
  <2>4. /\ Cardinality(Abstract!Units(Held(a)', rate)) \in Nat
        /\ reserved[a] = Cardinality(Abstract!Units(Held(a)', rate)) + rate[c]
    <3>1. /\ Cardinality(Abstract!Units(Held(a)', rate)) \in Nat
          /\ Cardinality(Abstract!Units(Held(a)' \cup {c}, rate))
                = Cardinality(Abstract!Units(Held(a)', rate)) + rate[c]
      BY <1>0, <2>1, <2>2, <2>3, AddUnits, SMTT(30)
    <3>2. QED
      BY <2>0, <2>3, <3>1, Zenon DEF IInv
  <2>5. /\ reserved' = [reserved EXCEPT ![a] = reserved[a] - rate[c]]
        /\ reserved[a] - rate[c] \in 0 .. reserved[a]
    <3>1. reserved[a] - rate[c] \in 0 .. MaxU64
      BY <1>0, <2>0, <2>4 DEF IInv, TypeOK
    <3>2. (reserved[a] - rate[c]) % (MaxU64 + 1) = reserved[a] - rate[c]
      BY <1>0, <3>1
    <3>3. reserved' = [reserved EXCEPT ![a] = (reserved[a] - rate[c]) % (MaxU64 + 1)]
      BY <1>5, Zenon DEF drop
    <3>4. reserved[a] - rate[c] \in 0 .. reserved[a]
      BY <1>0, <2>0, <2>4
    <3>5. QED
      BY <3>2, <3>3, <3>4, Zenon
  <2>6. reserved'[a] = Cardinality(Abstract!Units(Held(a)', rate'))
    <3>1. Abstract!Units(Held(a)', rate') = Abstract!Units(Held(a)', rate)
      BY <2>1, <2>3, SameUnits, SMTT(30)
    <3>2. reserved'[a] = reserved[a] - rate[c]
      BY <2>0, <2>5, Zenon DEF IInv, TypeOK
    <3>3. QED
      BY <1>0, <2>0, <2>4, <3>1, <3>2, SMTT(30)
  <2>7. \A b \in Allocators \ {a} :
           reserved'[b] = Cardinality(Abstract!Units(Held(b)', rate'))
    <3>1. SUFFICES ASSUME NEW b \in Allocators \ {a}
                   PROVE  reserved'[b] = Cardinality(Abstract!Units(Held(b)', rate'))
      OBVIOUS
    <3>2. reserved'[b] = reserved[b] /\ Held(b)' = Held(b)
      BY <2>0, <2>1, <2>5, Zenon DEF IInv, TypeOK
    <3>3. \A d \in Held(b) : rate'[d] = rate[d]
      BY <1>0, <2>1, Zenon
    <3>4. QED
      BY <3>2, <3>3, SameHeld, Zenon
  <2>8. reserved' \in [Allocators -> 0 .. MaxU64]
        /\ \A b \in Allocators : Made(b) => reserved'[b] <= limit[b]
    BY <1>0, <2>0, <2>5, SMTT(30) DEF IInv, TypeOK
  <2>9. TypeOK'
    BY <1>0, <1>5, <2>0, <2>8, SMTT(30) DEF IInv, TypeOK, drop
  <2>10. \A d \in Conns :
            /\ pc'[d] = "exchange" => /\ pc[d] = "exchange" /\ rate'[d] = rate[d]
                                      /\ alloc'[d] = alloc[d]
                                      /\ current'[d] = current[d]
            /\ pc'[d] = "held" => pc[d] = "held" /\ rate'[d] = rate[d]
    BY <1>5, Zenon DEF IInv, TypeOK, drop
  <2>11. \A b \in Allocators : Made(b)' => reserved'[b] <= limit'[b]
    BY <2>0, <2>8, SMTT(30) DEF Made
  <2>12. \A d \in Conns :
            /\ pc'[d] = "exchange" => current'[d] + rate'[d] <= limit'[alloc'[d]]
            /\ pc'[d] = "held" => rate'[d] <= MaxU64
    BY <2>0, <2>10, Zenon DEF IInv
  <2>13. \A b \in Allocators : reserved'[b] = Cardinality(Abstract!Units(Held(b)', rate'))
    BY <2>6, <2>7, Zenon
  <2>14. QED
    BY <2>9, <2>11, <2>12, <2>13, Zenon DEF IInv
<1>6. CASE UNCHANGED vars
  BY <1>6 DEF vars, allocators, IInv, TypeOK, Held, Made
<1>7. QED
  BY <1>1, <1>2, <1>3, <1>4, <1>5, <1>6, Zenon DEF Next

-----------------------------------------------------------------------------
(* The calls.  Every caller that is at an allocator asks for the share of  *)
(* the row in its list.                                                    *)
AInv ==
    /\ IInv
    /\ AdmissionTypeOK
    /\ left \in [Conns -> UNION {[S -> Rows] : S \in SUBSET Allocators}]
    /\ \A c \in Conns : pc[c] # "idle" => rate[c] = Share(left[c][alloc[c]])

(* The invariant holds of empty counters and lists.                        *)
LEMMA AInitInv == AInit => AInv
<1> SUFFICES ASSUME AInit PROVE AInv
  OBVIOUS
<1>1. IInv /\ TypeOK
  BY InitInv, Zenon DEF AInit, IInv
<1>2. /\ table \in [Allocators -> Rows] /\ updates \in 0 .. MaxUpdates
      /\ calling \subseteq Conns /\ left = [c \in Conns |-> NoRows]
      /\ \A c \in Conns : pc[c] = "idle"
  BY UpdatesAssumption DEF AInit, Init
<1>3. NoRows \in [{} -> Rows]
  BY Zenon DEF NoRows
<1>4. left \in [Conns -> UNION {[S -> Rows] : S \in SUBSET Allocators}]
  BY <1>2, <1>3, Zenon
<1>5. \A c \in Conns : DOMAIN left[c] = {}
  BY <1>2, Zenon DEF NoRows
<1>6. QED
  BY <1>1, <1>2, <1>4, <1>5, Zenon DEF AInv, AdmissionTypeOK

(* A step of a call is a step of the allocators, or leaves them alone.     *)
LEMMA CallSteps == AInv /\ [ANext]_avars => [Next]_vars
<1> SUFFICES ASSUME AInv, [ANext]_avars PROVE [Next]_vars
  OBVIOUS
<1>1. ASSUME NEW n \in Allocators, UpdateRow(n) PROVE [Next]_vars
  BY <1>1, Zenon DEF UpdateRow
<1>2. ASSUME NEW c \in Conns, select_with_bandwidth(c) PROVE [Next]_vars
  BY <1>2, Zenon DEF select_with_bandwidth
<1>3. ASSUME NEW c \in Conns, TryFirst(c) PROVE [Next]_vars
  <2>1. PICK n \in Allocators :
           /\ First(left[c], n)
           /\ try_reserve(c, n, left[c][n].bandwidth_limit, Share(left[c][n]))
    BY <1>3, Zenon DEF TryFirst
  <2>2. n \in DOMAIN left[c]
    BY <2>1, Zenon DEF First
  <2>3. left[c][n] \in Rows
    BY <2>2, Zenon DEF AInv, AdmissionTypeOK
  <2>4. left[c][n].bandwidth_limit \in Limits /\ Share(left[c][n]) \in Rates
    BY <2>3, SharesAssumption, Zenon
  <2>5. QED
    BY <2>1, <2>4, Zenon DEF Next
<1>4. ASSUME NEW c \in Conns, Reserving(c) PROVE [Next]_vars
  BY <1>4, Zenon DEF Reserving, Next
<1>5. ASSUME NEW c \in Conns, Selected(c) PROVE [Next]_vars
  BY <1>5, Zenon DEF Selected, Next
<1>6. ASSUME NEW c \in Conns, TryAnother(c) PROVE [Next]_vars
  BY <1>6, Zenon DEF TryAnother, Next
<1>7. ASSUME NEW c \in Conns, NoneSelected(c) PROVE [Next]_vars
  BY <1>7, Zenon DEF NoneSelected
<1>8. ASSUME NEW c \in Conns, ConnectionEnds(c) PROVE [Next]_vars
  BY <1>8, Zenon DEF ConnectionEnds, Next
<1>9. CASE UNCHANGED avars
  BY <1>9, Zenon DEF avars
<1>10. QED
  BY <1>1, <1>2, <1>3, <1>4, <1>5, <1>6, <1>7, <1>8, <1>9, Zenon DEF ANext

(* What a call adds to the state of the allocators, for one connection.    *)
CallOK(c) ==
    /\ left[c] \in UNION {[S -> Rows] : S \in SUBSET Allocators}
    /\ pc[c] # "idle" => /\ c \in calling /\ alloc[c] \in DOMAIN left[c]
                         /\ rate[c] = Share(left[c][alloc[c]])

(* A list of selectable rows is a list of rows, and stays one when rows    *)
(* are taken out of it.                                                    *)
LEMMA ListsAreRows ==
    ASSUME NEW S \in SUBSET Allocators, NEW rows \in [S -> Rows], NEW a
    PROVE  /\ Eligible(rows) \in UNION {[T -> Rows] : T \in SUBSET Allocators}
           /\ Without(rows, a) \in UNION {[T -> Rows] : T \in SUBSET Allocators}
           /\ a \in S => [n \in {a} |-> rows[n]]
                            \in UNION {[T -> Rows] : T \in SUBSET Allocators}
<1>1. Eligible(rows) \in [{m \in S : is_selectable(rows[m].state)} -> Rows]
  BY Zenon DEF Eligible
<1>2. Without(rows, a) \in [S \ {a} -> Rows]
  BY Zenon DEF Without
<1>3. a \in S => [n \in {a} |-> rows[n]] \in [{a} -> Rows] /\ {a} \in SUBSET Allocators
  OBVIOUS
<1>4. {m \in S : is_selectable(rows[m].state)} \in SUBSET Allocators
      /\ S \ {a} \in SUBSET Allocators
  OBVIOUS
<1>5. QED
  BY <1>1, <1>2, <1>3, <1>4, ZenonT(30)

(* Every step of a connection, an allocator or the table keeps it.         *)
LEMMA ANextInv == AInv /\ [ANext]_avars => AInv'
<1> SUFFICES ASSUME AInv, [ANext]_avars PROVE AInv'
  OBVIOUS
<1> DEFINE Lists == UNION {[S -> Rows] : S \in SUBSET Allocators}
<1>0. IInv'
  BY CallSteps, NextInv, SMTT(30) DEF AInv
<1>1. /\ TypeOK /\ left \in [Conns -> Lists] /\ \A c \in Conns : CallOK(c)
      /\ table \in [Allocators -> Rows] /\ updates \in 0 .. MaxUpdates
      /\ calling \subseteq Conns
  BY SMTT(30) DEF AInv, IInv, AdmissionTypeOK, CallOK
<1>2. SUFFICES /\ left' \in [Conns -> Lists] /\ \A c \in Conns : CallOK(c)'
               /\ table' \in [Allocators -> Rows]
               /\ updates' \in 0 .. MaxUpdates /\ calling' \subseteq Conns
  <2>1. ASSUME NEW c \in Conns, CallOK(c)'
        PROVE  /\ DOMAIN left'[c] \subseteq Allocators
               /\ \A n \in DOMAIN left'[c] : left'[c][n] \in Rows
    BY <2>1 DEF CallOK
  <2>2. TypeOK'
    BY <1>0, Zenon DEF IInv
  <2>3. QED
    BY <1>0, <1>2, <2>1, <2>2, Zenon DEF AInv, AdmissionTypeOK, CallOK
<1>3. ASSUME NEW n \in Allocators, UpdateRow(n)
      PROVE  /\ left' \in [Conns -> Lists] /\ \A c \in Conns : CallOK(c)'
             /\ table' \in [Allocators -> Rows]
             /\ updates' \in 0 .. MaxUpdates /\ calling' \subseteq Conns
  <2>1. updates' \in 0 .. MaxUpdates /\ table' \in [Allocators -> Rows]
    BY <1>1, <1>3, UpdatesAssumption DEF UpdateRow
  <2>2. UNCHANGED <<pc, alloc, rate, calling, left>>
    BY <1>3, Zenon DEF UpdateRow, vars
  <2>3. QED
    BY <1>1, <2>1, <2>2, Zenon DEF CallOK
<1>4. ASSUME NEW c \in Conns, select_with_bandwidth(c)
      PROVE  /\ left' \in [Conns -> Lists] /\ \A d \in Conns : CallOK(d)'
             /\ table' \in [Allocators -> Rows]
             /\ updates' \in 0 .. MaxUpdates /\ calling' \subseteq Conns
  <2>1. Eligible(table) \in Lists
    BY <1>1, ListsAreRows, Zenon
  <2>2. /\ UNCHANGED <<pc, alloc, rate, table, updates>> /\ pc[c] = "idle"
        /\ calling' = calling \cup {c}
        /\ left' = [left EXCEPT ![c] = Eligible(table)]
    BY <1>1, <1>4, Zenon DEF select_with_bandwidth, vars, CallOK
  <2>3. \A d \in Conns : CallOK(d)'
    BY <1>1, <2>1, <2>2, Zenon DEF CallOK
  <2>4. QED
    BY <1>1, <2>1, <2>2, <2>3, Zenon
<1>5. ASSUME NEW c \in Conns, TryFirst(c)
      PROVE  /\ left' \in [Conns -> Lists] /\ \A d \in Conns : CallOK(d)'
             /\ table' \in [Allocators -> Rows]
             /\ updates' \in 0 .. MaxUpdates /\ calling' \subseteq Conns
  <2>1. PICK n \in Allocators :
           /\ First(left[c], n)
           /\ try_reserve(c, n, left[c][n].bandwidth_limit, Share(left[c][n]))
    BY <1>5, Zenon DEF TryFirst
  <2>2. /\ n \in DOMAIN left[c] /\ c \in calling
        /\ UNCHANGED <<table, updates, calling, left>>
    BY <1>5, <2>1, Zenon DEF First, TryFirst
  <2>3. /\ pc' = [pc EXCEPT ![c] = "load"] /\ alloc' = [alloc EXCEPT ![c] = n]
        /\ rate' = [rate EXCEPT ![c] = Share(left[c][n])]
    BY <2>1, SMTT(30) DEF try_reserve
  <2>4. \A d \in Conns : CallOK(d)'
    BY <1>1, <2>2, <2>3, SMTT(30) DEF CallOK, TypeOK
  <2>5. QED
    BY <1>1, <2>2, <2>4, Zenon
<1>6. ASSUME NEW c \in Conns, Reserving(c)
      PROVE  /\ left' \in [Conns -> Lists] /\ \A d \in Conns : CallOK(d)'
             /\ table' \in [Allocators -> Rows]
             /\ updates' \in 0 .. MaxUpdates /\ calling' \subseteq Conns
  <2>1. UNCHANGED <<table, updates, calling, left, alloc, rate>>
    BY <1>6, Zenon DEF Reserving, Load, ExchangeFails
  <2>2. \A d \in Conns : pc'[d] # "idle" => pc[d] # "idle"
    BY <1>1, <1>6, Zenon DEF Reserving, Load, ExchangeFails, TypeOK
  <2>3. QED
    BY <1>1, <2>1, <2>2, Zenon DEF CallOK
<1>7. ASSUME NEW c \in Conns, Selected(c)
      PROVE  /\ left' \in [Conns -> Lists] /\ \A d \in Conns : CallOK(d)'
             /\ table' \in [Allocators -> Rows]
             /\ updates' \in 0 .. MaxUpdates /\ calling' \subseteq Conns
  <2>1. /\ UNCHANGED <<table, updates, calling, alloc, rate>>
        /\ left' = [left EXCEPT ![c] = [n \in {alloc[c]} |-> left[c][n]]]
        /\ pc' = [pc EXCEPT ![c] = "held"] /\ pc[c] # "idle"
    BY <1>7, Zenon DEF Selected, compare_exchange_weak
  <2>2. /\ [n \in {alloc[c]} |-> left[c][n]] \in Lists
        /\ alloc[c] \in DOMAIN left[c] /\ left[c] \in Lists
    <3>1. alloc[c] \in DOMAIN left[c] /\ left[c] \in Lists
      BY <1>1, <2>1, Zenon DEF CallOK
    <3>2. PICK S \in SUBSET Allocators : left[c] \in [S -> Rows]
      BY <3>1, Zenon
    <3>3. [n \in {alloc[c]} |-> left[c][n]] \in Lists
      BY <3>1, <3>2, ListsAreRows, Zenon
    <3>4. QED
      BY <3>1, <3>3, Zenon
  <2>3. CallOK(c)'
    BY <1>1, <2>1, <2>2, Zenon DEF CallOK, TypeOK
  <2>4. \A d \in Conns \ {c} : CallOK(d)'
    BY <1>1, <2>1, Zenon DEF CallOK, TypeOK
  <2>5. left' \in [Conns -> Lists]
    BY <1>1, <2>1, <2>2, SMTT(30)
  <2>6. QED
    BY <1>1, <2>1, <2>3, <2>4, <2>5, Zenon
<1>8. ASSUME NEW c \in Conns, TryAnother(c)
      PROVE  /\ left' \in [Conns -> Lists] /\ \A d \in Conns : CallOK(d)'
             /\ table' \in [Allocators -> Rows]
             /\ updates' \in 0 .. MaxUpdates /\ calling' \subseteq Conns
  <2>1. /\ UNCHANGED <<table, updates, calling>>
        /\ left' = [left EXCEPT ![c] = Without(left[c], alloc[c])]
        /\ pc' = [pc EXCEPT ![c] = "idle"]
        /\ alloc' = [alloc EXCEPT ![c] = NoAllocator]
        /\ rate' = [rate EXCEPT ![c] = 0]
    BY <1>8, Zenon DEF TryAnother, ReturnNone
  <2>2. Without(left[c], alloc[c]) \in Lists
    <3>1. PICK S \in SUBSET Allocators : left[c] \in [S -> Rows]
      BY <1>1, SMTT(30)
    <3>2. QED
      BY <3>1, ListsAreRows, Zenon
  <2>3. \A d \in Conns : CallOK(d)'
    BY <1>1, <2>1, <2>2, SMTT(30) DEF CallOK, TypeOK
  <2>4. left' \in [Conns -> Lists]
    BY <1>1, <2>1, <2>2, Zenon
  <2>5. QED
    BY <1>1, <2>1, <2>3, <2>4, Zenon
<1>9. ASSUME NEW c \in Conns, NoneSelected(c)
      PROVE  /\ left' \in [Conns -> Lists] /\ \A d \in Conns : CallOK(d)'
             /\ table' \in [Allocators -> Rows]
             /\ updates' \in 0 .. MaxUpdates /\ calling' \subseteq Conns
  <2>1. /\ UNCHANGED <<pc, alloc, rate, table, updates, left>>
        /\ left[c] = NoRows /\ calling' = calling \ {c}
    BY <1>9, Zenon DEF NoneSelected, vars
  <2>2. DOMAIN left[c] = {}
    BY <2>1, SMTT(30) DEF NoRows
  <2>3. \A d \in Conns : CallOK(d)'
    BY <1>1, <2>1, <2>2, SMTT(30) DEF CallOK
  <2>4. QED
    BY <1>1, <2>1, <2>3, Zenon
<1>10. ASSUME NEW c \in Conns, ConnectionEnds(c)
       PROVE  /\ left' \in [Conns -> Lists] /\ \A d \in Conns : CallOK(d)'
              /\ table' \in [Allocators -> Rows]
              /\ updates' \in 0 .. MaxUpdates /\ calling' \subseteq Conns
  <2>1. /\ UNCHANGED <<table, updates>> /\ calling' = calling \ {c}
        /\ left' = [left EXCEPT ![c] = NoRows]
        /\ pc' = [pc EXCEPT ![c] = "idle"]
        /\ alloc' = [alloc EXCEPT ![c] = NoAllocator]
        /\ rate' = [rate EXCEPT ![c] = 0]
    BY <1>10, Zenon DEF ConnectionEnds, drop
  <2>2. NoRows \in Lists
    <3>1. NoRows \in [{} -> Rows] /\ {} \in SUBSET Allocators
      BY SMTT(30) DEF NoRows
    <3>2. QED
      BY <3>1, Zenon
  <2>3. \A d \in Conns : CallOK(d)'
    BY <1>1, <2>1, <2>2, SMTT(30) DEF CallOK, TypeOK
  <2>4. QED
    BY <1>1, <2>1, <2>2, <2>3, Zenon
<1>11. CASE UNCHANGED avars
  BY <1>1, <1>11, Zenon DEF avars, vars, CallOK
<1>12. QED
  BY <1>3, <1>4, <1>5, <1>6, <1>7, <1>8, <1>9, <1>10, <1>11, Zenon DEF ANext

-----------------------------------------------------------------------------
(* The counters, the callers and their lists keep their types, whatever    *)
(* the number of connections and nodes.                                    *)
THEOREM TypeCorrect == AdmissionSpec => []AdmissionTypeOK
<1>1. AInv => AdmissionTypeOK
  BY Zenon DEF AInv
<1>2. QED
  BY AInitInv, ANextInv, <1>1, PTL DEF AdmissionSpec

(* Racing callers and drops of bandwidth.rs never lose or double-count a   *)
(* reservation, whatever the number of connections and the rates.          *)
THEOREM CounterExact == AdmissionSpec => []CounterIsSum
<1>1. AInv => CounterIsSum
  BY TotalIsHeld, SMTT(30) DEF AInv, IInv, CounterIsSum
<1>2. QED
  BY AInitInv, ANextInv, <1>1, PTL DEF AdmissionSpec

(* The sum of the outstanding reservations never exceeds the ceiling.      *)
THEOREM NoOverCommit == AdmissionSpec => []NeverOverCommitted
<1>1. AInv => NeverOverCommitted
  BY TotalIsHeld, Zenon DEF AInv, IInv, NeverOverCommitted, Made
<1>2. QED
  BY AInitInv, ANextInv, <1>1, PTL DEF AdmissionSpec

(* A slice of the limit per slot: as many slices as slots fit the limit.   *)
LEMMA SharesFit ==
    ASSUME NEW limit_ \in Nat, NEW slots \in Nat \ {0}
    PROVE  /\ limit_ \div slots \in Nat
           /\ slots * (limit_ \div slots) <= limit_
  OBVIOUS

(* Guards that all hold the same rate hold it as often as there are guards. *)
LEMMA EqualShares ==
    ASSUME NEW D \in SUBSET Conns, NEW r \in [Conns -> Nat], NEW share \in Nat,
           \A d \in D : r[d] = share
    PROVE  /\ Cardinality(D) \in Nat
           /\ Cardinality(Abstract!Units(D, r)) = Cardinality(D) * share
<1>1. Abstract!Units(D, r) = D \X (1 .. share)
  BY DEF Abstract!Units
<1>2. IsFiniteSet(D) /\ Cardinality(D) \in Nat
  BY ConnsAssumption, FS_Subset, FS_CardinalityType, Zenon
<1>3. IsFiniteSet(1 .. share) /\ Cardinality(1 .. share) = share
  BY FS_Interval
<1>4. QED
  BY <1>1, <1>2, <1>3, FS_Product, Zenon

(* Arithmetic of a refusal: k guards and one more exceed the limit, but as *)
(* many as there are slots do not.                                         *)
LEMMA FullWhenRefused ==
    ASSUME NEW k \in Nat, NEW share \in Nat, NEW slots \in Nat, NEW l \in Nat,
           k * share + share > l, slots * share <= l
    PROVE  k >= slots
<1>1. SUFFICES ASSUME k + 1 <= slots PROVE FALSE
  OBVIOUS
<1>2. (k + 1) * share = k * share + share
  OBVIOUS
<1>3. (k + 1) * share <= slots * share
  <2>1. slots - (k + 1) \in Nat
    BY <1>1
  <2>2. (slots - (k + 1)) * share \in Nat
    BY <2>1
  <2>3. slots * share = (k + 1) * share + (slots - (k + 1)) * share
    OBVIOUS
  <2>4. (k + 1) * share \in Nat /\ slots * share \in Nat
    OBVIOUS
  <2>5. QED
    BY <2>2, <2>3, <2>4
<1>4. QED
  BY <1>2, <1>3

(* select_with_bandwidth passes over a node whose guards are all of the    *)
(* listed share only when every connection slot holds one: racing callers, *)
(* retries and the rounding of the share never waste a slot.               *)
THEOREM NoSlotWasted == AdmissionSpec => RefusalMeansFull
<1> DEFINE Full(c) ==
       pc[c] = "load" /\ pc'[c] = "refused" =>
          LET a == alloc[c]
              row == left[c][a]
              guards == {d \in Conns : pc[d] = "held" /\ alloc[d] = a}
          IN  /\ limit[a] = row.bandwidth_limit
              /\ row.bandwidth_limit >= row.max_connections
              /\ \A d \in guards : rate[d] = rate[c]
              => Cardinality(guards) >= row.max_connections
<1>1. AInv /\ [ANext]_avars => [\A c \in Conns : Full(c)]_avars
  <2>1. SUFFICES ASSUME AInv, [Next]_vars, NEW c \in Conns,
                        pc[c] = "load", pc'[c] = "refused",
                        limit[alloc[c]] = left[c][alloc[c]].bandwidth_limit,
                        left[c][alloc[c]].bandwidth_limit
                           >= left[c][alloc[c]].max_connections,
                        \A d \in Held(alloc[c]) : rate[d] = rate[c]
                 PROVE  Cardinality(Held(alloc[c]))
                           >= left[c][alloc[c]].max_connections
    BY CallSteps, Zenon DEF Held
  <2> HIDE DEF Full
  <2> DEFINE a == alloc[c]
             row == left[c][a]
             share == rate[c]
             k == Cardinality(Held(a))
  <2>2. /\ a \in Allocators /\ a \in DOMAIN left[c] /\ row \in Rows
        /\ rate \in [Conns -> Nat] /\ share \in Nat /\ limit[a] \in Nat
        /\ limit[a] <= MaxU64 /\ MaxU64 \in Nat /\ share = Share(row)
    <3>1. TypeOK /\ AdmissionTypeOK /\ pc[c] # "idle"
      BY <2>1, Zenon DEF AInv, IInv
    <3>2. a \in Allocators /\ limit[a] \in Limits
      BY <3>1, Zenon DEF TypeOK
    <3>3. limit[a] \in Nat /\ limit[a] <= MaxU64 /\ MaxU64 \in Nat
      <4>1. \A l \in Limits : l \in Nat /\ l <= MaxU64
        BY LimitAssumption
      <4>2. MaxU64 \in Nat
        BY LimitAssumption, Zenon
      <4>3. QED
        BY <3>2, <4>1, <4>2, Zenon
    <3>4. rate \in [Conns -> Nat] /\ share \in Nat
      BY <3>1, Zenon DEF TypeOK
    <3>5. a \in DOMAIN left[c] /\ row \in Rows
      BY <3>1, SMTT(30) DEF AdmissionTypeOK
    <3>6. share = Share(row)
      BY <2>1, <3>1, Zenon DEF AInv
    <3>7. QED
      BY <3>2, <3>3, <3>4, <3>5, <3>6, SMTT(30)
  <2>3. row.bandwidth_limit \in Nat /\ row.max_connections \in Nat
    BY <2>2, RowsAssumption, SMTT(30) DEF Row
  <2>4. ~Fits(a, share)
    <3>1. Load(c)
      BY <2>1, ZenonT(30)
      DEF Next, vars, try_reserve, Load, compare_exchange_weak, ExchangeFails,
          ReturnNone, drop, AInv, IInv, TypeOK
    <3>2. QED
      BY <2>1, <3>1, SMTT(30) DEF Load, AInv, IInv, TypeOK
  <2>5. k \in Nat /\ reserved[a] = k * share
    <3>1. Held(a) \in SUBSET Conns
      BY SMTT(30) DEF Held
    <3>2. k \in Nat /\ Cardinality(Abstract!Units(Held(a), rate)) = k * share
      BY <2>1, <2>2, <3>1, EqualShares, SMTT(30)
    <3>3. reserved[a] = Cardinality(Abstract!Units(Held(a), rate))
      BY <2>1, <2>2, SMTT(30) DEF AInv, IInv
    <3>4. QED
      BY <3>2, <3>3, Zenon
  <2>6. /\ limit[a] = row.bandwidth_limit
        /\ row.bandwidth_limit >= row.max_connections
    BY <2>1, Zenon
  <2> HIDE DEF a, row, share, k
  <2>7. k * share + share > limit[a]
    BY <2>2, <2>4, <2>5 DEF Fits
  <2>8. row.max_connections * share <= limit[a]
    <3>1. CASE row.max_connections = 0
      BY <2>2, <3>1
    <3>2. CASE row.max_connections # 0
      <4>1. /\ row.max_connections * (row.bandwidth_limit \div row.max_connections)
                 <= row.bandwidth_limit
            /\ row.bandwidth_limit \div row.max_connections \in Nat
        BY <2>3, <3>2, SharesFit, Zenon
      <4>2. CASE row.bandwidth_limit \div row.max_connections = 0
        <5>1. share = 1
          BY <2>2, <3>2, <4>2, Zenon DEF Share
        <5>2. QED
          BY <2>6, <2>2, <2>3, <5>1
      <4>3. CASE row.bandwidth_limit \div row.max_connections # 0
        <5>1. share = row.bandwidth_limit \div row.max_connections
          BY <2>2, <3>2, <4>3, Zenon DEF Share
        <5>2. QED
          BY <2>6, <4>1, <5>1, Zenon
      <4>4. QED
        BY <4>2, <4>3, Zenon
    <3>3. QED
      BY <3>1, <3>2, Zenon
  <2>9. k >= row.max_connections
    BY <2>2, <2>3, <2>5, <2>7, <2>8, FullWhenRefused, Zenon
  <2>10. QED
    BY <2>9, SMTT(30) DEF a, row, k
<1>2. QED
  BY AInitInv, ANextInv, <1>1, PTL DEF AdmissionSpec, RefusalMeansFull

(* Every step of the compare-exchange loop is a step of Reservations or    *)
(* changes nothing there: a refusal is decided by the load, a grant by the *)
(* exchange, each against the sum held at that moment.                     *)
THEOREM Linearizable == AdmissionSpec => ImplementsReservations
<1> USE LimitAssumption, KeyAssumption DEF Abstract!NoAllocator, NoAllocator
<1>1. AInit => Abstract!Init
  BY Zenon DEF AInit, Init, Abstract!Init, Status
<1>2. AInv /\ [ANext]_avars => [Abstract!Next]_<<Status, alloc, rate, limit>>
  <2> SUFFICES ASSUME IInv, [Next]_vars
               PROVE  Abstract!Next \/ UNCHANGED <<Status, alloc, rate, limit>>
    BY CallSteps, Zenon DEF AInv
  <2>0. /\ TypeOK /\ MaxU64 \in Nat
        /\ \A a \in Allocators : /\ Abstract!Total(a) = reserved[a]
                                 /\ reserved[a] \in Nat
        /\ \A c \in Conns : /\ rate[c] \in Nat
                            /\ pc[c] # "idle" => /\ alloc[c] \in Allocators
                                                 /\ limit[alloc[c]] \in 0 .. MaxU64
    <3>1. TypeOK /\ MaxU64 \in Nat
      BY Zenon DEF IInv
    <3>2. \A a \in Allocators : Abstract!Total(a) = reserved[a]
      BY <3>1, TotalIsHeld, Zenon DEF IInv
    <3>3. \A a \in Allocators : reserved[a] \in Nat
      BY <3>1 DEF TypeOK
    <3>4. \A c \in Conns : rate[c] \in Nat
      BY <3>1, Zenon DEF TypeOK
    <3>5. \A c \in Conns : pc[c] # "idle" => /\ alloc[c] \in Allocators
                                              /\ limit[alloc[c]] \in 0 .. MaxU64
      BY <3>1, Zenon DEF TypeOK
    <3>6. QED
      BY <3>1, <3>2, <3>3, <3>4, <3>5, Zenon
  <2>1. ASSUME NEW c \in Conns, NEW a \in Allocators, NEW l \in Limits,
               NEW r \in Rates, try_reserve(c, a, l, r)
        PROVE  Abstract!Ask(c)
    <3>1. Abstract!Moves(c, "idle", "asking")
      BY <2>0, <2>1, Zenon DEF try_reserve, Abstract!Moves, Status, TypeOK
    <3>2. QED
      BY <2>1, <3>1, Zenon DEF try_reserve, Abstract!Ask
  <2>2. ASSUME NEW c \in Conns, Load(c)
        PROVE  Abstract!Refuse(c) \/ UNCHANGED <<Status, alloc, rate, limit>>
    <3>1. UNCHANGED <<alloc, rate, limit>> /\ alloc[c] \in Allocators
      BY <2>0, <2>2, Zenon DEF Load, allocators
    <3>2. CASE Fits(alloc[c], rate[c])
      BY <2>0, <2>2, <3>1, <3>2, Zenon DEF Load, Status, TypeOK
    <3>3. CASE ~Fits(alloc[c], rate[c])
      <4>1. limit[alloc[c]] \in 0 .. MaxU64
        BY <2>0, <2>2, Zenon DEF Load
      <4>2. reserved[alloc[c]] + rate[c] > limit[alloc[c]]
        BY <2>0, <3>1, <3>3, <4>1 DEF Fits
      <4>3. Abstract!Moves(c, "asking", "refused")
        BY <2>0, <2>2, <3>3, Zenon DEF Load, Abstract!Moves, Status, TypeOK
      <4>4. QED
        BY <2>0, <3>1, <4>2, <4>3, Zenon DEF Abstract!Refuse
    <3>4. QED
      BY <3>2, <3>3, Zenon
  <2>3. ASSUME NEW c \in Conns, compare_exchange_weak(c)
        PROVE  Abstract!Grant(c)
    <3>1. /\ reserved[alloc[c]] + rate[c] <= limit[alloc[c]]
          /\ alloc[c] \in Allocators /\ UNCHANGED <<alloc, rate, limit>>
      BY <2>0, <2>3, Zenon DEF IInv, compare_exchange_weak
    <3>2. Abstract!Moves(c, "asking", "granted")
      BY <2>0, <2>3, Zenon
      DEF compare_exchange_weak, Abstract!Moves, Status, TypeOK
    <3>3. QED
      BY <2>0, <3>1, <3>2, Zenon DEF Abstract!Grant
  <2>4. ASSUME NEW c \in Conns, ExchangeFails(c)
        PROVE  UNCHANGED <<Status, alloc, rate, limit>>
    BY <2>0, <2>4, Zenon DEF ExchangeFails, Status, TypeOK, allocators
  <2>5. ASSUME NEW c \in Conns, ReturnNone(c) PROVE Abstract!Leave(c)
    BY <2>0, <2>5, Zenon
    DEF ReturnNone, Abstract!Leave, Abstract!Moves, Status, TypeOK, allocators
  <2>6. ASSUME NEW c \in Conns, drop(c) PROVE Abstract!Leave(c)
    BY <2>0, <2>6, Zenon DEF drop, Abstract!Leave, Abstract!Moves, Status, TypeOK
  <2>7. CASE UNCHANGED vars
    BY <2>7, Zenon DEF vars, allocators, Status
  <2>8. QED
    BY <2>1, <2>2, <2>3, <2>4, <2>5, <2>6, <2>7, SMTT(30) DEF Next, Abstract!Next
<1>3. QED
  BY <1>1, <1>2, AInitInv, ANextInv, PTL
  DEF AdmissionSpec, ImplementsReservations, Abstract!Spec

-----------------------------------------------------------------------------
(* The choice of a node.  Scores are fractions, compared by multiplying    *)
(* crosswise.                                                              *)
Positive == Nat \ {0}
Fractions == Positive \X Positive

(* A product grows with its factors.                                       *)
LEMMA ProductGrows ==
    ASSUME NEW x \in Positive, NEW y \in Positive, NEW z \in Positive,
           NEW w \in Positive, x <= y, z <= w
    PROVE  x * z <= y * w /\ (x < y \/ z < w => x * z < y * w)
<1> USE DEF Positive
<1>1. x * z <= y * z /\ (x < y => x * z < y * z)
  <2>1. PICK k \in Nat : y = x + k
    <3>1. y - x \in Nat /\ y = x + (y - x)
      OBVIOUS
    <3>2. QED
      BY <3>1, Zenon
  <2>2. y * z = x * z + k * z
    BY <2>1
  <2>3. k * z \in Nat /\ (k > 0 => k * z > 0) /\ x * z \in Nat
    OBVIOUS
  <2>4. QED
    BY <2>1, <2>2, <2>3
<1>2. y * z <= y * w /\ (z < w => y * z < y * w)
  <2>1. PICK k \in Nat : w = z + k
    <3>1. w - z \in Nat /\ w = z + (w - z)
      OBVIOUS
    <3>2. QED
      BY <3>1, Zenon
  <2>2. y * w = y * z + y * k
    BY <2>1
  <2>3. y * k \in Nat /\ (k > 0 => y * k > 0) /\ y * z \in Nat
    OBVIOUS
  <2>4. QED
    BY <2>1, <2>2, <2>3
<1>3. x * z \in Nat /\ y * z \in Nat /\ y * w \in Nat
  OBVIOUS
<1>4. QED
  BY <1>1, <1>2, <1>3

(* A factor larger on both sides may be cancelled.                         *)
LEMMA Cancel ==
    ASSUME NEW x \in Positive, NEW y \in Positive, NEW k \in Positive
    PROVE  /\ x * k < y * k <=> x < y
           /\ x * k <= y * k <=> x <= y
<1>1. x <= y => x * k <= y * k
  BY ProductGrows DEF Positive
<1>2. x < y => x * k < y * k
  BY ProductGrows DEF Positive
<1>3. y <= x => y * k <= x * k
  BY ProductGrows DEF Positive
<1>4. y < x => y * k < x * k
  BY ProductGrows DEF Positive
<1>5. x * k \in Nat /\ y * k \in Nat
  BY DEF Positive
<1>6. QED
  BY <1>1, <1>2, <1>3, <1>4, <1>5 DEF Positive

(* Positive fractions are ordered.                                         *)
LEMMA BelowTransitive ==
    ASSUME NEW f \in Fractions, NEW g \in Fractions, NEW h \in Fractions,
           ~Below(g, f), ~Below(h, g)
    PROVE  ~Below(h, f) /\ (Below(f, g) \/ Below(g, h) => Below(f, h))
<1>1. PICK a \in Positive, b \in Positive : f = <<a, b>>
  BY DEF Fractions
<1>2. PICK c \in Positive, d \in Positive : g = <<c, d>>
  BY DEF Fractions
<1>3. PICK p \in Positive, q \in Positive : h = <<p, q>>
  BY DEF Fractions
<1>4. /\ a * d \in Positive /\ c * b \in Positive /\ c * q \in Positive
      /\ p * d \in Positive /\ a * q \in Positive /\ p * b \in Positive
      /\ c * d \in Positive
  BY DEF Positive
<1>5. a * d <= c * b /\ c * q <= p * d
  BY <1>1, <1>2, <1>3, <1>4 DEF Below, Positive
<1>6. /\ (a * d) * (c * q) <= (c * b) * (p * d)
      /\ a * d < c * b \/ c * q < p * d
            => (a * d) * (c * q) < (c * b) * (p * d)
  BY <1>4, <1>5, ProductGrows, Zenon
<1>7. (a * d) * (c * q) = (a * q) * (c * d)
  BY <1>4 DEF Positive
<1>8. (c * b) * (p * d) = (p * b) * (c * d)
  BY <1>4 DEF Positive
<1>9. a * q <= p * b /\ (a * d < c * b \/ c * q < p * d => a * q < p * b)
  BY <1>4, <1>6, <1>7, <1>8, Cancel, Zenon
<1>10. QED
  BY <1>1, <1>2, <1>3, <1>4, <1>9 DEF Below, Positive

(* A product of positive fractions is one.                                 *)
LEMMA FractionTimes ==
    ASSUME NEW f \in Fractions, NEW g \in Fractions
    PROVE  Times(f, g) \in Fractions
<1>1. PICK a \in Positive, b \in Positive : f = <<a, b>>
  BY DEF Fractions
<1>2. PICK x \in Positive, y \in Positive : g = <<x, y>>
  BY DEF Fractions
<1>3. a * x \in Positive /\ b * y \in Positive
  BY DEF Positive
<1>4. QED
  BY <1>1, <1>2, <1>3, Zenon DEF Times, Fractions

(* A product grows with its factors, strictly if one of them does.         *)
LEMMA TimesGrows ==
    ASSUME NEW f \in Fractions, NEW g \in Fractions,
           NEW p \in Fractions, NEW q \in Fractions,
           ~Below(p, f), ~Below(q, g)
    PROVE  /\ Times(f, g) \in Fractions
           /\ ~Below(Times(p, q), Times(f, g))
           /\ Below(f, p) \/ Below(g, q) => Below(Times(f, g), Times(p, q))
<1>1. PICK a \in Positive, b \in Positive : f = <<a, b>>
  BY DEF Fractions
<1>2. PICK c \in Positive, d \in Positive : p = <<c, d>>
  BY DEF Fractions
<1>3. PICK x \in Positive, y \in Positive : g = <<x, y>>
  BY DEF Fractions
<1>4. PICK z \in Positive, w \in Positive : q = <<z, w>>
  BY DEF Fractions
<1>5. /\ a * d \in Positive /\ c * b \in Positive /\ x * w \in Positive
      /\ z * y \in Positive /\ a * x \in Positive /\ b * y \in Positive
      /\ c * z \in Positive /\ d * w \in Positive
  BY DEF Positive
<1>6. a * d <= c * b /\ x * w <= z * y
  BY <1>1, <1>2, <1>3, <1>4, <1>5 DEF Below, Positive
<1>7. /\ (a * d) * (x * w) <= (c * b) * (z * y)
      /\ a * d < c * b \/ x * w < z * y
            => (a * d) * (x * w) < (c * b) * (z * y)
  BY <1>5, <1>6, ProductGrows, Zenon
<1>8. (a * d) * (x * w) = (a * x) * (d * w)
  BY <1>5 DEF Positive
<1>9. (c * b) * (z * y) = (c * z) * (b * y)
  BY <1>5 DEF Positive
<1>10. Times(f, g) = <<a * x, b * y>> /\ Times(p, q) = <<c * z, d * w>>
  BY <1>1, <1>2, <1>3, <1>4, Zenon DEF Times
<1>11. Times(f, g) \in Fractions
  BY <1>5, <1>10 DEF Fractions
<1>12. /\ (a * x) * (d * w) \in Nat /\ (c * z) * (b * y) \in Nat
       /\ a * d \in Nat /\ c * b \in Nat /\ x * w \in Nat /\ z * y \in Nat
  BY <1>5 DEF Positive
<1>13. /\ ~Below(Times(p, q), Times(f, g))
       /\ Below(f, p) \/ Below(g, q) => Below(Times(f, g), Times(p, q))
  BY <1>1, <1>2, <1>3, <1>4, <1>7, <1>8, <1>9, <1>10, <1>12 DEF Below
<1>14. QED
  BY <1>11, <1>13, Zenon

(* One plus each factor of a row's score.                                  *)
Health(row) == Times(<<100, 1>>, health_factor(row.state))
Capacity(row) == OnePlus(capacity_factor(row))
Latency(row) == OnePlus(latency_factor(row.latency_ms))
Bandwidth(row) == OnePlus(bandwidth_factor(row))

(* The share of slots in use is a fraction at most 1, and one plus the     *)
(* free share is the factor of both the capacity and the bandwidth.        *)
LEMMA FactorsOfUse ==
    ASSUME NEW row \in Row
    PROVE  \E a \in Nat, b \in Positive, k \in Positive :
              /\ a <= b /\ bandwidth_utilization(row) = <<a, b>>
              /\ Bandwidth(row) = <<b + b - a, b>>
              /\ Capacity(row) = <<(b + b - a) * k, b * k>>
<1> DEFINE m == row.max_connections
           u == row.active_connections
<1>1. m \in Nat /\ u \in Nat
  BY Zenon DEF Row
<1>2. CASE u < m
  <2>1. bandwidth_utilization(row) = <<u, m>> /\ m \in Positive
    BY <1>1, <1>2 DEF bandwidth_utilization, Positive
  <2>2. Bandwidth(row) = <<m + m - u, m>>
    BY <1>1, <2>1 DEF Bandwidth, bandwidth_factor, OnePlus
  <2>3. Capacity(row) = <<(m + m - u) * 1, m * 1>>
    BY <1>1, <1>2 DEF Capacity, capacity_factor, available_capacity, OnePlus
  <2>4. QED
    BY <1>1, <1>2, <2>1, <2>2, <2>3 DEF Positive
<1>3. CASE u >= m
  <2>1. bandwidth_utilization(row) = <<1, 1>>
    BY <1>3, Zenon DEF bandwidth_utilization
  <2>2. Bandwidth(row) = <<1 + 1 - 1, 1>>
    BY <2>1 DEF Bandwidth, bandwidth_factor, OnePlus
  <2>3. PICK k \in Positive : Capacity(row) = <<k, k>>
    <3>1. CASE m = 0
      BY <3>1 DEF Capacity, capacity_factor, OnePlus, Positive
    <3>2. CASE m # 0
      BY <1>1, <1>3, <3>2 DEF Capacity, capacity_factor, available_capacity,
                              OnePlus, Positive
    <3>3. QED
      BY <3>1, <3>2, Zenon
  <2>4. Capacity(row) = <<(1 + 1 - 1) * k, 1 * k>>
    BY <2>3 DEF Positive
  <2>5. 1 \in Nat /\ 1 \in Positive /\ 1 <= 1
    BY DEF Positive
  <2>6. QED
    BY <2>1, <2>2, <2>4, <2>5, Zenon
<1>4. QED
  BY <1>1, <1>2, <1>3

(* Of two rows, the one with the smaller share in use has the larger       *)
(* factors.                                                                *)
LEMMA LessUsed ==
    ASSUME NEW p \in Row, NEW q \in Row,
           ~Below(bandwidth_utilization(q), bandwidth_utilization(p))
    PROVE  /\ Bandwidth(p) \in Fractions /\ Bandwidth(q) \in Fractions
           /\ Capacity(p) \in Fractions /\ Capacity(q) \in Fractions
           /\ ~Below(Bandwidth(p), Bandwidth(q))
           /\ ~Below(Capacity(p), Capacity(q))
           /\ Below(bandwidth_utilization(p), bandwidth_utilization(q))
                 => Below(Bandwidth(q), Bandwidth(p))
<1>1. PICK a \in Nat, b \in Positive, k \in Positive :
              /\ a <= b /\ bandwidth_utilization(p) = <<a, b>>
              /\ Bandwidth(p) = <<b + b - a, b>>
              /\ Capacity(p) = <<(b + b - a) * k, b * k>>
  BY FactorsOfUse, Zenon
<1>2. PICK c \in Nat, d \in Positive, h \in Positive :
              /\ c <= d /\ bandwidth_utilization(q) = <<c, d>>
              /\ Bandwidth(q) = <<d + d - c, d>>
              /\ Capacity(q) = <<(d + d - c) * h, d * h>>
  BY FactorsOfUse, Zenon
<1>3. a * d <= c * b
  BY <1>1, <1>2 DEF Below, Positive
<1>4. PICK x \in Positive, y \in Positive : x = b + b - a /\ y = d + d - c
  <2>1. b + b - a \in Positive /\ d + d - c \in Positive
    BY <1>1, <1>2 DEF Positive
  <2>2. QED
    BY <2>1, Zenon
<1>5. x * d = b * d + b * d - a * d /\ y * b = b * d + b * d - c * b
  BY <1>1, <1>2, <1>4 DEF Positive
<1>6. /\ x * d \in Positive /\ y * b \in Positive /\ k * h \in Positive
      /\ x * k \in Positive /\ y * h \in Positive /\ b * k \in Positive
      /\ d * h \in Positive /\ a * d \in Nat /\ c * b \in Nat /\ b * d \in Nat
  BY DEF Positive
<1>7. y * b <= x * d /\ (a * d < c * b => y * b < x * d)
  BY <1>3, <1>5, <1>6
<1>8. (y * b) * (k * h) <= (x * d) * (k * h)
  BY <1>6, <1>7, Cancel, Zenon
<1>9. /\ (y * b) * (k * h) = (y * h) * (b * k)
      /\ (x * d) * (k * h) = (x * k) * (d * h)
  BY DEF Positive
<1>10. /\ Bandwidth(p) = <<x, b>> /\ Bandwidth(q) = <<y, d>>
       /\ Capacity(p) = <<x * k, b * k>> /\ Capacity(q) = <<y * h, d * h>>
  BY <1>1, <1>2, <1>4, Zenon
<1>11. /\ Bandwidth(p) \in Fractions /\ Bandwidth(q) \in Fractions
       /\ Capacity(p) \in Fractions /\ Capacity(q) \in Fractions
  BY <1>6, <1>10 DEF Fractions
<1>12. ~Below(Bandwidth(p), Bandwidth(q))
  BY <1>6, <1>7, <1>10 DEF Below, Positive
<1>13. ~Below(Capacity(p), Capacity(q))
  BY <1>6, <1>8, <1>9, <1>10 DEF Below, Positive
<1>14. Below(<<a, b>>, <<c, d>>) => Below(<<y, d>>, <<x, b>>)
  BY <1>7, Zenon DEF Below
<1>15. QED
  BY <1>1, <1>2, <1>10, <1>11, <1>12, <1>13, <1>14, Zenon

(* The latency factor falls as the latency rises.                          *)
LEMMA LessLatency ==
    ASSUME NEW p \in Row, NEW q \in Row, p.latency_ms <= q.latency_ms
    PROVE  /\ Latency(p) \in Fractions /\ Latency(q) \in Fractions
           /\ ~Below(Latency(p), Latency(q))
           /\ p.latency_ms < q.latency_ms => Below(Latency(q), Latency(p))
<1>1. PICK x \in Nat, y \in Nat : x = p.latency_ms /\ y = q.latency_ms
  BY Zenon DEF Row
<1>2. Latency(p) = <<1 + x + 1, 1 + x>> /\ Latency(q) = <<1 + y + 1, 1 + y>>
  BY <1>1, Zenon DEF Latency, latency_factor, OnePlus
<1>3. (1 + y + 1) * (1 + x) <= (1 + x + 1) * (1 + y)
      /\ (x < y => (1 + y + 1) * (1 + x) < (1 + x + 1) * (1 + y))
  <2>1. /\ (1 + y + 1) * (1 + x) = 2 + y + (x + x) + y * x
        /\ (1 + x + 1) * (1 + y) = 2 + x + (y + y) + y * x
        /\ y * x \in Nat
    OBVIOUS
  <2>2. QED
    BY <1>1, <2>1
<1>4. Latency(p) \in Fractions /\ Latency(q) \in Fractions
  BY <1>2 DEF Fractions, Positive
<1>5. (1 + y + 1) * (1 + x) \in Nat /\ (1 + x + 1) * (1 + y) \in Nat
  OBVIOUS
<1>6. ~Below(Latency(p), Latency(q)) /\ (x < y => Below(Latency(q), Latency(p)))
  BY <1>2, <1>3, <1>5 DEF Below
<1>7. QED
  BY <1>1, <1>4, <1>6, Zenon

(* The health score of a healthy row is above that of a degraded one.      *)
LEMMA Healthier ==
    ASSUME NEW p \in Row, NEW q \in Row,
           is_selectable(p.state), is_selectable(q.state),
           p.state = "healthy" \/ q.state = "degraded"
    PROVE  /\ Health(p) \in Fractions /\ Health(q) \in Fractions
           /\ ~Below(Health(p), Health(q))
           /\ p.state # q.state => Below(Health(q), Health(p))
<1>1. ASSUME NEW row \in Row, is_selectable(row.state)
      PROVE  /\ row.state = "healthy" => Health(row) = <<100, 1>>
             /\ row.state = "degraded" => Health(row) = <<100, 2>>
             /\ row.state = "healthy" \/ row.state = "degraded"
  BY <1>1 DEF is_selectable, Health, health_factor, Times
<1>2. <<100, 1>> \in Fractions /\ <<100, 2>> \in Fractions
  BY DEF Fractions, Positive
<1>3. /\ Below(<<100, 2>>, <<100, 1>>) /\ ~Below(<<100, 1>>, <<100, 2>>)
      /\ ~Below(<<100, 1>>, <<100, 1>>) /\ ~Below(<<100, 2>>, <<100, 2>>)
  BY DEF Below
<1>4. QED
  BY <1>1, <1>2, <1>3

(* A row that is no worse in any respect has no lower score, and a higher  *)
(* one when it is better in one.                                           *)
LEMMA BetterScoresHigher ==
    ASSUME NEW p \in Row, NEW q \in Row,
           is_selectable(p.state), is_selectable(q.state), Dominates(p, q)
    PROVE  Below(score(q), score(p))
<1>1. /\ p.state = "healthy" \/ q.state = "degraded"
      /\ ~Below(bandwidth_utilization(q), bandwidth_utilization(p))
      /\ p.latency_ms <= q.latency_ms
      /\ \/ p.state # q.state
         \/ Below(bandwidth_utilization(p), bandwidth_utilization(q))
         \/ p.latency_ms < q.latency_ms
  BY Zenon DEF Dominates
<1>2. /\ Health(p) \in Fractions /\ Health(q) \in Fractions
      /\ ~Below(Health(p), Health(q))
      /\ p.state # q.state => Below(Health(q), Health(p))
  BY <1>1, Healthier, Zenon
<1>3. /\ Bandwidth(p) \in Fractions /\ Bandwidth(q) \in Fractions
      /\ Capacity(p) \in Fractions /\ Capacity(q) \in Fractions
      /\ ~Below(Bandwidth(p), Bandwidth(q))
      /\ ~Below(Capacity(p), Capacity(q))
      /\ Below(bandwidth_utilization(p), bandwidth_utilization(q))
            => Below(Bandwidth(q), Bandwidth(p))
  BY <1>1, LessUsed, Zenon
<1>4. /\ Latency(p) \in Fractions /\ Latency(q) \in Fractions
      /\ ~Below(Latency(p), Latency(q))
      /\ p.latency_ms < q.latency_ms => Below(Latency(q), Latency(p))
  BY <1>1, LessLatency, Zenon
<1> DEFINE LB(r) == Times(Latency(r), Bandwidth(r))
           CLB(r) == Times(Capacity(r), LB(r))
<1>5. /\ LB(p) \in Fractions /\ LB(q) \in Fractions /\ ~Below(LB(p), LB(q))
      /\ Below(Latency(q), Latency(p)) \/ Below(Bandwidth(q), Bandwidth(p))
            => Below(LB(q), LB(p))
  BY <1>3, <1>4, TimesGrows, FractionTimes, Zenon
<1> HIDE DEF LB
<1>6. /\ CLB(p) \in Fractions /\ CLB(q) \in Fractions /\ ~Below(CLB(p), CLB(q))
      /\ Below(LB(q), LB(p)) => Below(CLB(q), CLB(p))
  BY <1>3, <1>5, TimesGrows, FractionTimes, Zenon
<1> HIDE DEF CLB
<1>7. Below(Health(q), Health(p)) \/ Below(CLB(q), CLB(p))
         => Below(Times(Health(q), CLB(q)), Times(Health(p), CLB(p)))
  BY <1>2, <1>6, TimesGrows, Zenon
<1>8. /\ score(p) = Times(Health(p), CLB(p))
      /\ score(q) = Times(Health(q), CLB(q))
  BY Zenon DEF score, Health, CLB, LB, Capacity, Latency, Bandwidth
<1>9. QED
  BY <1>1, <1>2, <1>3, <1>4, <1>5, <1>6, <1>7, <1>8, Zenon

(* The score of a selectable row is positive.                              *)
LEMMA ScoreIsFraction ==
    ASSUME NEW p \in Row, is_selectable(p.state)
    PROVE  score(p) \in Fractions
<1>1. ~Below(bandwidth_utilization(p), bandwidth_utilization(p))
  <2>1. PICK a \in Nat, b \in Positive : bandwidth_utilization(p) = <<a, b>>
    BY FactorsOfUse, Zenon
  <2>2. a * b \in Nat
    BY DEF Positive
  <2>3. QED
    BY <2>1, <2>2 DEF Below
<1>2. Bandwidth(p) \in Fractions /\ Capacity(p) \in Fractions
  BY <1>1, LessUsed, Zenon
<1>3. Latency(p) \in Fractions
  <2>1. p.latency_ms <= p.latency_ms
    BY DEF Row
  <2>2. QED
    BY <2>1, LessLatency, Zenon
<1>4. Health(p) \in Fractions
  <2>1. p.state = "healthy" \/ p.state = "degraded"
    BY Zenon DEF is_selectable
  <2>2. QED
    BY <2>1, Healthier, Zenon
<1>5. Times(Capacity(p), Times(Latency(p), Bandwidth(p))) \in Fractions
  BY <1>2, <1>3, FractionTimes, Zenon
<1>6. Times(Health(p), Times(Capacity(p), Times(Latency(p), Bandwidth(p))))
         \in Fractions
  BY <1>4, <1>5, FractionTimes, Zenon
<1>7. QED
  BY <1>6, Zenon DEF score, Health, Capacity, Latency, Bandwidth

TotalOrder(R, D) ==
    /\ \A x \in D : <<x, x>> \notin R
    /\ \A x, y, z \in D : <<x, y>> \in R /\ <<y, z>> \in R => <<x, z>> \in R
    /\ \A x, y \in D : x = y \/ <<x, y>> \in R \/ <<y, x>> \in R

(* A strict order of a finite set that compares any two members has a      *)
(* first one: the member with the smallest set of predecessors has none.   *)
LEMMA HasFirst ==
    ASSUME NEW D, IsFiniteSet(D), D # {}, NEW R, TotalOrder(R, D)
    PROVE  \E n \in D : \A m \in D \ {n} : <<n, m>> \in R
<1> DEFINE Before(x) == {y \in D : <<y, x>> \in R}
           T == {Before(x) : x \in D}
<1>1. IsWellFoundedOn(StrictSubsetOrdering(D), FiniteSubsetsOf(D))
  BY FS_StrictSubsetOrderingWellFounded, Zenon
<1>2. FiniteSubsetsOf(D) = SUBSET D
  BY FS_FiniteSubsetsOfFinite, Zenon
<1>3. T \subseteq SUBSET D /\ T # {} /\ \A x \in D : Before(x) \in T
  <2>1. \A x \in D : Before(x) \in T
    BY Zenon
  <2>2. \A x \in D : Before(x) \in SUBSET D
    BY Zenon
  <2>3. T \subseteq SUBSET D
    BY <2>2, Zenon
  <2>4. QED
    BY <2>1, <2>3, Zenon
<1>4. PICK s \in T : \A t \in T : ~(<<t, s>> \in StrictSubsetOrdering(D))
  <2>1. IsWellFoundedOn(StrictSubsetOrdering(D), SUBSET D)
    BY <1>1, <1>2, Zenon
  <2> HIDE DEF T
  <2>2. QED
    BY <2>1, <1>3, WFMin, Zenon
<1>5. PICK n \in D : s = Before(n)
  BY <1>4, Zenon
<1>6. ASSUME NEW m \in D \ {n} PROVE <<n, m>> \in R
  <2>1. SUFFICES ASSUME <<n, m>> \notin R PROVE FALSE
    OBVIOUS
  <2>2. <<m, n>> \in R
    BY <2>1, Zenon DEF TotalOrder
  <2>3. Before(m) \subseteq Before(n) /\ m \in Before(n) /\ m \notin Before(m)
    BY <2>2, Zenon DEF TotalOrder
  <2>4. Before(m) \in T /\ Before(m) \in SUBSET D /\ Before(n) \in SUBSET D
    BY <1>3, Zenon
  <2>5. <<Before(m), Before(n)>> \in StrictSubsetOrdering(D)
    BY <2>3, <2>4, Zenon DEF StrictSubsetOrdering
  <2>6. QED
    BY <1>4, <1>5, <2>4, <2>5, Zenon
<1>7. QED
  BY <1>6, Zenon

(* The rows of a list that may be chosen.                                  *)
Choosable(rows) ==
    /\ DOMAIN rows \subseteq Allocators
    /\ \A n \in DOMAIN rows : rows[n] \in Row /\ is_selectable(rows[n].state)

(* Of two rows, the one that is beaten or, at equal scores, comes later is *)
(* behind; `Tie' tells which of two equal rows comes first.                *)
LEMMA BeatsIsOrder ==
    ASSUME NEW rows, Choosable(rows), NEW n \in DOMAIN rows,
           NEW m \in DOMAIN rows, NEW k \in DOMAIN rows
    PROVE  /\ ~Beats(rows, n, n)
           /\ ~(Beats(rows, n, m) /\ Beats(rows, m, n))
           /\ ~Beats(rows, m, n) /\ ~Beats(rows, k, m)
                 => /\ ~Beats(rows, k, n)
                    /\ Beats(rows, n, m) \/ Beats(rows, m, k) => Beats(rows, n, k)
<1>1. /\ score(rows[n]) \in Fractions /\ score(rows[m]) \in Fractions
      /\ score(rows[k]) \in Fractions
  BY ScoreIsFraction, Zenon DEF Choosable
<1>2. ASSUME NEW f \in Fractions, NEW g \in Fractions
      PROVE  ~Below(f, f) /\ ~(Below(f, g) /\ Below(g, f))
  <2>1. PICK a \in Positive, b \in Positive : f = <<a, b>>
    BY DEF Fractions
  <2>2. PICK c \in Positive, d \in Positive : g = <<c, d>>
    BY DEF Fractions
  <2>3. a * b \in Nat /\ a * d \in Nat /\ c * b \in Nat
    BY DEF Positive
  <2>4. QED
    BY <2>1, <2>2, <2>3 DEF Below
<1>3. ~Beats(rows, n, n) /\ ~(Beats(rows, n, m) /\ Beats(rows, m, n))
  BY <1>1, <1>2, Zenon DEF Beats
<1>4. ASSUME ~Beats(rows, m, n), ~Beats(rows, k, m)
      PROVE  /\ ~Beats(rows, k, n)
             /\ Beats(rows, n, m) \/ Beats(rows, m, k) => Beats(rows, n, k)
  BY <1>1, <1>4, BelowTransitive, Zenon DEF Beats
<1>5. QED
  BY <1>3, <1>4, Zenon

(* n comes before m in a list ordered by falling score, where the smaller  *)
(* or the larger id comes first among equal scores.                        *)
Ahead(rows, smaller, n, m) ==
    \/ Beats(rows, n, m)
    \/ ~Beats(rows, m, n) /\ IF smaller THEN n < m ELSE m < n

(* A list that is not empty has a row ahead of all others.                 *)
LEMMA SomeAhead ==
    ASSUME NEW rows, Choosable(rows), DOMAIN rows # {}, NEW smaller \in BOOLEAN
    PROVE  \E n \in DOMAIN rows :
              \A m \in DOMAIN rows \ {n} : Ahead(rows, smaller, n, m)
<1> DEFINE D == DOMAIN rows
           R == {p \in D \X D : Ahead(rows, smaller, p[1], p[2])}
<1>1. D \subseteq Allocators /\ D \subseteq Nat /\ IsFiniteSet(D)
  <2>1. D \subseteq Allocators
    BY Zenon DEF Choosable
  <2>2. QED
    BY <2>1, FS_Subset, RowsAssumption, ListAssumption, Zenon
<1>2. \A x, y \in D : <<x, y>> \in R <=> Ahead(rows, smaller, x, y)
  OBVIOUS
<1>3. \A x \in D : ~Ahead(rows, smaller, x, x)
  BY <1>1, BeatsIsOrder DEF Ahead
<1>4. ASSUME NEW x \in D, NEW y \in D, NEW z \in D,
             Ahead(rows, smaller, x, y), Ahead(rows, smaller, y, z)
      PROVE  Ahead(rows, smaller, x, z)
  <2>1. /\ ~(Beats(rows, x, y) /\ Beats(rows, y, x))
        /\ ~(Beats(rows, y, z) /\ Beats(rows, z, y))
    BY BeatsIsOrder, Zenon
  <2>2. ~Beats(rows, y, x) /\ ~Beats(rows, z, y)
    BY <1>4, <2>1, Zenon DEF Ahead
  <2>3. /\ ~Beats(rows, z, x)
        /\ Beats(rows, x, y) \/ Beats(rows, y, z) => Beats(rows, x, z)
    BY <2>2, BeatsIsOrder, Zenon
  <2>4. CASE ~Beats(rows, x, y) /\ ~Beats(rows, y, z)
    <3>1. /\ IF smaller THEN x < y ELSE y < x
          /\ IF smaller THEN y < z ELSE z < y
      BY <1>4, <2>4, Zenon DEF Ahead
    <3>2. x \in Nat /\ y \in Nat /\ z \in Nat
      BY <1>1, Zenon
    <3>3. IF smaller THEN x < z ELSE z < x
      BY <3>1, <3>2
    <3>4. QED
      BY <2>3, <3>3, Zenon DEF Ahead
  <2>5. QED
    BY <2>3, <2>4, Zenon DEF Ahead
<1>5. ASSUME NEW x \in D, NEW y \in D, x # y
      PROVE  Ahead(rows, smaller, x, y) \/ Ahead(rows, smaller, y, x)
  <2>1. x < y \/ y < x
    BY <1>1, <1>5
  <2>2. QED
    BY <2>1, Zenon DEF Ahead
<1>6. \E n \in D : \A m \in D \ {n} : <<n, m>> \in R
  <2> HIDE DEF R, D
  <2>1. D # {} /\ IsFiniteSet(D)
    BY <1>1, Zenon DEF D
  <2>2. \A x \in D : <<x, x>> \notin R
    BY <1>2, <1>3, Zenon
  <2>3. \A x, y, z \in D : <<x, y>> \in R /\ <<y, z>> \in R => <<x, z>> \in R
    BY <1>2, <1>4, Zenon
  <2>4. \A x, y \in D : x = y \/ <<x, y>> \in R \/ <<y, x>> \in R
    BY <1>2, <1>5, Zenon
  <2>5. TotalOrder(R, D)
    BY <2>2, <2>3, <2>4, Zenon DEF TotalOrder
  <2>6. QED
    BY <2>1, <2>5, HasFirst, Zenon
<1>7. QED
  BY <1>2, <1>6, Zenon

(* The row that comes first is dominated by none.                          *)
LEMMA AheadChoosesWell ==
    ASSUME NEW rows, Choosable(rows), NEW smaller \in BOOLEAN
    PROVE  ChoosesWell(rows, {n \in Allocators :
              /\ n \in DOMAIN rows
              /\ \A m \in DOMAIN rows \ {n} : Ahead(rows, smaller, n, m)})
<1> DEFINE chosen == {n \in Allocators :
              /\ n \in DOMAIN rows
              /\ \A m \in DOMAIN rows \ {n} : Ahead(rows, smaller, n, m)}
<1>1. DOMAIN rows \subseteq Allocators
  BY Zenon DEF Choosable
<1>2. DOMAIN rows # {} => chosen # {}
  BY <1>1, SomeAhead, Zenon
<1>3. ASSUME NEW k \in chosen, NEW n \in DOMAIN rows, Dominates(rows[n], rows[k])
      PROVE  FALSE
  <2>1. k \in DOMAIN rows /\ (n # k => Ahead(rows, smaller, k, n))
    BY Zenon
  <2>2. Beats(rows, n, k)
    BY <1>3, <2>1, BetterScoresHigher, Zenon DEF Choosable, Beats
  <2>3. n # k /\ ~Beats(rows, k, n)
    BY <2>1, <2>2, BeatsIsOrder, Zenon
  <2>4. QED
    BY <2>1, <2>2, <2>3, Zenon DEF Ahead
<1>4. QED
  BY <1>2, <1>3, Zenon DEF ChoosesWell

(* What select_with_bandwidth tries next, and what select returns.         *)
LEMMA FirstChoosesWell ==
    ASSUME NEW rows, Choosable(rows)
    PROVE  ChoosesWell(rows, {n \in Allocators : First(rows, n)})
<1>1. {n \in Allocators : First(rows, n)}
        = {n \in Allocators :
              /\ n \in DOMAIN rows
              /\ \A m \in DOMAIN rows \ {n} : Ahead(rows, TRUE, n, m)}
  BY Zenon DEF First, Ahead
<1>2. QED
  BY <1>1, AheadChoosesWell, Zenon

(* Selecting from the eligible rows of the table chooses well.             *)
LEMMA SelectChoosesWell ==
    ASSUME NEW rows \in [Allocators -> Rows]
    PROVE  ChoosesWell(Eligible(rows), {n \in Allocators : select(rows, n)})
<1>1. /\ Choosable(Eligible(rows))
      /\ \A n \in DOMAIN Eligible(rows) : Eligible(rows)[n] = rows[n]
  BY RowsAssumption, Zenon DEF Choosable, Eligible
<1>2. \A n, m \in DOMAIN Eligible(rows) :
         Beats(rows, n, m) <=> Beats(Eligible(rows), n, m)
  BY <1>1, Zenon DEF Beats
<1>3. {n \in Allocators : select(rows, n)}
        = {n \in Allocators :
              /\ n \in DOMAIN Eligible(rows)
              /\ \A m \in DOMAIN Eligible(rows) \ {n} :
                    Ahead(Eligible(rows), FALSE, n, m)}
  BY <1>2, Zenon DEF select, Ahead
<1>4. QED
  BY <1>1, <1>3, AheadChoosesWell, Zenon

(* Every list holds selectable rows only.                                  *)
ListInv == \A c \in Conns : Choosable(left[c])

(* No step puts another row on a list.                                     *)
LEMMA ListStep == AInv /\ ListInv /\ [ANext]_avars => ListInv'
<1> SUFFICES ASSUME AInv, ListInv, [ANext]_avars PROVE ListInv'
  OBVIOUS
<1> USE DEF ListInv
<1>0. table \in [Allocators -> Rows] /\ DOMAIN left = Conns
  BY Zenon DEF AInv, AdmissionTypeOK
<1>1. ASSUME left' = left PROVE ListInv'
  BY <1>1, Zenon DEF Choosable
<1>2. ASSUME NEW c \in Conns, NEW rows, Choosable(rows),
             left' = [left EXCEPT ![c] = rows]
      PROVE  ListInv'
  BY <1>0, <1>2, Zenon DEF Choosable
<1>3. ASSUME NEW c \in Conns, select_with_bandwidth(c) PROVE ListInv'
  <2>1. Choosable(Eligible(table))
    BY <1>0, RowsAssumption, Zenon DEF Choosable, Eligible
  <2>2. QED
    BY <1>2, <1>3, <2>1, Zenon DEF select_with_bandwidth
<1>4. ASSUME NEW c \in Conns, Selected(c) PROVE ListInv'
  <2>1. alloc[c] \in DOMAIN left[c]
    BY <1>4, Zenon DEF AInv, AdmissionTypeOK, Selected, compare_exchange_weak
  <2>2. Choosable([n \in {alloc[c]} |-> left[c][n]])
    BY <2>1, Zenon DEF Choosable
  <2>3. QED
    BY <1>2, <1>4, <2>2, Zenon DEF Selected
<1>5. ASSUME NEW c \in Conns, TryAnother(c) PROVE ListInv'
  <2>1. Choosable(Without(left[c], alloc[c]))
    BY Zenon DEF Choosable, Without
  <2>2. QED
    BY <1>2, <1>5, <2>1, Zenon DEF TryAnother
<1>6. ASSUME NEW c \in Conns, ConnectionEnds(c) PROVE ListInv'
  <2>1. Choosable(NoRows)
    BY Zenon DEF Choosable, NoRows
  <2>2. QED
    BY <1>2, <1>6, <2>1, Zenon DEF ConnectionEnds
<1>7. ASSUME NEW c \in Conns, TryFirst(c) \/ Reserving(c) \/ NoneSelected(c)
      PROVE  ListInv'
  BY <1>1, <1>7, Zenon DEF TryFirst, Reserving, NoneSelected
<1>8. ASSUME NEW n \in Allocators, UpdateRow(n) PROVE ListInv'
  BY <1>1, <1>8, Zenon DEF UpdateRow
<1>9. CASE UNCHANGED avars
  BY <1>1, <1>9, Zenon DEF avars
<1>10. QED
  BY <1>3, <1>4, <1>5, <1>6, <1>7, <1>8, <1>9, Zenon DEF ANext

(* HealthAwareSelector::select and select_with_bandwidth (routing.rs,      *)
(* service.rs) find a node exactly when a selectable one is listed, and    *)
(* never one that another row dominates, for any table of rows.            *)
THEOREM ChoiceIsSound == AdmissionSpec => []NoDominatedChoice
<1>1. AInit => ListInv
  <2>1. Choosable(NoRows)
    BY Zenon DEF Choosable, NoRows
  <2>2. QED
    BY <2>1, Zenon DEF AInit, ListInv
<1>2. AInv /\ ListInv => NoDominatedChoice
  <2> SUFFICES ASSUME AInv, ListInv PROVE NoDominatedChoice
    OBVIOUS
  <2>1. ChoosesWell(Eligible(table), {n \in Allocators : select(table, n)})
    BY SelectChoosesWell, Zenon DEF AInv, AdmissionTypeOK
  <2>2. \A c \in Conns :
           ChoosesWell(left[c], {n \in Allocators : First(left[c], n)})
    BY FirstChoosesWell, Zenon DEF ListInv
  <2>3. QED
    BY <2>1, <2>2, Zenon DEF NoDominatedChoice
<1>3. QED
  BY AInitInv, ANextInv, ListStep, <1>1, <1>2, PTL DEF AdmissionSpec
=============================================================================
