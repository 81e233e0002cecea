--------------------------- MODULE SessionProofs ----------------------------
(***************************************************************************)
(* Theorems about Session, for every memory, number of points and text     *)
(* that the user may type.                                                 *)
(***************************************************************************)
EXTENDS Session, WellFoundedInduction, TLAPS

\* ListedIsInForce of a set P of points, traps t and registers sl.
HardOf(P) == {p \in P : p.enabled /\ Hardware(p)}
SoftOf(P) == {p \in P : p.enabled /\ ~Hardware(p)}

InForceOf(P, t, sl) ==
    /\ t = {p.address : p \in SoftOf(P)}
    /\ \A p \in HardOf(P) : p.slot \in Slots /\ sl[p.slot] = <<p.kind, p.address>>
    /\ \A p, q \in HardOf(P) : p.slot = q.slot => p = q
    /\ \A s \in Slots : sl[s] # None => \E p \in HardOf(P) : p.slot = s

\* An id or an address is one point, of a kind; sites are at instructions.
Proper(P) ==
    /\ P \subseteq Points
    /\ \A p, q \in P : p.kind = q.kind /\ (p.id = q.id \/ p.address = q.address) => p = q
    /\ \A p \in P : p.kind = "breakpoint" => p.address \in Code

\* Two points that are the same to the user.
Same(p, q) == /\ q.kind = p.kind /\ q.id = p.id /\ q.address = p.address
              /\ q.hardware = p.hardware /\ q.data = p.data

IdsInOrder == \A p \in points : p.id <= next_id[p.kind]

ShownIsData ==
    /\ shown \in [1 .. MaxId -> Words \union {None}]
    /\ \A p \in points : p.kind = "watchpoint" => shown[p.id] = p.data

IInv == TypeOK /\ ListedIsInForce /\ OneOfEach /\ IdsInOrder /\ ShownIsData

LEMMA Listed == ListedIsInForce <=> (Alive => InForceOf(points, traps, slots))
BY DEF ListedIsInForce, InForceOf, HardOnes, SoftOnes, HardOf, SoftOf, FreeSlots

LEMMA ProperPoints == TypeOK /\ OneOfEach <=> TypeOK /\ Proper(points)
BY DEF TypeOK, OneOfEach, Proper, collection

LEMMA FreeSlotIsFree ==
    ASSUME NEW free \in SUBSET Slots, free # {}
    PROVE  find_free_stoppoint_register(free) \in free
<1>1. free \subseteq 0 .. 3
  BY SlotsAssumption DEF Slots
<1>2. \E s \in free : \A t \in free : s <= t
  <2>1. CASE 0 \in free
    BY <1>1, <2>1
  <2>2. CASE 0 \notin free /\ 1 \in free
    BY <1>1, <2>2
  <2>3. CASE 0 \notin free /\ 1 \notin free /\ 2 \in free
    BY <1>1, <2>3
  <2>4. CASE 0 \notin free /\ 1 \notin free /\ 2 \notin free
    <3>1. \A t \in free : t = 3
      BY <1>1, <2>4
    <3>2. 3 \in free
      BY <1>1, <3>1
    <3>3. \A t \in free : 3 <= t
      BY <3>1
    <3> QED BY <3>2, <3>3
  <2> QED BY <2>1, <2>2, <2>3, <2>4
<1> QED
  BY <1>2 DEF find_free_stoppoint_register

LEMMA FreeSlot ==
    ASSUME FreeSlots # {}
    PROVE  /\ find_free_stoppoint_register(FreeSlots) \in Slots
           /\ slots[find_free_stoppoint_register(FreeSlots)] = None
<1>1. FreeSlots \in SUBSET Slots
  BY DEF FreeSlots
<1>2. find_free_stoppoint_register(FreeSlots) \in FreeSlots
  BY <1>1, FreeSlotIsFree
<1> QED
  BY <1>2 DEF FreeSlots

\* Facts about the record that enable() and disable() make of a point.
LEMMA Copies ==
    ASSUME NEW p \in Points
    PROVE  /\ CanEnable(p) => /\ Enabled(p) \in Points /\ Enabled(p).enabled
                              /\ Same(p, Enabled(p))
                              /\ Hardware(p) => Enabled(p).slot = find_free_stoppoint_register(FreeSlots)
           /\ Disabled(p) \in Points /\ ~Disabled(p).enabled /\ Same(p, Disabled(p))
<1>1. CanEnable(p) /\ Hardware(p) => find_free_stoppoint_register(FreeSlots) \in Slots
  BY FreeSlot DEF CanEnable
<1>2. CanEnable(p) => Enabled(p) \in Points
  BY <1>1 DEF Enabled, Points
<1>3. Disabled(p) \in Points
  BY DEF Disabled, Points
<1> QED
  BY <1>2, <1>3 DEF Enabled, Disabled, Points, Same

\* enable() of one of the points P puts this one in force, or fails and changes nothing.
LEMMA EnableStep ==
    ASSUME NEW p \in Points, NEW others, p \notin others,
           Proper(others \union {p}), slots \in [Slots -> (Kinds \X Addr) \union {None}],
           Alive => InForceOf(others \union {p}, traps, slots),
           enable(p, others)
    PROVE  /\ \E q \in Points : points' = others \union {q} /\ Same(p, q)
           /\ Alive => InForceOf(points', traps', slots')
           /\ slots' \in [Slots -> (Kinds \X Addr) \union {None}]
           /\ said' = Error => UNCHANGED force /\ points' = others \union {p} /\ ~p.enabled
           /\ ~Alive => UNCHANGED force
           /\ said'.what # "stop"
<1> DEFINE P == others \union {p}
           q == Enabled(p)
           s == find_free_stoppoint_register(FreeSlots)
<1>0. P \subseteq Points /\ Same(p, p)
  BY DEF Proper, Same
<1>1. CASE p.enabled \/ ~CanEnable(p)
  <2>1. points' = P /\ UNCHANGED force /\ said' = IF p.enabled THEN Done ELSE Error
    BY <1>1 DEF enable
  <2> QED
    BY <1>0, <1>1, <2>1 DEF force, Done, Error, Say
<1>2. CASE ~p.enabled /\ CanEnable(p)
  <2>1. /\ q \in Points /\ q.enabled /\ Same(p, q) /\ Alive
        /\ Hardware(p) => q.slot = s
        /\ points' = others \union {q} /\ said' = Done
    BY <1>2, Copies DEF enable, CanEnable
  <2>2. Done # Error /\ Done.what # "stop"
    BY DEF Done, Error, Say
  <2>3. Hardware(q) = Hardware(p) /\ q.address = p.address /\ q.kind = p.kind
    BY <2>1 DEF Same, Hardware
  <2>4. InForceOf(P, traps, slots)
    BY <2>1
  <2> HIDE DEF q, s
  <2>5. CASE Hardware(p)
    <3>1. s \in Slots /\ slots[s] = None
      BY <1>2, <2>5, FreeSlot DEF CanEnable, s
    <3>2. slots' = [slots EXCEPT ![s] = <<p.kind, p.address>>] /\ traps' = traps
      BY <1>2, <2>1, <2>5 DEF enable, q
    <3>3. <<p.kind, p.address>> \in Kinds \X Addr
      BY DEF Points
    <3>4. HardOf(points') = HardOf(P) \union {q} /\ SoftOf(points') = SoftOf(P)
      BY <1>2, <2>1, <2>3, <2>5 DEF HardOf, SoftOf
    <3>5. \A r \in HardOf(P) : /\ r.slot \in Slots /\ r.slot # s
                               /\ slots'[r.slot] = <<r.kind, r.address>>
      <4> SUFFICES ASSUME NEW r \in HardOf(P)
                   PROVE  /\ r.slot \in Slots /\ r.slot # s
                          /\ slots'[r.slot] = <<r.kind, r.address>>
        OBVIOUS
      <4>1. r \in Points
        BY <1>0 DEF HardOf
      <4>2. <<r.kind, r.address>> \in Kinds \X Addr
        BY <4>1 DEF Points
      <4>3. r.slot \in Slots /\ slots[r.slot] = <<r.kind, r.address>>
        BY <2>4 DEF InForceOf
      <4>4. r.slot # s
        BY <3>1, <4>2, <4>3, NoneAssumption
      <4> QED
        BY <3>1, <3>2, <4>3, <4>4
    <3>6. InForceOf(points', traps', slots')
      <4>1. traps' = {r.address : r \in SoftOf(points')}
        BY <2>4, <3>2, <3>4 DEF InForceOf
      <4>2. \A r \in HardOf(points') : r.slot \in Slots /\ slots'[r.slot] = <<r.kind, r.address>>
        <5>1. q.slot = s /\ slots'[s] = <<q.kind, q.address>>
          BY <2>1, <2>3, <2>5, <3>1, <3>2
        <5> QED
          BY <3>1, <3>4, <3>5, <5>1
      <4>3. \A r, t \in HardOf(points') : r.slot = t.slot => r = t
        BY <2>1, <2>4, <2>5, <3>4, <3>5 DEF InForceOf
      <4>4. \A t \in Slots : slots'[t] # None => \E r \in HardOf(points') : r.slot = t
        BY <2>1, <2>4, <2>5, <3>2, <3>4 DEF InForceOf
      <4> QED
        BY <4>1, <4>2, <4>3, <4>4 DEF InForceOf
    <3>7. slots' \in [Slots -> (Kinds \X Addr) \union {None}]
      BY <3>1, <3>2, <3>3
    <3> QED
      BY <2>1, <2>2, <3>6, <3>7
  <2>6. CASE ~Hardware(p)
    <3>1. traps' = traps \union {p.address} /\ slots' = slots
      BY <1>2, <2>6 DEF enable
    <3>2. HardOf(points') = HardOf(P) /\ SoftOf(points') = SoftOf(P) \union {q}
      BY <1>2, <2>1, <2>3, <2>6 DEF HardOf, SoftOf
    <3>3. traps' = {r.address : r \in SoftOf(points')}
      <4>1. traps = {r.address : r \in SoftOf(P)}
        BY <2>4 DEF InForceOf
      <4> QED
        BY <2>3, <3>1, <3>2, <4>1
    <3>4. InForceOf(points', traps', slots')
      BY <2>4, <3>1, <3>2, <3>3 DEF InForceOf
    <3> QED
      BY <2>1, <2>2, <3>1, <3>4
  <2> QED
    BY <2>5, <2>6
<1> QED
  BY <1>1, <1>2

\* disable() takes this one point out of force.
LEMMA LiftStep ==
    ASSUME NEW p \in points, Proper(points), slots \in [Slots -> (Kinds \X Addr) \union {None}],
           Alive => InForceOf(points, traps, slots),
           p.enabled => Alive, lift(p)
    PROVE  /\ Alive => InForceOf(points \ {p}, traps', slots')
           /\ slots' \in [Slots -> (Kinds \X Addr) \union {None}]
           /\ ~Alive => UNCHANGED force
<1> DEFINE Q == points \ {p}
<1>1. CASE ~p.enabled
  <2>1. HardOf(Q) = HardOf(points) /\ SoftOf(Q) = SoftOf(points) /\ UNCHANGED force
    BY <1>1 DEF HardOf, SoftOf, lift
  <2> QED
    BY <2>1 DEF InForceOf, force
<1>2. CASE p.enabled /\ Hardware(p)
  <2>1. p \in HardOf(points) /\ p.slot \in Slots /\ InForceOf(points, traps, slots)
    BY <1>2 DEF HardOf, InForceOf
  <2>2. slots' = [slots EXCEPT ![p.slot] = None] /\ traps' = traps
    BY <1>2 DEF lift
  <2>3. HardOf(Q) = HardOf(points) \ {p} /\ SoftOf(Q) = SoftOf(points)
    BY <1>2 DEF HardOf, SoftOf
  <2>4. \A r \in HardOf(Q) : r.slot # p.slot /\ r \in HardOf(points)
    BY <2>1, <2>3 DEF InForceOf
  <2>5. InForceOf(Q, traps', slots')
    BY <2>1, <2>2, <2>3, <2>4 DEF InForceOf
  <2> QED
    BY <1>2, <2>1, <2>2, <2>5
<1>3. CASE p.enabled /\ ~Hardware(p)
  <2>1. p \in SoftOf(points) /\ InForceOf(points, traps, slots) /\ p.kind = "breakpoint"
    BY <1>3 DEF SoftOf, InForceOf, Hardware, Proper, Points, Kinds
  <2>2. slots' = slots /\ traps' = traps \ {p.address}
    BY <1>3 DEF lift
  <2>3. HardOf(Q) = HardOf(points) /\ SoftOf(Q) = SoftOf(points) \ {p}
    BY <1>3 DEF HardOf, SoftOf
  <2>4. \A r \in SoftOf(Q) : r.address # p.address
    BY <2>1, <2>3 DEF Proper, SoftOf, Hardware, Points, Kinds
  <2>5. traps' = {r.address : r \in SoftOf(Q)}
    <3>1. traps = {r.address : r \in SoftOf(points)}
      BY <2>1 DEF InForceOf
    <3> QED
      BY <2>1, <2>2, <2>3, <2>4, <3>1
  <2> QED
    BY <1>3, <2>1, <2>2, <2>3, <2>5 DEF InForceOf
<1> QED
  BY <1>1, <1>2, <1>3

\* A point replaced by one that the user takes for the same.
LEMMA SameIsProper ==
    ASSUME NEW p \in Points, NEW q \in Points, Same(p, q), NEW others, Proper(others \union {p}),
           p \notin others
    PROVE  Proper(others \union {q})
<1>1. others \subseteq Points
  BY DEF Proper
<1>2. \A r \in others : ~(r.kind = q.kind /\ (r.id = q.id \/ r.address = q.address))
  BY DEF Proper, Same
<1> QED
  BY <1>1, <1>2 DEF Proper, Same

LEMMA TrapsInCode ==
    ASSUME NEW P, NEW t, NEW sl, Proper(P), InForceOf(P, t, sl)
    PROVE  t \subseteq Code
BY DEF Proper, InForceOf, SoftOf, Hardware, Points, Kinds

\* The look-up by address finds the point that is there, and only that.
LEMMA LookUp ==
    ASSUME Proper(points), NEW kind, NEW a
    PROVE  /\ \A p \in find_by_address(kind, a) : p \in points /\ p.kind = kind /\ p.address = a
           /\ \A p \in points : p.kind = kind /\ p.address = a => p \in find_by_address(kind, a)
<1>1. \A p \in points : p.id <= p.id
  BY BoundAssumption DEF Proper, Points
<1>2. \A p, q \in points : p.kind = q.kind /\ p.address = q.address => p = q
  BY DEF Proper
<1> QED
  BY <1>1, <1>2 DEF find_by_address, collection

\* What a step of the points does to them, to ids and to what is shown.
Forever == \A p \in points' : p.id <= next_id[p.kind] =>
              \E q \in points : q.kind = p.kind /\ q.id = p.id /\ q.address = p.address

BrokenOff ==
    \E hole \in {x + 1 : x \in Mapped} \ Mapped :
        \A x \in {y \in Addr : mem'[y] # mem[y]} : x < hole /\ x .. hole - 1 \subseteq Mapped \ Code

Failure == /\ UNCHANGED <<force, policy, phase>>
           /\ points \subseteq points'
           /\ \A p \in points' \ points : ~p.enabled
           /\ mem' = mem \/ BrokenOff

Facts == /\ Proper(points) /\ IdsInOrder /\ ShownIsData
         /\ next_id \in [Kinds -> 0 .. MaxId] /\ mem \in [Addr -> Numbers]
         /\ slots \in [Slots -> (Kinds \X Addr) \union {None}]
         /\ traps \subseteq Code /\ phase \in {"prompt", "running", "gone", "crashed"}
         /\ Alive => InForceOf(points, traps, slots)

LEMMA FactsIInv == Facts <=> IInv
BY Listed, ProperPoints DEF Facts, IInv, TypeOK, Proper, collection

LEMMA InitFacts == Init => Facts
<1> SUFFICES ASSUME Init PROVE Facts
  OBVIOUS
<1>1. Proper(points) /\ IdsInOrder /\ traps \subseteq Code
  BY DEF Init, Proper, IdsInOrder
<1>2. ShownIsData
  BY DEF Init, ShownIsData
<1>3. next_id \in [Kinds -> 0 .. MaxId] /\ mem \in [Addr -> Numbers] /\ phase = "prompt"
  BY BoundAssumption DEF Init
<1>4. slots \in [Slots -> (Kinds \X Addr) \union {None}]
  BY DEF Init
<1>5. InForceOf(points, traps, slots)
  BY DEF Init, InForceOf, HardOf, SoftOf
<1> QED
  BY <1>1, <1>2, <1>3, <1>4, <1>5 DEF Facts

\* A point that is new takes the next id, and joins the others disabled.
LEMMA NewPoint ==
    ASSUME Facts, NEW p \in Points, ~p.enabled, p.id = next_id[p.kind] + 1, next_id[p.kind] < MaxId,
           p.kind = "breakpoint" => p.address \in Code,
           ~contains_address(p.kind, p.address), TakeId(p.kind)
    PROVE  /\ p \notin points
           /\ Proper(points \union {p})
           /\ Alive => InForceOf(points \union {p}, traps, slots)
           /\ next_id' \in [Kinds -> 0 .. MaxId]
           /\ \A k \in Kinds : next_id[k] <= next_id'[k]
           /\ next_id'[p.kind] = p.id
<1>1. /\ next_id \in [Kinds -> 0 .. MaxId] /\ next_id[p.kind] \in 0 .. MaxId
      /\ p.kind \in Kinds /\ p.id \in 1 .. MaxId
  BY DEF Facts, Points
<1>2. \A q \in points : q.kind = p.kind => q.id # p.id /\ q.address # p.address
  <2>1. \A q \in points : q.kind = p.kind => q.id <= next_id[p.kind] /\ q.id \in 1 .. MaxId
    BY DEF Facts, IdsInOrder, Proper, Points
  <2>2. \A q \in points : q.kind = p.kind => q.address # p.address
    BY LookUp DEF Facts, contains_address
  <2> QED
    BY <1>1, <2>1, <2>2
<1>3. Proper(points \union {p}) /\ p \notin points
  BY <1>1, <1>2 DEF Facts, Proper
<1>4. HardOf(points \union {p}) = HardOf(points) /\ SoftOf(points \union {p}) = SoftOf(points)
  BY DEF HardOf, SoftOf
<1>5. Alive => InForceOf(points \union {p}, traps, slots)
  BY <1>4 DEF Facts, InForceOf
<1>6. /\ next_id' = [next_id EXCEPT ![p.kind] = next_id[p.kind] + 1]
      /\ next_id[p.kind] + 1 \in 0 .. MaxId
  BY <1>1, BoundAssumption DEF TakeId
<1>7. /\ next_id' \in [Kinds -> 0 .. MaxId] /\ next_id'[p.kind] = p.id
      /\ \A k \in Kinds : next_id[k] <= next_id'[k]
  BY <1>1, <1>6, BoundAssumption
<1> QED
  BY <1>3, <1>5, <1>7

\* The conclusion of enable() for a point p, of a command that keeps the memory and the phase.
LEMMA Enabling ==
    ASSUME Facts, NEW p \in Points, NEW others, p \notin others, others \subseteq points,
           Proper(others \union {p}), Alive => InForceOf(others \union {p}, traps, slots),
           enable(p, others),
           next_id' \in [Kinds -> 0 .. MaxId], \A k \in Kinds : next_id[k] <= next_id'[k],
           p.id <= next_id'[p.kind],
           shown' \in [1 .. MaxId -> Words \union {None}],
           p.kind = "watchpoint" => shown'[p.id] = p.data,
           \A r \in others : r.kind = "watchpoint" => shown'[r.id] = shown[r.id],
           UNCHANGED <<mem, phase>>
    PROVE  /\ Facts' /\ said'.what # "stop"
           /\ \E q \in Points : points' = others \union {q} /\ Same(p, q)
           /\ said' = Error => UNCHANGED force /\ points' = others \union {p} /\ ~p.enabled
<1>1. PICK q \in Points : points' = others \union {q} /\ Same(p, q)
  BY EnableStep DEF Facts
<1>2. /\ Alive => InForceOf(points', traps', slots')
      /\ slots' \in [Slots -> (Kinds \X Addr) \union {None}]
      /\ said' = Error => UNCHANGED force /\ points' = others \union {p} /\ ~p.enabled
      /\ ~Alive => UNCHANGED force
      /\ said'.what # "stop"
  BY EnableStep DEF Facts
<1>3. Proper(points')
  BY <1>1, SameIsProper
<1>4. traps' \subseteq Code
  BY <1>2, <1>3, TrapsInCode DEF Facts, force
<1>5. IdsInOrder'
  <2>1. q.id <= next_id'[q.kind]
    BY <1>1 DEF Same
  <2>2. ASSUME NEW r \in others PROVE r.id <= next_id'[r.kind]
    <3>1. r.id <= next_id[r.kind] /\ r \in Points
      BY DEF Facts, IdsInOrder, Proper
    <3>2. r.id \in Nat /\ r.kind \in Kinds /\ next_id[r.kind] \in Nat /\ next_id'[r.kind] \in Nat
      BY <3>1, BoundAssumption DEF Facts, Points
    <3> QED
      BY <3>1, <3>2
  <2> QED
    BY <1>1, <2>1, <2>2 DEF IdsInOrder
<1>6. ShownIsData'
  BY <1>1 DEF Facts, ShownIsData, Same, Words
<1>7. Alive' = Alive /\ phase' = phase /\ mem' = mem
  BY DEF Alive
<1>8. Facts'
  BY <1>2, <1>3, <1>4, <1>5, <1>6, <1>7 DEF Facts
<1> QED
  BY <1>1, <1>2, <1>8

\* A command that fails before it has done anything.
LEMMA FailsStep ==
    ASSUME Facts, Fails, UNCHANGED <<mem, policy, phase, shown>>,
           next_id' \in [Kinds -> 0 .. MaxId], \A k \in Kinds : next_id[k] <= next_id'[k]
    PROVE  Facts' /\ Forever /\ Failure /\ said'.what # "stop"
<1>1. points' = points /\ traps' = traps /\ slots' = slots /\ said' = Error
  BY DEF Fails, force
<1>2. IdsInOrder'
  <2> SUFFICES ASSUME NEW r \in points PROVE r.id <= next_id'[r.kind]
    BY <1>1 DEF IdsInOrder
  <2>1. r.id <= next_id[r.kind] /\ r \in Points
    BY DEF Facts, IdsInOrder, Proper
  <2>2. r.id \in Nat /\ r.kind \in Kinds /\ next_id[r.kind] \in Nat /\ next_id'[r.kind] \in Nat
    BY <2>1, BoundAssumption DEF Facts, Points
  <2> QED
    BY <2>1, <2>2
<1>3. ShownIsData'
  BY <1>1 DEF Facts, ShownIsData, Words
<1>4. Facts'
  BY <1>1, <1>2, <1>3 DEF Facts, Alive
<1> QED
  BY <1>1, <1>4 DEF Forever, Failure, force, Error, Say

LEMMA BreakpointSetStep ==
    ASSUME Facts, NEW a \in Code, NEW hardware \in BOOLEAN, BreakpointSet(a, hardware)
    PROVE  Facts' /\ Forever /\ (said' = Error => Failure) /\ said'.what # "stop"
<1> DEFINE p == Point("breakpoint", a, hardware, 1, 0)
<1>1. next_id["breakpoint"] < MaxId /\ UNCHANGED <<mem, policy, phase, shown>>
      /\ create_breakpoint_site(a, hardware) /\ "breakpoint" \in Kinds /\ a \in Addr
  BY DEF BreakpointSet, Kinds, Addr
<1>2. CASE contains_address("breakpoint", a)
  <2>1. Fails /\ next_id' = next_id
    BY <1>1, <1>2 DEF create_breakpoint_site
  <2>2. next_id' \in [Kinds -> 0 .. MaxId] /\ \A k \in Kinds : next_id[k] <= next_id'[k]
    BY <2>1, BoundAssumption DEF Facts
  <2> QED
    BY <1>1, <2>1, <2>2, FailsStep
<1>3. CASE ~contains_address("breakpoint", a)
  <2>1. TakeId("breakpoint") /\ enable(p, points)
    BY <1>1, <1>3 DEF create_breakpoint_site
  <2>2. /\ p \in Points /\ p \notin points /\ ~p.enabled /\ p.kind = "breakpoint"
        /\ p.id = next_id["breakpoint"] + 1 /\ p.id \in 1 .. MaxId
        /\ Proper(points \union {p})
        /\ Alive => InForceOf(points \union {p}, traps, slots)
        /\ next_id' \in [Kinds -> 0 .. MaxId] /\ \A k \in Kinds : next_id[k] <= next_id'[k]
        /\ next_id'["breakpoint"] = p.id
    <3>1. /\ p \in Points /\ ~p.enabled /\ p.kind = "breakpoint" /\ p.address = a
          /\ p.id = next_id["breakpoint"] + 1 /\ p.id \in 1 .. MaxId
      BY <1>1, BoundAssumption DEF Point, Points, get_next_id, Words, Facts
    <3> HIDE DEF p
    <3> QED
      BY <1>1, <1>3, <2>1, <3>1, NewPoint
  <2> HIDE DEF p
  <2>3. /\ shown' \in [1 .. MaxId -> Words \union {None}]
        /\ p.kind = "watchpoint" => shown'[p.id] = p.data
        /\ \A r \in points : r.kind = "watchpoint" => shown'[r.id] = shown[r.id]
        /\ p.id <= next_id'[p.kind]
    BY <1>1, <2>2, BoundAssumption DEF Facts, ShownIsData
  <2>4. /\ Facts' /\ said'.what # "stop"
        /\ \E q \in Points : points' = points \union {q} /\ Same(p, q)
        /\ said' = Error => UNCHANGED force /\ points' = points \union {p} /\ ~p.enabled
    BY <1>1, <2>1, <2>2, <2>3, Enabling
  <2>5. Forever
    <3>1. ~(p.id <= next_id[p.kind])
      BY <1>1, <2>2, BoundAssumption DEF Facts
    <3> QED
      BY <2>4, <3>1 DEF Forever, Same
  <2>6. said' = Error => Failure
    BY <1>1, <2>4 DEF Failure
  <2> QED
    BY <2>4, <2>5, <2>6
<1> QED
  BY <1>2, <1>3

LEMMA WatchpointSetStep ==
    ASSUME Facts, NEW a \in Watched, NEW size \in WatchSizes, WatchpointSet(a, size)
    PROVE  Facts' /\ Forever /\ (said' = Error => Failure) /\ said'.what # "stop"
<1> DEFINE d == read_memory(mem, a)
           p == Point("watchpoint", a, TRUE, size, d)
<1>1. next_id["watchpoint"] < MaxId /\ UNCHANGED <<mem, policy, phase>>
      /\ "watchpoint" \in Kinds /\ "watchpoint" # "breakpoint" /\ a \in Addr
  BY AddrAssumption DEF WatchpointSet, Kinds
<1>2. d \in Words
  BY <1>1 DEF read_memory, Words, Facts
<1>3. CASE contains_address("watchpoint", a) \/ ~Aligned(a, size)
  <2>1. Fails /\ next_id' = next_id /\ shown' = shown
    BY <1>3 DEF WatchpointSet
  <2>2. next_id' \in [Kinds -> 0 .. MaxId] /\ \A k \in Kinds : next_id[k] <= next_id'[k]
    BY <2>1, BoundAssumption DEF Facts
  <2> QED
    BY <1>1, <2>1, <2>2, FailsStep
<1>4. CASE ~contains_address("watchpoint", a) /\ Aligned(a, size)
  <2>1. TakeId("watchpoint")
    BY <1>4 DEF WatchpointSet
  <2>2. /\ p \in Points /\ p \notin points /\ ~p.enabled /\ p.kind = "watchpoint" /\ p.data = d
        /\ p.id = next_id["watchpoint"] + 1 /\ p.id \in 1 .. MaxId
        /\ Proper(points \union {p})
        /\ Alive => InForceOf(points \union {p}, traps, slots)
        /\ next_id' \in [Kinds -> 0 .. MaxId] /\ \A k \in Kinds : next_id[k] <= next_id'[k]
        /\ next_id'["watchpoint"] = p.id
    <3>1. /\ p \in Points /\ ~p.enabled /\ p.kind = "watchpoint" /\ p.address = a /\ p.data = d
          /\ p.id = next_id["watchpoint"] + 1 /\ p.id \in 1 .. MaxId
      <4> HIDE DEF d
      <4> QED
        BY <1>1, <1>2, BoundAssumption DEF Point, Points, get_next_id, Words, Facts
    <3> HIDE DEF p, d
    <3> QED
      BY <1>1, <1>4, <2>1, <3>1, NewPoint
  <2>3. CASE ~Alive \/ a \notin Mapped
    <3>1. Fails /\ shown' = shown
      BY <1>4, <2>3 DEF WatchpointSet
    <3> QED
      BY <1>1, <2>2, <3>1, FailsStep
  <2>4. CASE ~(~Alive \/ a \notin Mapped)
    <3>1. enable(p, points) /\ shown' = [shown EXCEPT ![p.id] = d]
      BY <1>4, <2>4 DEF WatchpointSet
    <3> HIDE DEF p, d
    <3>2. \A r \in points : r.kind = "watchpoint" => r.id # p.id /\ r.id \in 1 .. MaxId
      BY <2>2 DEF Facts, Proper, Points
    <3>3. /\ shown' \in [1 .. MaxId -> Words \union {None}]
          /\ p.kind = "watchpoint" => shown'[p.id] = p.data
          /\ \A r \in points : r.kind = "watchpoint" => shown'[r.id] = shown[r.id]
          /\ p.id <= next_id'[p.kind]
      BY <1>2, <2>2, <3>1, <3>2, BoundAssumption DEF Facts, ShownIsData
    <3>4. /\ Facts' /\ said'.what # "stop"
          /\ \E q \in Points : points' = points \union {q} /\ Same(p, q)
          /\ said' = Error => UNCHANGED force /\ points' = points \union {p} /\ ~p.enabled
      BY <1>1, <2>2, <3>1, <3>3, Enabling
    <3>5. Forever
      <4>1. ~(p.id <= next_id[p.kind])
        BY <1>1, <2>2, BoundAssumption DEF Facts
      <4> QED
        BY <3>4, <4>1 DEF Forever, Same
    <3>6. said' = Error => Failure
      BY <1>1, <3>4 DEF Failure
    <3> QED
      BY <3>4, <3>5, <3>6
  <2> QED
    BY <2>3, <2>4
<1> QED
  BY <1>3, <1>4

\* Nothing has happened to the counters.
LEMMA SameIds ==
    ASSUME Facts, next_id' = next_id
    PROVE  next_id' \in [Kinds -> 0 .. MaxId] /\ \A k \in Kinds : next_id[k] <= next_id'[k]
BY BoundAssumption DEF Facts

LEMMA PointEnableStep ==
    ASSUME Facts, NEW kind \in Kinds, NEW id, PointEnable(kind, id)
    PROVE  Facts' /\ Forever /\ (said' = Error => Failure) /\ said'.what # "stop"
<1>1. UNCHANGED <<next_id, mem, policy, phase, shown>>
  BY DEF PointEnable
<1>2. CASE Fails
  BY <1>1, <1>2, SameIds, FailsStep
<1>3. CASE \E p \in find_by_id(kind, id) : enable(p, points \ {p})
  <2>1. PICK p \in points : enable(p, points \ {p})
    BY <1>3 DEF find_by_id, collection
  <2> DEFINE others == points \ {p}
  <2>2. /\ others \union {p} = points /\ p \in Points /\ p \notin others /\ others \subseteq points
        /\ Proper(others \union {p}) /\ (Alive => InForceOf(others \union {p}, traps, slots))
    BY DEF Facts, Proper
  <2>3. /\ shown' \in [1 .. MaxId -> Words \union {None}]
        /\ p.kind = "watchpoint" => shown'[p.id] = p.data
        /\ \A r \in others : r.kind = "watchpoint" => shown'[r.id] = shown[r.id]
        /\ p.id <= next_id'[p.kind]
    BY <1>1 DEF Facts, ShownIsData, IdsInOrder
  <2>4. enable(p, others)
    BY <2>1
  <2> HIDE DEF others
  <2>5. /\ Facts' /\ said'.what # "stop"
        /\ \E q \in Points : points' = others \union {q} /\ Same(p, q)
        /\ said' = Error => UNCHANGED force /\ points' = others \union {p} /\ ~p.enabled
    BY <1>1, <2>2, <2>3, <2>4, SameIds, Enabling
  <2>6. Forever
    BY <2>2, <2>5 DEF Forever, Same
  <2>7. said' = Error => Failure
    BY <1>1, <2>2, <2>5 DEF Failure
  <2> QED
    BY <2>5, <2>6, <2>7
<1> QED
  BY <1>2, <1>3 DEF PointEnable

\* What stays true of the points that remain after one is taken out of force.
LEMMA Lifting ==
    ASSUME Facts, NEW p \in points, lift(p), CanDisable(p)
    PROVE  LET Q == points \ {p}
           IN  /\ Alive => InForceOf(Q, traps', slots')
               /\ Proper(Q) /\ traps' \subseteq Code
               /\ slots' \in [Slots -> (Kinds \X Addr) \union {None}]
<1> DEFINE Q == points \ {p}
<1>1. /\ Alive => InForceOf(Q, traps', slots')
      /\ slots' \in [Slots -> (Kinds \X Addr) \union {None}]
      /\ ~Alive => UNCHANGED force
  BY LiftStep DEF Facts, CanDisable
<1>2. Proper(Q)
  BY DEF Facts, Proper
<1> HIDE DEF Q
<1>3. traps' \subseteq Code
  BY <1>1, <1>2, TrapsInCode DEF Facts, force
<1> QED
  BY <1>1, <1>2, <1>3 DEF Q

LEMMA PointDisableStep ==
    ASSUME Facts, NEW kind \in Kinds, NEW id, PointDisable(kind, id)
    PROVE  Facts' /\ Forever /\ (said' = Error => Failure) /\ said'.what # "stop"
<1>1. UNCHANGED <<next_id, mem, policy, phase, shown>>
  BY DEF PointDisable
<1>2. CASE Fails
  BY <1>1, <1>2, SameIds, FailsStep
<1>3. CASE ~Fails
  <2>1. PICK p \in points :
            /\ CanDisable(p) /\ lift(p) /\ said' = Done
            /\ points' = (points \ {p}) \union {IF p.enabled THEN Disabled(p) ELSE p}
    BY <1>3 DEF PointDisable, find_by_id, collection
  <2> DEFINE q == IF p.enabled THEN Disabled(p) ELSE p
             Q == points \ {p}
  <2>2. p \in Points /\ Proper(points) /\ Q \union {p} = points /\ p \notin Q
    BY DEF Facts, Proper
  <2>3. q \in Points /\ ~q.enabled /\ Same(p, q)
    BY <2>2, Copies DEF Same
  <2>4. /\ Alive => InForceOf(Q, traps', slots')
        /\ traps' \subseteq Code
        /\ slots' \in [Slots -> (Kinds \X Addr) \union {None}]
    BY <2>1, Lifting
  <2>5. points' = Q \union {q}
    BY <2>1
  <2> HIDE DEF q, Q
  <2>6. Proper(points')
    BY <2>2, <2>3, <2>5, SameIsProper
  <2>7. HardOf(points') = HardOf(Q) /\ SoftOf(points') = SoftOf(Q)
    BY <2>3, <2>5 DEF HardOf, SoftOf
  <2>8. Alive => InForceOf(points', traps', slots')
    BY <2>4, <2>7 DEF InForceOf
  <2>9. IdsInOrder' /\ ShownIsData'
    BY <1>1, <2>2, <2>3, <2>5 DEF Facts, IdsInOrder, ShownIsData, Same, Words
  <2>10. Facts'
    BY <1>1, <2>4, <2>6, <2>8, <2>9 DEF Facts, Alive
  <2>11. Forever
    BY <2>2, <2>3, <2>5 DEF Forever, Same
  <2> QED
    BY <2>1, <2>10, <2>11 DEF Done, Error, Say
<1> QED
  BY <1>2, <1>3

LEMMA PointDeleteStep ==
    ASSUME Facts, NEW kind \in Kinds, NEW id, PointDelete(kind, id)
    PROVE  Facts' /\ Forever /\ (said' = Error => Failure) /\ said'.what # "stop"
<1>1. UNCHANGED <<next_id, mem, policy, phase>>
  BY DEF PointDelete
<1>2. CASE Fails /\ UNCHANGED shown
  BY <1>1, <1>2, SameIds, FailsStep
<1>3. CASE ~(Fails /\ UNCHANGED shown)
  <2>1. PICK p \in points :
            /\ p.kind = kind /\ p.id = id
            /\ CanDisable(p) /\ lift(p) /\ points' = points \ {p} /\ said' = Done
            /\ shown' = IF kind = "watchpoint" THEN [shown EXCEPT ![id] = None] ELSE shown
    BY <1>3 DEF PointDelete, find_by_id, collection
  <2>2. /\ Alive => InForceOf(points', traps', slots')
        /\ Proper(points') /\ traps' \subseteq Code
        /\ slots' \in [Slots -> (Kinds \X Addr) \union {None}]
    BY <2>1, Lifting
  <2>3. IdsInOrder'
    BY <1>1, <2>1 DEF Facts, IdsInOrder
  <2>4. ShownIsData'
    <3>1. \A r \in points' : r.kind = "watchpoint" /\ kind = "watchpoint" => r.id # id
      BY <2>1 DEF Facts, Proper
    <3>2. /\ shown \in [1 .. MaxId -> Words \union {None}] /\ id \in 1 .. MaxId
          /\ \A r \in points' : r.id \in 1 .. MaxId
          /\ \A r \in points' : r.kind = "watchpoint" => shown[r.id] = r.data
      BY <2>1 DEF Facts, ShownIsData, Proper, Points
    <3>3. \A r \in points' : r.kind = "watchpoint" => shown'[r.id] = r.data
      BY <2>1, <3>1, <3>2
    <3>4. shown' \in [1 .. MaxId -> Words \union {None}]
      BY <2>1, <3>2
    <3> QED
      BY <3>3, <3>4 DEF ShownIsData, Words
  <2>5. Facts'
    BY <1>1, <2>2, <2>3, <2>4 DEF Facts, Alive
  <2> QED
    BY <2>1, <2>5 DEF Forever, Done, Error, Say
<1> QED
  BY <1>2, <1>3

\* A set of natural numbers that is not empty has a least member.
LEMMA Least ==
    ASSUME NEW T, T \subseteq Nat, T # {}
    PROVE  \E x \in T : \A y \in T : x <= y
<1> DEFINE R == OpToRel(<, Nat)
<1>1. IsWellFoundedOn(R, Nat)
  BY NatLessThanWellFounded
<1>2. ASSUME NEW x \in Nat, NEW y \in Nat, x < y PROVE <<x, y>> \in R
  BY <1>2 DEF OpToRel
<1> HIDE DEF R
<1>3. PICK x \in T : \A y \in T : ~(<<y, x>> \in R)
  BY <1>1, WFMin
<1>4. \A y \in T : ~(y < x)
  BY <1>2, <1>3
<1> QED
  BY <1>4

\* A write of data keeps the memory's type; one that breaks off has written the words before the
\* first that is not mapped.
LEMMA WriteMemoryStep ==
    ASSUME Facts, NEW a \in Data, NEW bytes \in Seq(Numbers), write_memory(a, bytes),
           (a .. a + Len(bytes) - 1) \intersect Code = {}
    PROVE  /\ mem' \in [Addr -> Numbers]
           /\ said' = Error => mem' = mem \/ BrokenOff
<1> DEFINE n == Len(bytes)
           range == a .. a + n - 1
           S == Stored(a, bytes)
<1>1. /\ a \in Nat /\ n \in Nat /\ Addr \subseteq Nat /\ mem \in [Addr -> Numbers]
      /\ \A i \in 1 .. n : bytes[i] \in Numbers
  BY AddrAssumption DEF Addr, Facts
<1>2. mem' = [x \in Addr |-> IF x \in S THEN bytes[x - a + 1] ELSE mem[x]]
  BY DEF write_memory
<1>3. S = {x \in range : Alive /\ a .. x \subseteq Mapped}
  BY DEF Stored
<1>4. said' = Error => ~(range \subseteq S)
  BY DEF write_memory, Done, Error, Say
<1>5. range \intersect Code = {}
  OBVIOUS
<1> HIDE DEF n, S
<1>6. mem' \in [Addr -> Numbers]
  <2>1. \A x \in S : x - a + 1 \in 1 .. n
    BY <1>1, <1>3
  <2> QED
    BY <1>1, <1>2, <2>1
<1>7. ASSUME said' = Error, Alive, a \in Mapped PROVE BrokenOff
  <2>1. range \ Mapped # {}
    <3>1. PICK x \in range : ~(a .. x \subseteq Mapped)
      BY <1>3, <1>4, <1>7
    <3>2. a .. x \subseteq range
      BY <1>1, <3>1
    <3> QED
      BY <3>1, <3>2
  <2>2. PICK hole \in range \ Mapped : \A y \in range \ Mapped : hole <= y
    <3>1. range \ Mapped \subseteq Nat
      BY <1>1
    <3> QED
      BY <2>1, <3>1, Least
  <2>3. hole \in Nat /\ a < hole /\ hole - 1 \in range
    BY <1>1, <1>7, <2>2
  <2>4. a .. hole - 1 \subseteq Mapped \ Code
    <3>1. a .. hole - 1 \subseteq range
      BY <1>1, <2>2, <2>3
    <3>2. \A y \in a .. hole - 1 : ~(hole <= y)
      BY <1>1, <2>3
    <3> QED
      BY <1>5, <2>2, <3>1, <3>2
  <2>5. hole \in {x + 1 : x \in Mapped} \ Mapped
    <3>1. hole - 1 \in Mapped /\ hole = (hole - 1) + 1
      BY <1>1, <2>3, <2>4
    <3> QED
      BY <2>2, <3>1
  <2>6. ASSUME NEW x \in Addr, mem'[x] # mem[x]
        PROVE  x < hole /\ x .. hole - 1 \subseteq Mapped \ Code
    <3>1. x \in S
      BY <1>2, <2>6
    <3>2. x \in range /\ a .. x \subseteq Mapped
      BY <1>3, <3>1
    <3>3. x \in Nat /\ a <= x /\ ~(hole \in a .. x)
      BY <1>1, <2>2, <3>2
    <3>4. x < hole
      BY <1>1, <2>3, <3>3
    <3>5. x .. hole - 1 \subseteq a .. hole - 1
      BY <1>1, <2>3, <3>3
    <3> QED
      BY <2>4, <3>4, <3>5
  <2> QED
    BY <2>5, <2>6 DEF BrokenOff
<1>8. ASSUME ~(Alive /\ a \in Mapped) PROVE mem' = mem
  <2>1. S = {}
    <3>1. \A x \in range : a \in a .. x
      BY <1>1
    <3> QED
      BY <1>3, <1>8, <3>1
  <2> QED
    BY <1>1, <1>2, <2>1
<1> QED
  BY <1>6, <1>7, <1>8

\* The commands that leave the points alone.
LEMMA OtherCommandStep ==
    ASSUME Facts,
           \/ CatchSyscall
           \/ \E a \in Data, text \in VectorTexts : MemoryWrite(a, text)
           \/ \E kind \in Kinds, id \in Ids : DeleteNothing(kind, id)
    PROVE  Facts' /\ Forever /\ (said' = Error => Failure) /\ said'.what # "stop"
<1>1. points' = points /\ UNCHANGED <<next_id, force, shown>>
  BY DEF CatchSyscall, MemoryWrite, DeleteNothing
<1>2. mem' \in [Addr -> Numbers] /\ (said' = Error => mem' = mem \/ BrokenOff)
  <2>1. CASE mem' = mem
    BY <2>1 DEF Facts
  <2>2. CASE mem' # mem
    <3>1. PICK a \in Data, text \in VectorTexts : MemoryWrite(a, text)
      BY <2>2 DEF CatchSyscall, DeleteNothing
    <3>2. PICK bytes \in BytesOf(text) :
              /\ bytes \notin {NoNumber, NoFormat}
              /\ (a .. a + Len(bytes) - 1) \intersect Code = {}
              /\ write_memory(a, bytes)
      BY <2>2, <3>1 DEF MemoryWrite
    <3>3. bytes \in Seq(Numbers)
      BY <3>2, BytesAssumption
    <3> QED
      BY <3>2, <3>3, WriteMemoryStep
  <2> QED
    BY <2>1, <2>2
<1>3. /\ phase' = phase \/ phase' = "crashed"
      /\ said'.what # "stop"
      /\ said' = Error => UNCHANGED <<policy, phase>>
  BY DEF CatchSyscall, catch, MemoryWrite, write_memory, DeleteNothing, Crash, Done, Error, Say
<1>4. IdsInOrder' /\ ShownIsData'
  BY <1>1 DEF Facts, IdsInOrder, ShownIsData, Words
<1>5. Facts'
  BY <1>1, <1>2, <1>3, <1>4 DEF Facts, Alive, force
<1> QED
  BY <1>1, <1>2, <1>3, <1>5 DEF Forever, Failure

\* The two properties of what is told, as actions.
Naming ==
    said'.what = "stop" /\ said'.cause \in {"trap"} \union Kinds =>
        \E p, hit \in points' :
            /\ hit.enabled /\ hit.address = said'.at
            /\ IF said'.cause = "trap" THEN ~Hardware(hit)
               ELSE Hardware(hit) /\ hit.kind = said'.cause
            /\ p.kind = said'.kind /\ p.id = said'.id
            /\ \/ p = hit
               \/ hit.kind = "watchpoint" /\ p.kind = "breakpoint" /\ p.address = hit.address

Report ==
    said'.what = "stop" /\ said'.kind = "watchpoint" =>
        /\ said'.new = read_memory(mem', said'.at)
        /\ said'.old = shown[said'.id]

\* A stop that leaves the points alone.
LEMMA QuietStop ==
    ASSUME Facts, UNCHANGED <<points, shown, next_id, force>>, mem' \in [Addr -> Numbers],
           phase' \in {"prompt", "running", "gone", "crashed"}, Alive' => Alive
    PROVE  Facts' /\ Forever
<1>1. IdsInOrder' /\ ShownIsData'
  BY DEF Facts, IdsInOrder, ShownIsData, Words
<1>2. Facts'
  BY <1>1 DEF Facts, force
<1> QED
  BY <1>2 DEF Forever

LEMMA BreakAtStep ==
    ASSUME Facts, Alive, NEW cause \in {"trap", "int3"}, NEW a, NEW at, BreakAt(cause, a, at),
           cause = "trap" => a = at /\ a \in traps
    PROVE  Naming /\ Report /\ UNCHANGED <<points, shown>>
<1>1. CASE said' = Error
  BY <1>1 DEF BreakAt, Naming, Report, Error, Say
<1>2. CASE said' # Error
  <2>1. PICK p \in find_by_address("breakpoint", at) : said' = Named(Stop(cause, a), p)
    BY <1>2 DEF BreakAt
  <2>2. p \in points /\ p.kind = "breakpoint" /\ p.address = at
    BY <2>1, LookUp DEF Facts
  <2>3. /\ said'.kind = "breakpoint" /\ said'.id = p.id /\ said'.cause = cause /\ said'.at = a
        /\ UNCHANGED <<points, shown>>
    BY <2>1, <2>2 DEF BreakAt, Named, Stop, Say
  <2>4. cause = "trap" => p.enabled /\ ~Hardware(p) /\ p.address = a
    <3>1. SUFFICES ASSUME cause = "trap" PROVE p.enabled /\ ~Hardware(p) /\ p.address = a
      OBVIOUS
    <3>2. PICK q \in SoftOf(points) : q.address = a
      BY <3>1 DEF Facts, InForceOf
    <3>3. q \in points /\ q.enabled /\ ~Hardware(q) /\ q.kind = "breakpoint"
      BY <3>2 DEF SoftOf, Hardware, Facts, Proper, Points, Kinds
    <3> QED
      BY <2>2, <3>1, <3>2, <3>3 DEF Facts, Proper
  <2>5. "int3" \notin {"trap"} \union Kinds /\ "breakpoint" # "watchpoint"
    BY DEF Kinds
  <2> QED
    BY <2>2, <2>3, <2>4, <2>5 DEF Naming, Report
<1> QED
  BY <1>1, <1>2

LEMMA HardwareBreakStep ==
    ASSUME Facts, Alive, NEW s \in Slots \ FreeSlots, HardwareBreak(s),
           UNCHANGED <<next_id, force>>, phase' = "prompt", mem' \in [Addr -> Numbers]
    PROVE  Facts' /\ Forever /\ Naming /\ Report
<1> DEFINE kind == slots[s][1]
           a    == slots[s][2]
<1>1. PICK h \in points : h.enabled /\ Hardware(h) /\ h.kind = kind /\ h.address = a
  <2>1. PICK h \in HardOf(points) : h.slot = s
    BY DEF Facts, InForceOf, FreeSlots
  <2>2. slots[s] = <<h.kind, h.address>>
    BY <2>1 DEF Facts, InForceOf
  <2> QED
    BY <2>1, <2>2 DEF HardOf
<1>2. PICK p \in current(a) :
          IF p.kind = "breakpoint"
          THEN said' = Named(Stop(kind, a), p) /\ UNCHANGED <<points, shown>>
          ELSE LET q == update_data(p, read_memory(mem', a))
               IN  /\ points' = (points \ {p}) \union {q}
                   /\ said' = Named(Stop(kind, a), q)
                   /\ shown' = [shown EXCEPT ![p.id] = read_memory(mem', a)]
  BY DEF HardwareBreak
<1> HIDE DEF kind, a
<1>3. p \in points /\ p.address = a /\ p.kind \in Kinds /\ kind \in Kinds /\ h \in Points /\ p \in Points
  BY <1>1, LookUp DEF current, Facts, Proper, Points
<1>4. \/ p.kind = "breakpoint"
      \/ p.kind = "watchpoint" /\ \A r \in points : r.address = a => r.kind # "breakpoint"
  BY <1>3, LookUp DEF current, Facts, contains_address, Kinds
<1>5. p.kind = kind => p = h
  BY <1>1, <1>3 DEF Facts, Proper
<1>6. CASE p.kind = "breakpoint"
  <2>1. said' = Named(Stop(kind, a), p) /\ UNCHANGED <<points, shown>>
    BY <1>2, <1>6
  <2>2. said'.kind = "breakpoint" /\ said'.id = p.id /\ said'.cause = kind /\ said'.at = a
    BY <1>6, <2>1 DEF Named, Stop, Say
  <2>3. Naming /\ Report
    BY <1>1, <1>3, <1>5, <1>6, <2>1, <2>2 DEF Naming, Report, Kinds
  <2>4. Alive' => Alive
    OBVIOUS
  <2> QED
    BY <2>1, <2>3, <2>4, QuietStop
<1>7. CASE p.kind = "watchpoint"
  <2> DEFINE now == read_memory(mem', a)
             q   == update_data(p, now)
             Q   == points \ {p}
  <2>0. p = h
    BY <1>1, <1>3, <1>4, <1>5, <1>7 DEF Kinds
  <2>1. /\ points' = Q \union {q} /\ said' = Named(Stop(kind, a), q)
        /\ shown' = [shown EXCEPT ![p.id] = now]
    BY <1>2, <1>7
  <2>2. now \in Words
    BY <1>3 DEF read_memory, Words, Points
  <2> HIDE DEF now
  <2>3. /\ q \in Points /\ q.kind = p.kind /\ q.id = p.id /\ q.address = p.address
        /\ q.hardware = p.hardware /\ q.enabled = p.enabled /\ q.slot = p.slot
        /\ q.data = now /\ q.previous = p.data
    BY <1>3, <2>2 DEF update_data, Points
  <2> HIDE DEF q
  <2>4. Proper(points')
    <3>1. Q \union {p} = points /\ p \notin Q
      BY <1>3
    <3>2. \A r \in Q : ~(r.kind = q.kind /\ (r.id = q.id \/ r.address = q.address))
      BY <1>3, <2>3 DEF Facts, Proper
    <3> QED
      BY <1>3, <1>7, <2>1, <2>3, <3>2 DEF Facts, Proper
  <2>5. InForceOf(points', traps', slots')
    <3>1. InForceOf(points, traps, slots) /\ traps' = traps /\ slots' = slots
      BY DEF Facts, force
    <3>2. SoftOf(points') = SoftOf(points)
      BY <1>3, <1>7, <2>1, <2>3 DEF SoftOf, Hardware
    <3>3. /\ Hardware(p) /\ Hardware(q) /\ p \in HardOf(points)
          /\ HardOf(points') = (HardOf(points) \ {p}) \union {q}
      BY <1>1, <1>3, <1>7, <2>1, <2>3, <2>0 DEF HardOf, Hardware
    <3>4. traps' = {r.address : r \in SoftOf(points')}
      BY <3>1, <3>2 DEF InForceOf
    <3>5. \A r \in HardOf(points') : r.slot \in Slots /\ slots'[r.slot] = <<r.kind, r.address>>
      <4>1. p.slot \in Slots /\ slots'[p.slot] = <<p.kind, p.address>>
        BY <3>1, <3>3 DEF InForceOf
      <4>2. q.slot \in Slots /\ slots'[q.slot] = <<q.kind, q.address>>
        BY <2>3, <4>1
      <4>3. \A r \in HardOf(points) : r.slot \in Slots /\ slots'[r.slot] = <<r.kind, r.address>>
        BY <3>1 DEF InForceOf
      <4> QED
        BY <3>3, <4>2, <4>3
    <3>6. \A r, t \in HardOf(points') : r.slot = t.slot => r = t
      BY <2>3, <3>1, <3>3 DEF InForceOf
    <3>7. \A t \in Slots : slots'[t] # None => \E r \in HardOf(points') : r.slot = t
      BY <2>3, <3>1, <3>3 DEF InForceOf
    <3> QED
      BY <3>4, <3>5, <3>6, <3>7 DEF InForceOf
  <2>6. /\ shown \in [1 .. MaxId -> Words \union {None}] /\ p.id \in 1 .. MaxId
        /\ shown[p.id] = p.data
    BY <1>3, <1>7 DEF Facts, ShownIsData, Points
  <2>7. ShownIsData'
    <3>1. \A r \in Q : r.kind = "watchpoint" => r.id # p.id /\ r.id \in 1 .. MaxId /\ shown[r.id] = r.data
      BY <1>3, <1>7 DEF Facts, ShownIsData, Proper, Points
    <3>2. shown' \in [1 .. MaxId -> Words \union {None}] /\ shown'[p.id] = now
      BY <2>1, <2>2, <2>6
    <3>3. \A r \in points' : r.kind = "watchpoint" => shown'[r.id] = r.data
      BY <2>1, <2>3, <2>6, <3>1, <3>2
    <3> QED
      BY <3>2, <3>3 DEF ShownIsData, Words
  <2>8. IdsInOrder' /\ Forever
    BY <1>3, <2>1, <2>3 DEF Facts, IdsInOrder, Forever
  <2>9. Facts'
    BY <2>4, <2>5, <2>7, <2>8 DEF Facts, force
  <2>10. /\ said'.kind = "watchpoint" /\ said'.id = p.id /\ said'.cause = kind /\ said'.at = a
         /\ said'.old = p.data /\ said'.new = now
    BY <1>7, <2>1, <2>3 DEF Named, Stop, Say
  <2>11. q \in points' /\ q.enabled /\ Hardware(q) /\ q.kind = kind /\ q.kind = "watchpoint"
    BY <1>1, <1>7, <2>0, <2>1, <2>3 DEF Hardware
  <2>12. Naming
    BY <1>3, <2>3, <2>10, <2>11 DEF Naming
  <2>13. Report
    BY <2>6, <2>10 DEF Report, now
  <2> QED
    BY <2>8, <2>9, <2>12, <2>13
<1> QED
  BY <1>3, <1>6, <1>7 DEF Kinds

LEMMA StopsStep ==
    ASSUME Facts, Stops
    PROVE  Facts' /\ Forever /\ Naming /\ Report
<1>1. Alive /\ phase' = "prompt" /\ UNCHANGED <<next_id, force, policy>>
  BY DEF Stops, Alive
<1>2. mem' \in [Addr -> Numbers]
  BY DEF Stops, Facts
<1>3. CASE \E a \in traps : BreakAt("trap", a, a)
  <2>1. Naming /\ Report /\ UNCHANGED <<points, shown>>
    BY <1>1, <1>3, BreakAtStep
  <2> QED
    BY <1>1, <1>2, <2>1, QuietStop
<1>4. CASE \E a \in OwnInt3 : \E pc \in AfterInt3(a) : BreakAt("int3", a, pc)
  <2>1. "int3" # "trap"
    OBVIOUS
  <2>2. Naming /\ Report /\ UNCHANGED <<points, shown>>
    BY <1>1, <1>4, <2>1, BreakAtStep
  <2> QED
    BY <1>1, <1>2, <2>2, QuietStop
<1>5. CASE \E s \in Slots \ FreeSlots : HardwareBreak(s)
  BY <1>1, <1>2, <1>5, HardwareBreakStep
<1>6. CASE \/ \E id \in Syscalls : SyscallStop(id)
           \/ said' = Stop("signal", None) /\ UNCHANGED <<points, shown>>
  <2>1. UNCHANGED <<points, shown>>
    BY <1>6 DEF SyscallStop
  <2>2. \/ said'.what = "stop" /\ said'.kind = None /\ said'.cause \in {"syscall", "signal"}
        \/ said' = Error
    BY <1>6 DEF SyscallStop, Stop, Say
  <2>3. Naming /\ Report
    BY <2>2, NoneAssumption DEF Naming, Report, Kinds, Error, Say
  <2> QED
    BY <1>1, <1>2, <2>1, <2>3, QuietStop
<1> QED
  BY <1>3, <1>4, <1>5, <1>6 DEF Stops

LEMMA GoStep ==
    ASSUME Facts, Go \/ GoNowhere
    PROVE  Facts' /\ Forever /\ said'.what # "stop"
<1>1. /\ UNCHANGED <<points, shown, next_id, force, mem>> /\ Alive' = Alive
      /\ phase' \in {"prompt", "running", "gone", "crashed"}
  BY DEF Go, GoNowhere, Alive
<1>2. mem' \in [Addr -> Numbers]
  BY <1>1 DEF Facts
<1>3. said'.what # "stop"
  BY DEF Go, GoNowhere, Error, Say
<1> QED
  BY <1>1, <1>2, <1>3, QuietStop

\* The site that is put back is in force in the register that it has then, and no other point has
\* this register.
LEMMA StepOverStep ==
    ASSUME Facts, StepOver
    PROVE  Facts' /\ Forever /\ said'.what # "stop"
<1>1. /\ Alive /\ UNCHANGED <<next_id, traps, mem, policy, phase, shown>> /\ said' = Say("running")
  BY DEF StepOver, Alive
<1>2. PICK p \in points :
          /\ p.kind = "breakpoint" /\ p.enabled /\ Hardware(p)
          /\ points' = (points \ {p}) \union {[p EXCEPT !.slot = Rearmed(p)]}
          /\ slots' = [s \in Slots |-> IF s = Rearmed(p) THEN <<p.kind, p.address>>
                                       ELSE IF s = p.slot THEN None ELSE slots[s]]
  BY DEF StepOver, collection
<1> DEFINE t == Rearmed(p)
           q == [p EXCEPT !.slot = t]
           others == points \ {p}
<1>3. /\ p \in Points /\ p \in HardOf(points) /\ Proper(points)
      /\ InForceOf(points, traps, slots) /\ <<p.kind, p.address>> \in Kinds \X Addr
  BY <1>1, <1>2 DEF Facts, Proper, HardOf, Points
<1>4. p.slot \in Slots
  BY <1>3 DEF InForceOf
<1>5. t \in Slots /\ (t = p.slot \/ slots[t] = None)
  <2>1. FreeSlots \union {p.slot} \in SUBSET Slots
    BY <1>4 DEF FreeSlots
  <2>2. t \in FreeSlots \union {p.slot}
    BY <2>1, FreeSlotIsFree DEF Rearmed
  <2> QED
    BY <1>4, <2>2 DEF FreeSlots
<1> HIDE DEF t
<1>6. /\ q \in Points /\ q.slot = t /\ q.enabled /\ Hardware(q)
      /\ q.kind = p.kind /\ q.address = p.address /\ Same(p, q)
  BY <1>2, <1>3, <1>5 DEF Points, Same, Hardware
<1>7. points' = others \union {q} /\ points = others \union {p} /\ p \notin others
  BY <1>2 DEF t
<1>8. slots' = [s \in Slots |-> IF s = t THEN <<p.kind, p.address>>
                               ELSE IF s = p.slot THEN None ELSE slots[s]]
  BY <1>2 DEF t
<1> HIDE DEF q, others
<1>9. Proper(points')
  BY <1>3, <1>6, <1>7, SameIsProper
<1>10. slots' \in [Slots -> (Kinds \X Addr) \union {None}]
  BY <1>3, <1>8 DEF Facts
<1>11. ASSUME NEW r \in HardOf(others)
       PROVE  /\ r.slot \in Slots /\ r.slot # t /\ r.slot # p.slot
              /\ slots'[r.slot] = <<r.kind, r.address>>
  <2>1. r \in HardOf(points) /\ r \in Points /\ r # p
    BY <1>3, <1>7 DEF HardOf, Proper
  <2>2. <<r.kind, r.address>> \in Kinds \X Addr
    BY <2>1 DEF Points
  <2>3. r.slot \in Slots /\ slots[r.slot] = <<r.kind, r.address>> /\ r.slot # p.slot
    BY <1>3, <2>1 DEF InForceOf
  <2>4. r.slot # t
    BY <1>5, <2>2, <2>3, NoneAssumption
  <2> QED
    BY <1>8, <2>3, <2>4
<1>12. HardOf(points') = HardOf(others) \union {q} /\ SoftOf(points') = SoftOf(points)
  BY <1>2, <1>6, <1>7 DEF HardOf, SoftOf
<1>13. InForceOf(points', traps', slots')
  <2>1. traps' = {r.address : r \in SoftOf(points')}
    BY <1>1, <1>3, <1>12 DEF InForceOf
  <2>2. \A r \in HardOf(points') : r.slot \in Slots /\ slots'[r.slot] = <<r.kind, r.address>>
    BY <1>5, <1>6, <1>8, <1>11, <1>12
  <2>3. \A r, u \in HardOf(points') : r.slot = u.slot => r = u
    <3>1. \A r, u \in HardOf(others) : r.slot = u.slot => r = u
      BY <1>3, <1>7 DEF InForceOf, HardOf
    <3> QED
      BY <1>6, <1>11, <1>12, <3>1
  <2>4. \A s \in Slots : slots'[s] # None => \E r \in HardOf(points') : r.slot = s
    <3> SUFFICES ASSUME NEW s \in Slots, slots'[s] # None
                 PROVE  \E r \in HardOf(points') : r.slot = s
      OBVIOUS
    <3>1. CASE s = t
      BY <1>6, <1>12, <3>1
    <3>2. CASE s # t
      <4>1. s # p.slot /\ slots[s] # None
        BY <1>8, <3>2
      <4>2. PICK r \in HardOf(points) : r.slot = s
        BY <1>3, <4>1 DEF InForceOf
      <4>3. r \in HardOf(others)
        BY <1>7, <4>1, <4>2 DEF HardOf
      <4> QED
        BY <1>12, <4>2, <4>3
    <3> QED
      BY <3>1, <3>2
  <2> QED
    BY <2>1, <2>2, <2>3, <2>4 DEF InForceOf
<1>14. IdsInOrder' /\ ShownIsData' /\ Forever
  BY <1>1, <1>6, <1>7 DEF Facts, IdsInOrder, ShownIsData, Same, Words, Forever
<1>15. Facts'
  BY <1>1, <1>9, <1>10, <1>13, <1>14 DEF Facts, Alive
<1>16. said'.what # "stop"
  BY <1>1 DEF Say
<1> QED
  BY <1>14, <1>15, <1>16

LEMMA EndsStep ==
    ASSUME Facts, Ends
    PROVE  Facts' /\ Forever /\ said'.what # "stop"
<1>1. phase' = "gone" /\ ~Alive' /\ UNCHANGED <<next_id, force, mem, shown>> /\ said'.what # "stop"
  BY DEF Ends, Alive, Error, Say
<1>2. CASE points' = points
  <2>1. mem' \in [Addr -> Numbers] /\ UNCHANGED <<points, shown, next_id, force>>
    BY <1>1, <1>2 DEF Facts
  <2> QED
    BY <1>1, <2>1, QuietStop
<1>3. CASE points' # points
  <2>1. PICK p \in points : points' = (points \ {p}) \union {Disabled(p)}
    BY <1>3 DEF Ends, collection
  <2> DEFINE q == Disabled(p)
             others == points \ {p}
  <2>2. p \in Points /\ Proper(points) /\ points = others \union {p} /\ p \notin others
    BY DEF Facts, Proper
  <2>3. q \in Points /\ Same(p, q) /\ points' = others \union {q}
    BY <2>1, <2>2, Copies
  <2> HIDE DEF q, others
  <2>4. Proper(points')
    BY <2>2, <2>3, SameIsProper
  <2>5. IdsInOrder' /\ ShownIsData' /\ Forever
    BY <1>1, <2>2, <2>3 DEF Facts, IdsInOrder, ShownIsData, Same, Words, Forever
  <2> QED
    BY <1>1, <2>4, <2>5 DEF Facts, force
<1> QED
  BY <1>2, <1>3

LEMMA CommandStep ==
    ASSUME Facts, Command
    PROVE  Facts' /\ Forever /\ (said' = Error => Failure) /\ said'.what # "stop"
BY BreakpointSetStep, WatchpointSetStep, PointEnableStep, PointDisableStep, PointDeleteStep,
   OtherCommandStep DEF Command, PointCommand

LEMMA NextFacts ==
    ASSUME Facts, [Next]_vars
    PROVE  Facts'
<1>1. CASE UNCHANGED vars
  <2>1. IdsInOrder' /\ ShownIsData'
    BY <1>1 DEF Facts, vars, IdsInOrder, ShownIsData, Words
  <2> QED
    BY <1>1, <2>1 DEF Facts, vars, Alive
<1> QED
  BY <1>1, CommandStep, GoStep, StepOverStep, StopsStep, EndsStep DEF Next

LEMMA Invariant == Spec => []Facts
BY InitFacts, NextFacts, PTL DEF Spec

\* Points have the ids, addresses and registers that exist, whatever the user types.
THEOREM TypeCorrect == Spec => []TypeOK
<1>1. Facts => TypeOK
  BY FactsIInv DEF IInv
<1> QED
  BY <1>1, Invariant, PTL

\* The lists that the user is shown are what is in force in the tracee, each point in a place of
\* its own, after any commands, and also after those that threw half-way.
THEOREM ListedIsInForceCorrect == Spec => []ListedIsInForce
<1>1. Facts => ListedIsInForce
  BY FactsIInv DEF IInv
<1> QED
  BY <1>1, Invariant, PTL

\* Within a kind an id is one point, and so is an address.
THEOREM OneOfEachCorrect == Spec => []OneOfEach
<1>1. Facts => OneOfEach
  BY FactsIInv DEF IInv
<1> QED
  BY <1>1, Invariant, PTL

\* No id is given to a second point.
THEOREM IdsAreForeverCorrect == Spec => IdsAreForever
<1>1. Facts /\ [Next]_vars => [Forever]_vars
  BY CommandStep, GoStep, StepOverStep, StopsStep, EndsStep DEF Next
<1> QED
  BY <1>1, Invariant, PTL DEF Spec, IdsAreForever, Forever

\* A command that reports an error has changed nothing that is in force, no point that there was,
\* and not the policy; and memory only up to the word at which a write broke off.
THEOREM FailureCorrect == Spec => FailureIsContained
<1>1. Facts /\ [Next]_vars => [Command /\ said' = Error => Failure]_vars
  BY CommandStep
<1> QED
  BY <1>1, Invariant, PTL DEF Spec, FailureIsContained, Failure, BrokenOff

\* A stop at a trap or at a debug register is that of an enabled point, and told with its id; only
\* for a watchpoint a site at the same address, enabled or not, is named.
THEOREM StopIsNamedCorrect == Spec => StopIsNamed
<1>1. Facts /\ [Next]_vars => [Naming]_vars
  <2> SUFFICES ASSUME Facts, Next PROVE Naming
    OBVIOUS
  <2>1. CASE said'.what # "stop"
    BY <2>1 DEF Naming
  <2> QED
    BY <2>1, CommandStep, GoStep, StepOverStep, StopsStep, EndsStep DEF Next
<1> QED
  BY <1>1, Invariant, PTL DEF Spec, StopIsNamed, Naming

\* A watchpoint's report shows the value in memory, and the one of its report before.
THEOREM OldAndNewCorrect == Spec => OldAndNew
<1>1. Facts /\ [Next]_vars => [Report]_vars
  <2> SUFFICES ASSUME Facts, Next PROVE Report
    OBVIOUS
  <2>1. CASE said'.what # "stop"
    BY <2>1 DEF Report
  <2> QED
    BY <2>1, CommandStep, GoStep, StepOverStep, StopsStep, EndsStep DEF Next
<1> QED
  BY <1>1, Invariant, PTL DEF Spec, OldAndNew, Report
=============================================================================
