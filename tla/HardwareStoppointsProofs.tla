--------------------- MODULE HardwareStoppointsProofs ---------------------
(***************************************************************************)
(* Each debug register in use belongs to one enabled stoppoint, whatever   *)
(* the user creates, enables, disables and removes, and however resume and *)
(* step_instruction take sites out and put them back.                      *)
(*                                                                         *)
(* The hypothesis ExecuteSizes is what set_watchpoint does not check: the  *)
(* run Hardware_size shows what becomes of the control register without.   *)
(***************************************************************************)
EXTENDS HardwareStoppoints, TLAPS

ExecuteSizes == \A p \in Points : ModeOf[p] = "execute" => SizeOf[p] = 1

\* A site that is taken out leaves a register that its enable() will find.
RoomToComeBack == out # None => FreeSlots(cdr7) # {}

\* The kernel has taken their addresses once, and takes them again.
TakenAddresses ==
    /\ \A p \in enabled : AddressOf[p] \notin Refused
    /\ out # None => AddressOf[out] \notin Refused

OutInReenable == phase = "reenable" => out # None

HInv == TypeOK /\ SlotOwnership /\ CacheCoherent /\ RoomToComeBack /\ TakenAddresses /\ OutInReenable

-----------------------------------------------------------------------------
\* There are at most four registers.
LEMMA LeastExists ==
    ASSUME NEW F, F \subseteq 0 .. 3, F # {}
    PROVE  \E s \in F : \A t \in F : s <= t
<1>1. CASE 0 \in F
  BY <1>1
<1>2. CASE 0 \notin F /\ 1 \in F
  BY <1>2
<1>3. CASE 0 \notin F /\ 1 \notin F /\ 2 \in F
  BY <1>3
<1>4. CASE 0 \notin F /\ 1 \notin F /\ 2 \notin F
  <2>1. \A t \in F : t = 3
    BY <1>4
  <2>2. 3 \in F
    BY <2>1
  <2>3. \A t \in F : 3 <= t
    BY <2>1
  <2> QED BY <2>2, <2>3
<1> QED BY <1>1, <1>2, <1>3, <1>4

\* find_free_stoppoint_register returns a register that is free, when there is one.
LEMMA FreeSlotIsFree ==
    ASSUME NEW control, FreeSlots(control) # {}
    PROVE  find_free_stoppoint_register(control) \in FreeSlots(control)
<1>1. FreeSlots(control) \subseteq 0 .. 3
  BY SlotsAssumption DEF FreeSlots, Slots
<1> QED BY <1>1, LeastExists DEF find_free_stoppoint_register

\* While every register in use is owned, the kernel accepts the control register, and it
\* accepts it with one more stoppoint or one less.
LEMMA Accepted ==
    ASSUME ExecuteSizes, TypeOK, SlotOwnership, CacheCoherent
    PROVE  /\ \A s \in Slots, p \in Points : KernelAccepts([cdr7 EXCEPT ![s] = On(p)])
           /\ \A s \in Slots : KernelAccepts([cdr7 EXCEPT ![s] = Off])
<1>1. \A s \in Slots : cdr7[s].on /\ cdr7[s].mode = "execute" => cdr7[s].size = 1
  <2> SUFFICES ASSUME NEW s \in Slots, cdr7[s].on, cdr7[s].mode = "execute"
               PROVE  cdr7[s].size = 1
    OBVIOUS
  <2>1. PICK p \in enabled : index[p] = s
    BY DEF SlotOwnership, CacheCoherent, Owns
  <2>2. cdr7[s] = On(p) /\ p \in Points
    BY <2>1 DEF SlotOwnership, CacheCoherent, TypeOK
  <2> QED BY <2>2 DEF On, ExecuteSizes
<1> QED
  BY <1>1, PointsAssumption DEF ExecuteSizes, TypeOK, KernelAccepts, On, Off, Control

\* disable keeps the ownership of the registers, and makes room.
LEMMA DisableKeeps ==
    ASSUME ExecuteSizes, TypeOK, SlotOwnership, CacheCoherent, NEW p \in created, disable(p)
    PROVE  /\ CacheCoherent'
           /\ {dr', cdr'} \subseteq [Slots -> {AddressOf[q] : q \in Points} \union {None}]
           /\ {dr7', cdr7'} \subseteq Control
           /\ index' \in [Points -> Slots \union {-1}]
           /\ enabled' = enabled \ {p}
           /\ SlotOwnership'
           /\ p \in enabled => FreeSlots(cdr7') # {}
           /\ FreeSlots(cdr7) \subseteq FreeSlots(cdr7')
           /\ \A q \in enabled' : /\ index'[q] = index[q]
                                  /\ dr'[index[q]] = dr[index[q]]
                                  /\ dr7'[index[q]] = dr7[index[q]]
           /\ ~DisableThrows(p)
<1>1. CASE p \notin enabled
  BY <1>1 DEF disable, DisableThrows, TypeOK, SlotOwnership, CacheCoherent, registers, Owns
<1>2. CASE p \in enabled
  <2> DEFINE s == index[p]
  <2>1. s \in Slots /\ p \in Points
    BY <1>2 DEF SlotOwnership, TypeOK
  <2>2. KernelAccepts([cdr7 EXCEPT ![s] = Off])
    BY <2>1, Accepted
  <2>3. /\ cdr' = [cdr EXCEPT ![s] = None] /\ dr' = [dr EXCEPT ![s] = None]
        /\ cdr7' = [cdr7 EXCEPT ![s] = Off] /\ dr7' = cdr7'
        /\ enabled' = enabled \ {p}
        /\ index' \in {index, [index EXCEPT ![p] = -1]}
    BY <1>2, <2>2, CodeAssumption DEF disable, write_dr, write_dr7
  <2>4. /\ {dr, cdr} \subseteq [Slots -> {AddressOf[q] : q \in Points} \union {None}]
        /\ dr7 \in Control /\ cdr7 = dr7
        /\ index \in [Points -> Slots \union {-1}]
        /\ enabled \subseteq Points
    BY DEF TypeOK, CacheCoherent
  <2>5. /\ {dr', cdr'} \subseteq [Slots -> {AddressOf[q] : q \in Points} \union {None}]
        /\ dr7' \in Control
        /\ index' \in [Points -> Slots \union {-1}]
    <3>1. {dr', cdr'} \subseteq [Slots -> {AddressOf[q] : q \in Points} \union {None}]
      BY <2>1, <2>3, <2>4
    <3>2. dr7' \in Control
      BY <2>1, <2>3, <2>4 DEF Control, Off, Modes
    <3>3. index' \in [Points -> Slots \union {-1}]
      BY <2>1, <2>3, <2>4
    <3> QED BY <3>1, <3>2, <3>3
  <2>6. \A q \in enabled' : /\ q \in enabled /\ q # p /\ index[q] \in Slots /\ index[q] # s
                            /\ index'[q] = index[q]
                            /\ dr'[index[q]] = dr[index[q]]
                            /\ dr7'[index[q]] = dr7[index[q]]
    <3> SUFFICES ASSUME NEW q \in enabled'
                 PROVE  /\ q \in enabled /\ q # p /\ index[q] \in Slots /\ index[q] # s
                        /\ index'[q] = index[q]
                        /\ dr'[index[q]] = dr[index[q]]
                        /\ dr7'[index[q]] = dr7[index[q]]
      OBVIOUS
    <3>1. q \in enabled /\ q # p /\ index[q] \in Slots /\ index[q] # s
      BY <1>2, <2>3 DEF SlotOwnership
    <3>2. index'[q] = index[q]
      BY <3>1, <2>3, <2>4
    <3>3. dr'[index[q]] = dr[index[q]] /\ dr7'[index[q]] = dr7[index[q]]
      <4> HIDE DEF s
      <4> QED BY <3>1, <2>3, <2>4 DEF Control
    <3> QED BY <3>1, <3>2, <3>3
  <2>7. dr7'[s] = Off /\ FreeSlots(cdr7') # {} /\ FreeSlots(cdr7) \subseteq FreeSlots(cdr7')
    <3>1. dr7'[s] = Off /\ \A t \in Slots : dr7'[t] \in {Off, cdr7[t]}
      BY <2>1, <2>3, <2>4 DEF Control
    <3> QED BY <3>1, <2>1, <2>3 DEF FreeSlots, Off
  <2>8. SlotOwnership'
    <3>1. \A q \in enabled' : /\ index'[q] \in Slots
                              /\ dr'[index'[q]] = AddressOf[q]
                              /\ dr7'[index'[q]] = On(q)
      BY <2>6 DEF SlotOwnership
    <3>2. \A q, r \in enabled' : index'[q] = index'[r] => q = r
      BY <2>6 DEF SlotOwnership
    <3>3. ASSUME NEW t \in Slots, dr7'[t].on
          PROVE  \E q \in enabled' : index'[q] = t
      <4>1. t # s /\ dr7'[t] = dr7[t]
        BY <3>3, <2>7, <2>3, <2>4 DEF Off, Control
      <4>2. PICK q \in enabled : index[q] = t
        BY <4>1, <3>3 DEF SlotOwnership, Owns
      <4> QED BY <4>1, <4>2, <2>3, <2>6
    <3> QED BY <3>1, <3>2, <3>3 DEF SlotOwnership, Owns, On
  <2>9. ~DisableThrows(p)
    BY <2>2 DEF DisableThrows
  <2>10. CacheCoherent'
    <3>1. \A t \in Slots : /\ t # s => cdr'[t] = cdr[t] /\ dr'[t] = dr[t] /\ dr7'[t] = dr7[t]
                          /\ cdr'[s] = dr'[s]
      <4> HIDE DEF s
      <4> QED BY <2>1, <2>3, <2>4 DEF Control
    <3> QED BY <3>1, <2>3 DEF CacheCoherent
  <2> QED BY <1>2, <2>3, <2>4, <2>5, <2>6, <2>7, <2>8, <2>9, <2>10
<1> QED BY <1>1, <1>2

\* enable gives the stoppoint a register of its own, or changes no register in use.
LEMMA EnableKeeps ==
    ASSUME ExecuteSizes, TypeOK, SlotOwnership, CacheCoherent, NEW p \in created, enable(p)
    PROVE  /\ CacheCoherent'
           /\ {dr', cdr'} \subseteq [Slots -> {AddressOf[q] : q \in Points} \union {None}]
           /\ {dr7', cdr7'} \subseteq Control
           /\ index' \in [Points -> Slots \union {-1}]
           /\ enabled \subseteq enabled' /\ enabled' \subseteq enabled \union {p}
           /\ SlotOwnership'
           /\ \A q \in enabled : /\ index'[q] = index[q]
                                 /\ dr'[index[q]] = dr[index[q]]
                                 /\ dr7'[index[q]] = dr7[index[q]]
           /\ FreeSlots(cdr7) # {} /\ WritesControl(p) => p \in enabled'
           /\ p \in enabled \/ p \notin enabled' \/ AddressOf[p] \notin Refused
<1>0. /\ {dr, cdr} \subseteq [Slots -> {AddressOf[q] : q \in Points} \union {None}]
      /\ dr7 \in Control /\ cdr7 = dr7
      /\ index \in [Points -> Slots \union {-1}]
      /\ enabled \subseteq Points /\ p \in Points
  BY DEF TypeOK, CacheCoherent
<1>1. CASE p \in enabled \/ FreeSlots(cdr7) = {}
  BY <1>0, <1>1 DEF enable, SlotOwnership, CacheCoherent, registers, Owns
<1>2. CASE p \notin enabled /\ FreeSlots(cdr7) # {}
  <2> DEFINE s       == find_free_stoppoint_register(cdr7)
             control == [cdr7 EXCEPT ![s] = On(p)]
  <2>1. s \in Slots /\ ~cdr7[s].on
    BY <1>2, FreeSlotIsFree DEF FreeSlots
  <2>2. KernelAccepts(control)
    BY <2>1, <1>0, Accepted
  <2>3. /\ cdr' = [cdr EXCEPT ![s] = AddressOf[p]]
        /\ dr' = IF AddressOf[p] \in Refused THEN dr ELSE [dr EXCEPT ![s] = AddressOf[p]]
        /\ WritesControl(p) => /\ cdr7' = control /\ dr7' = control
                               /\ enabled' = enabled \union {p}
                               /\ index' = [index EXCEPT ![p] = s]
        /\ ~WritesControl(p) => UNCHANGED <<cdr7, dr7, enabled, index>>
    BY <1>2, <2>2 DEF enable, write_dr, write_dr7
  <2> HIDE DEF s
  <2>4. {dr', cdr'} \subseteq [Slots -> {AddressOf[q] : q \in Points} \union {None}]
    BY <1>0, <2>1, <2>3
  <2>5. On(p) \in [on : BOOLEAN, mode : Modes, size : Nat \ {0}] /\ On(p).on
    BY <1>0, PointsAssumption DEF On
  <2>6. dr7' \in Control /\ index' \in [Points -> Slots \union {-1}]
    <3>1. control \in Control
      BY <1>0, <2>1, <2>5 DEF Control
    <3>2. [index EXCEPT ![p] = s] \in [Points -> Slots \union {-1}]
      BY <1>0, <2>1
    <3> QED
      BY <1>0, <2>3, <3>1, <3>2
  <2>7. \A q \in enabled : /\ q # p /\ index[q] \in Slots /\ index[q] # s
                           /\ index'[q] = index[q]
                           /\ dr'[index[q]] = dr[index[q]]
                           /\ dr7'[index[q]] = dr7[index[q]]
    <3> SUFFICES ASSUME NEW q \in enabled
                 PROVE  /\ q # p /\ index[q] \in Slots /\ index[q] # s
                        /\ index'[q] = index[q]
                        /\ dr'[index[q]] = dr[index[q]]
                        /\ dr7'[index[q]] = dr7[index[q]]
      OBVIOUS
    <3>1. q # p /\ index[q] \in Slots /\ index[q] # s
      <4>1. q # p /\ index[q] \in Slots /\ dr7[index[q]] = On(q)
        BY <1>2 DEF SlotOwnership
      <4>2. cdr7[index[q]].on
        BY <4>1, <1>0 DEF On
      <4> QED BY <4>1, <4>2, <2>1
    <3>2. index'[q] = index[q]
      BY <3>1, <2>3, <1>0
    <3>3. dr'[index[q]] = dr[index[q]] /\ dr7'[index[q]] = dr7[index[q]]
      BY <3>1, <2>3, <1>0 DEF Control
    <3> QED BY <3>1, <3>2, <3>3
  <2>8. WritesControl(p) => /\ index'[p] = s /\ dr'[s] = AddressOf[p] /\ dr7'[s] = On(p)
                            /\ \A t \in Slots : t # s => dr7'[t] = dr7[t]
    BY <1>0, <2>1, <2>3 DEF Control, WritesControl
  <2>9. SlotOwnership'
    <3>1. \A q \in enabled' : /\ index'[q] \in Slots
                              /\ dr'[index'[q]] = AddressOf[q]
                              /\ dr7'[index'[q]] = On(q)
      BY <2>1, <2>3, <2>7, <2>8 DEF SlotOwnership
    <3>2. \A q, r \in enabled' : index'[q] = index'[r] => q = r
      BY <2>3, <2>7, <2>8 DEF SlotOwnership
    <3>3. ASSUME NEW t \in Slots, dr7'[t].on
          PROVE  \E q \in enabled' : index'[q] = t
      <4>1. CASE WritesControl(p) /\ t = s
        BY <4>1, <2>3, <2>8
      <4>2. CASE ~(WritesControl(p) /\ t = s)
        <5>1. dr7'[t] = dr7[t]
          BY <4>2, <2>3, <2>8
        <5>2. PICK q \in enabled : index[q] = t
          BY <5>1, <3>3 DEF SlotOwnership, Owns
        <5> QED BY <5>2, <2>3, <2>7
      <4> QED BY <4>1, <4>2
    <3> QED BY <3>1, <3>2, <3>3 DEF SlotOwnership, Owns, On
  <2>10. CacheCoherent'
    <3>1. cdr7' = dr7'
      BY <1>0, <2>3
    <3>2. ASSUME NEW t \in Slots, cdr'[t] # dr'[t]
          PROVE  ~dr7'[t].on /\ cdr'[t] \in Refused
      <4>1. CASE t = s
        <5>1. AddressOf[p] \in Refused /\ cdr'[s] = AddressOf[p]
          BY <1>0, <2>1, <2>3, <3>2, <4>1
        <5>2. dr7' = dr7
          BY <2>3, <5>1 DEF WritesControl
        <5> QED BY <1>0, <2>1, <4>1, <5>1, <5>2
      <4>2. CASE t # s
        <5>1. cdr'[t] = cdr[t] /\ dr'[t] = dr[t] /\ dr7'[t] = dr7[t]
          BY <1>0, <2>1, <2>3, <4>2 DEF Control
        <5> QED BY <3>2, <5>1 DEF CacheCoherent
      <4> QED BY <4>1, <4>2
    <3> QED BY <3>1, <3>2 DEF CacheCoherent
  <2> QED BY <1>0, <2>3, <2>4, <2>6, <2>7, <2>9, <2>10 DEF WritesControl
<1> QED BY <1>1, <1>2

-----------------------------------------------------------------------------
LEMMA InitHInv == Init => HInv
<1> SUFFICES ASSUME Init PROVE HInv
  OBVIOUS
<1>1. TypeOK
  <2>1. {dr7, cdr7} \subseteq Control
    BY DEF Init, Control, Off, Modes
  <2>2. {dr, cdr} \subseteq [Slots -> {AddressOf[p] : p \in Points} \union {None}]
    BY DEF Init
  <2>3. index \in [Points -> Slots \union {-1}]
    BY DEF Init
  <2> QED BY <2>1, <2>2, <2>3 DEF Init, TypeOK, Phases
<1>2. SlotOwnership /\ CacheCoherent /\ RoomToComeBack /\ TakenAddresses /\ OutInReenable
  BY DEF Init, OutInReenable, SlotOwnership, CacheCoherent, RoomToComeBack, TakenAddresses, Off, Owns
<1> QED BY <1>1, <1>2 DEF HInv

\* The actions that leave the tracee's registers and the points alone.
Elsewhere == WaitStopped \/ ExecuteHit \/ Instruction \/ OtherStop

LEMMA ElsewhereKeeps == HInv /\ Elsewhere => HInv'
<1> SUFFICES ASSUME HInv, Elsewhere PROVE HInv'
  OBVIOUS
<1> USE DEF HInv
<1>1. UNCHANGED <<dr, dr7, cdr7, points, out>> /\ cdr' \in {dr, cdr}
  BY DEF Elsewhere, WaitStopped, ExecuteHit, Instruction, Access, OtherStop, registers, points,
         CacheCoherent
<1>2. SlotOwnership' /\ CacheCoherent' /\ RoomToComeBack' /\ TakenAddresses'
  BY <1>1 DEF points, SlotOwnership, CacheCoherent, RoomToComeBack, TakenAddresses, Owns, FreeSlots
<1>3. dr6' \subseteq Slots /\ rf' \in BOOLEAN /\ pc' \in Code
  BY DEF Elsewhere, WaitStopped, ExecuteHit, Instruction, Access, OtherStop, TypeOK, Hit
<1>4. phase' \in Phases /\ (out # None => phase' \notin {"prompt", "running", "stopped"})
  <2>1. CASE WaitStopped
    BY <2>1 DEF WaitStopped, Phases, TypeOK
  <2>2. CASE ExecuteHit \/ Instruction \/ OtherStop
    BY <2>2 DEF ExecuteHit, Instruction, Access, OtherStop, Stopped, Runs, Phases, TypeOK
  <2> QED BY <2>1, <2>2 DEF Elsewhere
<1>5. told' \in Points \union {None}
  BY DEF Elsewhere, WaitStopped, ExecuteHit, Instruction, Access, OtherStop, TypeOK,
         get_current_hardware_stoppoint
<1>7. OutInReenable'
  BY <1>4, <1>1 DEF Elsewhere, WaitStopped, ExecuteHit, Instruction, Access, OtherStop, Stopped,
                    Runs, OutInReenable
<1> QED BY <1>1, <1>2, <1>3, <1>4, <1>5, <1>7 DEF TypeOK, points

\* What a call of the user keeps.
LEMMA CallKeeps ==
    ASSUME ExecuteSizes, HInv, NEW p \in Points,
           Create(p) \/ Enable(p) \/ Disable(p) \/ Remove(p)
    PROVE  HInv' /\ Undisturbed
<1> USE DEF HInv
<1>0. /\ out = None /\ out' = None
      /\ UNCHANGED <<dr6, rf, pc, phase, told>>
      /\ enabled \subseteq created /\ created \subseteq Points
      /\ OutInReenable'
  BY DEF Create, Enable, Disable, Remove, AtPrompt, TypeOK, OutInReenable
<1>1. CASE Create(p)
  <2>1. UNCHANGED <<registers, enabled, index>> /\ created' = created \union {p}
    BY <1>1 DEF Create
  <2> QED BY <1>0, <2>1 DEF registers, TypeOK, SlotOwnership, CacheCoherent, RoomToComeBack,
                           TakenAddresses, Owns, Undisturbed
<1>2. CASE Enable(p)
  <2>1. p \in created /\ enable(p) /\ created' = created
    BY <1>2 DEF Enable
  <2>2. enabled' \subseteq created'
    BY <1>0, <2>1, EnableKeeps
  <2>3. TypeOK'
    BY <1>0, <2>1, <2>2, EnableKeeps DEF TypeOK
  <2>4. SlotOwnership' /\ CacheCoherent' /\ RoomToComeBack' /\ TakenAddresses'
    BY <1>0, <2>1, EnableKeeps DEF RoomToComeBack, TakenAddresses
  <2>5. Undisturbed
    BY <2>1, EnableKeeps DEF Undisturbed
  <2> QED BY <1>0, <2>3, <2>4, <2>5
<1>3. CASE Disable(p) \/ Remove(p)
  <2>1. p \in created /\ disable(p) /\ created' \in {created, created \ {p}}
    BY <1>3 DEF Disable, Remove
  <2>2. enabled' = enabled \ {p}
    BY <2>1, DisableKeeps
  <2>3. TypeOK'
    BY <1>0, <2>1, <2>2, DisableKeeps DEF TypeOK
  <2>4. SlotOwnership' /\ CacheCoherent' /\ RoomToComeBack' /\ TakenAddresses'
    BY <1>0, <2>1, DisableKeeps DEF RoomToComeBack, TakenAddresses
  <2>5. Undisturbed
    BY <2>1, <2>2, DisableKeeps DEF Undisturbed
  <2> QED BY <1>0, <2>3, <2>4, <2>5
<1> QED BY <1>1, <1>2, <1>3

\* What resume and step_instruction keep until they wait.
LEMMA GoKeeps ==
    ASSUME ExecuteSizes, HInv, Resume \/ step_instruction
    PROVE  HInv' /\ Undisturbed
<1> USE DEF HInv
<1>0. /\ out = None /\ phase = "prompt"
      /\ told' = None
      /\ UNCHANGED <<dr6, rf, pc, created>>
      /\ enabled \subseteq created /\ created \subseteq Points
  BY DEF Resume, step_instruction, Go, AtPrompt, TypeOK
<1>1. CASE SitesAtPc = {}
  <2>1. /\ UNCHANGED <<registers, enabled, index, out>>
        /\ phase' \in {"step_over", "running", "step"}
    BY <1>1 DEF Resume, step_instruction, Go
  <2> QED BY <1>0, <2>1 DEF registers, TypeOK, SlotOwnership, CacheCoherent, RoomToComeBack,
                           TakenAddresses, OutInReenable, Owns, Undisturbed, Phases
<1>2. CASE SitesAtPc # {}
  <2>1. PICK p \in SitesAtPc :
           /\ disable(p)
           /\ ~DisableThrows(p) => phase' \in {"step_over", "step"} /\ out' = p
    BY <1>2 DEF Resume, step_instruction, Go
  <2>2. p \in enabled /\ p \in created /\ p \notin Watches
    BY <1>0, <2>1 DEF SitesAtPc
  <2>3. enabled' = enabled \ {p} /\ phase' \in {"step_over", "step"} /\ out' = p
    BY <2>1, <2>2, DisableKeeps
  <2>4. TypeOK'
    BY <1>0, <2>1, <2>2, <2>3, DisableKeeps DEF TypeOK, Phases
  <2>5. SlotOwnership' /\ CacheCoherent' /\ RoomToComeBack' /\ TakenAddresses'
    BY <2>1, <2>2, DisableKeeps DEF RoomToComeBack, TakenAddresses
  <2>6. Undisturbed
    BY <2>1, <2>2, <2>3, DisableKeeps DEF Undisturbed
  <2> QED BY <2>3, <2>4, <2>5, <2>6 DEF OutInReenable
<1> QED BY <1>1, <1>2

\* What putting a site back keeps, and that it comes back.
LEMMA BackKeeps ==
    ASSUME ExecuteSizes, HInv, StepOverDone \/ StepDone
    PROVE  HInv' /\ Undisturbed /\ (out # None => out \in enabled')
<1> USE DEF HInv
<1>0. /\ out' = None /\ phase' \in {"running", "prompt"}
      /\ UNCHANGED <<dr6, rf, pc, created, told>>
      /\ enabled \subseteq created /\ created \subseteq Points
      /\ None \notin Points
  BY PointsAssumption DEF StepOverDone, StepDone, TypeOK
<1>1. CASE UNCHANGED <<registers, enabled, index>> /\ out = None
  BY <1>0, <1>1 DEF registers, TypeOK, SlotOwnership, CacheCoherent, RoomToComeBack,
                    TakenAddresses, OutInReenable, Owns, Undisturbed, Phases
<1>2. CASE out # None /\ enable(out)
  <2>1. out \in created /\ WritesControl(out) /\ FreeSlots(cdr7) # {}
    BY <1>0, <1>2, SitesAssumption DEF TypeOK, WritesControl, Encodable, RoomToComeBack, TakenAddresses
  <2>2. enabled' \subseteq created' /\ out \in enabled'
    BY <1>0, <1>2, <2>1, EnableKeeps
  <2>3. TypeOK'
    BY <1>0, <1>2, <2>1, <2>2, EnableKeeps DEF TypeOK, Phases
  <2>4. SlotOwnership' /\ CacheCoherent' /\ RoomToComeBack' /\ TakenAddresses'
    BY <1>0, <1>2, <2>1, EnableKeeps DEF RoomToComeBack, TakenAddresses
  <2>5. Undisturbed
    BY <1>2, <2>1, EnableKeeps DEF Undisturbed
  <2> QED BY <1>0, <2>2, <2>3, <2>4, <2>5 DEF OutInReenable
<1> QED BY <1>1, <1>2 DEF StepOverDone, StepDone, OutInReenable

LEMMA StepKeeps ==
    ASSUME ExecuteSizes, HInv, [Next]_vars
    PROVE  HInv' /\ Undisturbed /\ BackIn
<1>1. CASE \E p \in Points : Create(p) \/ Enable(p) \/ Disable(p) \/ Remove(p)
  <2>1. HInv' /\ Undisturbed
    BY <1>1, CallKeeps
  <2>2. phase = "prompt"
    BY <1>1 DEF Create, Enable, Disable, Remove, AtPrompt
  <2> QED BY <2>1, <2>2 DEF BackIn, StepOverDone, StepDone
<1>2. CASE Resume \/ step_instruction
  <2>1. HInv' /\ Undisturbed
    BY <1>2, GoKeeps
  <2>2. phase = "prompt"
    BY <1>2 DEF Resume, step_instruction, Go, AtPrompt
  <2> QED BY <2>1, <2>2 DEF BackIn, StepOverDone, StepDone
<1>3. CASE StepOverDone \/ StepDone
  BY <1>3, BackKeeps DEF BackIn
<1>4. CASE Elsewhere \/ UNCHANGED vars
  <2>1. UNCHANGED <<dr, dr7, points, out>>
    BY <1>4 DEF Elsewhere, WaitStopped, ExecuteHit, Instruction, Access, OtherStop, registers,
                points, vars
  <2>2. HInv'
    <3>1. CASE Elsewhere
      BY <3>1, ElsewhereKeeps
    <3>2. CASE UNCHANGED vars
      BY <3>2 DEF vars, HInv, TypeOK, SlotOwnership, CacheCoherent, RoomToComeBack, TakenAddresses,
                  Owns, OutInReenable, FreeSlots
    <3> QED BY <1>4, <3>1, <3>2
  <2>3. Undisturbed
    BY <2>1 DEF Undisturbed, points
  <2>4. BackIn
    BY <2>1 DEF BackIn, StepOverDone, StepDone, HInv, TypeOK
  <2> QED BY <2>2, <2>3, <2>4
<1> QED BY <1>1, <1>2, <1>3, <1>4 DEF Next, Elsewhere

-----------------------------------------------------------------------------
LEMMA HInvariance == ASSUME ExecuteSizes PROVE Spec => []HInv
<1>1. Init => HInv
  BY InitHInv
<1>2. HInv /\ [Next]_vars => HInv'
  BY StepKeeps
<1> QED BY <1>1, <1>2, PTL DEF Spec

\* The variables of the debug registers have their types in every state.
THEOREM TypeCorrect == ASSUME ExecuteSizes PROVE Spec => []TypeOK
<1>1. HInv => TypeOK
  BY DEF HInv
<1> QED BY <1>1, HInvariance, PTL

\* The debug registers that set_hardware_stoppoint allots belong each to one enabled
\* stoppoint, and hold its address, mode and size.
THEOREM RegistersAreOwned == ASSUME ExecuteSizes PROVE Spec => []SlotOwnership
<1>1. HInv => SlotOwnership
  BY DEF HInv
<1> QED BY <1>1, HInvariance, PTL

\* The cache from which set_hardware_stoppoint computes DR7 is never stale, and an address in it
\* only where the kernel has refused one, in a register that is not in use.
THEOREM CacheIsFresh == ASSUME ExecuteSizes PROVE Spec => []CacheCoherent
<1>1. HInv => CacheCoherent
  BY DEF HInv
<1> QED BY <1>1, HInvariance, PTL

\* No call on a stoppoint changes the register of another one.
THEOREM CallsDoNotInterfere == ASSUME ExecuteSizes PROVE Spec => NoInterference
<1>1. HInv /\ [Next]_vars => [Undisturbed]_vars
  BY StepKeeps
<1> QED BY <1>1, HInvariance, PTL DEF Spec, NoInterference

\* What resume and step_instruction take out they put back.
THEOREM SitesComeBack == ASSUME ExecuteSizes PROVE Spec => OutComesBack
<1>1. HInv /\ [Next]_vars => [BackIn]_vars
  BY StepKeeps
<1> QED BY <1>1, HInvariance, PTL DEF Spec, OutComesBack

-----------------------------------------------------------------------------
\* Until a stop is looked at, the registers that it names are in use.
HitsOn == phase \in {"stopped", "step_stopped"} => \A s \in dr6 : dr7[s].on

LEMMA StepKeepsHitsOn ==
    ASSUME HInv, HitsOn, [Next]_vars
    PROVE  HitsOn'
<1>1. CASE \E p \in Points : Create(p) \/ Enable(p) \/ Disable(p) \/ Remove(p)
  BY <1>1 DEF Create, Enable, Disable, Remove, AtPrompt, HitsOn
<1>2. CASE Resume \/ step_instruction
  BY <1>2 DEF Resume, step_instruction, Go, AtPrompt, HitsOn
<1>3. CASE StepOverDone \/ StepDone \/ WaitStopped
  BY <1>3 DEF StepOverDone, StepDone, WaitStopped, HitsOn
<1>4. CASE ExecuteHit
  BY <1>4 DEF ExecuteHit, Hit, registers, HitsOn
<1>5. CASE Instruction
  <2>1. PICK address, modes : Access(address, modes)
    BY <1>5 DEF Instruction
  <2>2. dr7' = dr7 /\ dr6' \subseteq Hit(address, modes)
    BY <2>1 DEF Access, registers
  <2> QED BY <2>2 DEF Hit, HitsOn
<1>6. CASE OtherStop
  BY <1>6 DEF OtherStop, HitsOn
<1>7. CASE UNCHANGED vars
  BY <1>7 DEF vars, HitsOn
<1> QED BY <1>1, <1>2, <1>3, <1>4, <1>5, <1>6, <1>7 DEF Next

LEMMA HitsInvariance == ASSUME ExecuteSizes PROVE Spec => [](HInv /\ HitsOn)
<1>1. Init => HitsOn
  BY DEF Init, HitsOn
<1>2. HInv /\ HitsOn /\ [Next]_vars => HitsOn'
  BY StepKeepsHitsOn
<1> QED BY <1>1, <1>2, HInvariance, PTL DEF Spec

\* wait_on_signal names the address of a stoppoint that was hit and is enabled.
THEOREM AttributionCorrect == ASSUME ExecuteSizes PROVE Spec => Attribution
<1>1. HInv /\ HitsOn =>
        (WaitStopped /\ told' # None =>
            \E p \in enabled : index[p] \in dr6 /\ AddressOf[p] = AddressOf[told'])
  <2> SUFFICES ASSUME HInv, HitsOn, WaitStopped, told' # None
               PROVE  \E p \in enabled : index[p] \in dr6 /\ AddressOf[p] = AddressOf[told']
    OBVIOUS
  <2> DEFINE s == Lowest(dr6)
  <2>1. dr6 # {} /\ told' \in get_current_hardware_stoppoint
    BY DEF WaitStopped
  <2>2. s \in dr6 /\ s \in Slots
    <3>1. dr6 \subseteq 0 .. 3
      BY SlotsAssumption DEF HInv, TypeOK, Slots
    <3> QED BY <2>1, <3>1, LeastExists DEF Lowest, HInv, TypeOK
  <2>3. AddressOf[told'] = dr[s]
    BY <2>1 DEF get_current_hardware_stoppoint
  <2>4. dr7[s].on
    BY <2>2 DEF HitsOn, WaitStopped
  <2>5. PICK p \in enabled : index[p] = s
    BY <2>2, <2>4 DEF HInv, SlotOwnership, Owns
  <2>6. AddressOf[p] = dr[s]
    BY <2>5 DEF HInv, SlotOwnership
  <2> QED BY <2>2, <2>3, <2>5, <2>6
<1> QED BY <1>1, HitsInvariance, PTL DEF Attribution

=============================================================================
