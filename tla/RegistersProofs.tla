-------------------------- MODULE RegistersProofs ---------------------------
(***************************************************************************)
(* Theorems about Registers, for every layout of the user area in which no *)
(* register crosses a word, and for whatever the parser returns; and       *)
(* theorems about the parser, for every text.                              *)
(***************************************************************************)
EXTENDS Registers, WellFoundedInduction, TLAPS

CONSTANTS Leftovers, Throws

INSTANCE Parse

Areas == [Area -> Bytes]

IInv == TypeOK /\ Coherent

\* A value's bytes and what widen() puts after them are bytes.
LEMMA WidenedIsBytes ==
    ASSUME NEW r \in Registers, NEW v, Typed(v), NEW i \in Nat \ {0}
    PROVE  widen(r, v, i) \in Bytes
<1>1. /\ \A k \in 1 .. Len(v.bytes) : v.bytes[k] \in Bytes
      /\ Len(v.bytes) \in Nat \ {0}
  BY DEF Typed
<1>2. SignOf(v.bytes[Len(v.bytes)]) \in Bytes /\ 0 \in Bytes
  BY <1>1, ValuesAssumption
<1>3. CASE i <= Len(v.bytes)
  BY <1>1, <1>3 DEF widen
<1>4. CASE i > Len(v.bytes)
  BY <1>1, <1>2, <1>4 DEF widen
<1> QED
  BY <1>1, <1>3, <1>4

\* The copy after a write: an area that differs in the bytes of the register only.
LEMMA CopiedIsLocal ==
    ASSUME TypeOK, NEW r \in Registers, NEW v, Typed(v)
    PROVE  /\ copied(r, v) \in Areas
           /\ \A i \in Area \ BytesOf(r) : copied(r, v)[i] = data[i]
<1>1. \A i \in BytesOf(r) : i - OffsetOf[r] + 1 \in Nat \ {0}
  BY RegistersAssumption, AreaAssumption DEF BytesOf, Area
<1>2. \A i \in BytesOf(r) : widen(r, v, i - OffsetOf[r] + 1) \in Bytes
  BY <1>1, WidenedIsBytes
<1> QED
  BY <1>2 DEF TypeOK, copied, Areas

\* The kernel is handed every byte of the register.
LEMMA RegionHoldsRegister ==
    ASSUME NEW r \in Registers
    PROVE  BytesOf(r) \subseteq region(r) /\ region(r) \subseteq Area
BY LayoutAssumption, RegistersAssumption, AreaAssumption DEF region, BytesOf

\* A write that is accepted keeps the copy and the tracee's registers equal, if they were.
LEMMA WriteStep ==
    ASSUME IInv, NEW r \in Registers, NEW v, Typed(v), write(r, v)
    PROVE  /\ user' \in Areas /\ data' \in Areas /\ refused' \in BOOLEAN
           /\ Coherent'
           /\ tracee # "running" /\ ~refused =>
                 \A i \in Area : user'[i] # user[i] => i \in BytesOf(r)
<1> DEFINE area == copied(r, v)
<1>1. area \in Areas /\ \A i \in Area \ BytesOf(r) : area[i] = data[i]
  BY CopiedIsLocal DEF IInv
<1>2. BytesOf(r) \subseteq region(r) /\ region(r) \subseteq Area
  BY RegionHoldsRegister
<1>3. user \in Areas /\ refused \in BOOLEAN /\ (tracee = "stopped" /\ ~refused => data = user)
  BY DEF IInv, TypeOK, Coherent, Areas
<1>4. data' = area /\ tracee' = tracee
  BY DEF write
<1> HIDE DEF area
<1>5. CASE KernelAccepts(area, region(r))
  <2>1. /\ user' = [i \in Area |-> IF i \in region(r) THEN area[i] ELSE user[i]]
        /\ refused' = refused /\ tracee = "stopped"
    BY <1>5 DEF write, area, KernelAccepts
  <2>2. user' \in Areas
    BY <1>1, <1>3, <2>1 DEF Areas
  <2>3. ASSUME ~refused
        PROVE  user' = area /\ \A i \in Area : user'[i] # user[i] => i \in BytesOf(r)
    <3>1. data = user
      BY <1>3, <2>1, <2>3
    <3>2. \A i \in Area : user'[i] = area[i]
      BY <1>1, <1>2, <2>1, <3>1
    <3> QED
      BY <1>1, <2>2, <3>1, <3>2 DEF Areas
  <2> QED
    BY <1>1, <1>3, <1>4, <2>1, <2>2, <2>3 DEF Coherent
<1>6. CASE ~KernelAccepts(area, region(r))
  <2>1. user' = user /\ refused' = TRUE
    BY <1>6 DEF write, area
  <2> QED
    BY <1>1, <1>3, <1>4, <2>1 DEF Coherent
<1> QED
  BY <1>5, <1>6

LEMMA AcceptsIsBoolean == \A area, part : KernelAccepts(area, part) \in BOOLEAN
BY Zenon DEF KernelAccepts

\* What the two commands write is typed.
LEMMA CommandStep ==
    ASSUME IInv,
           NEW r \in Registers,
           \/ \E v \in Values : WriteById(r, v)
           \/ \E text \in Texts : RegisterWrite(r, text)
    PROVE  /\ last'.reg = r /\ last'.written \in BOOLEAN
           /\ \/ \E v : Typed(v) /\ write(r, v)
              \/ UNCHANGED <<user, data, tracee, refused>>
<1>1. CASE \E v \in Values : WriteById(r, v)
  BY <1>1, ValuesAssumption DEF WriteById, Outcome, KernelAccepts
<1>2. CASE \E text \in Texts : RegisterWrite(r, text)
  <2>1. PICK text \in Texts : RegisterWrite(r, text)
    BY <1>2
  <2>2. PICK v \in Parsed(r, text) :
            IF v = Failed
            THEN /\ last' = Outcome(r, Meant(r, text), FALSE)
                 /\ UNCHANGED <<user, data, tracee, refused>>
            ELSE /\ write(r, v)
                 /\ last' = Outcome(r, Meant(r, text), KernelAccepts(copied(r, v), region(r)))
    BY <2>1 DEF RegisterWrite
  <2>3. v = Failed \/ Typed(v)
    BY ValuesAssumption
  <2>4. KernelAccepts(copied(r, v), region(r)) \in BOOLEAN
    BY AcceptsIsBoolean
  <2>5. CASE v = Failed
    <3>1. last' = Outcome(r, Meant(r, text), FALSE)
      BY <2>2, <2>5
    <3>2. UNCHANGED <<user, data, tracee, refused>>
      BY <2>2, <2>5
    <3>3. last'.reg = r /\ last'.written = FALSE
      BY <3>1 DEF Outcome
    <3> QED
      BY <3>2, <3>3
  <2>6. CASE v # Failed
    <3>1. write(r, v) /\ Typed(v)
      BY <2>2, <2>3, <2>6
    <3>2. last'.reg = r /\ last'.written = KernelAccepts(copied(r, v), region(r))
      BY <2>2, <2>6 DEF Outcome
    <3> QED
      BY <2>4, <3>1, <3>2
  <2> QED
    BY <2>5, <2>6
<1> QED
  BY <1>1, <1>2

LEMMA InitIInv == Init => IInv
<1> SUFFICES ASSUME Init PROVE IInv
  OBVIOUS
<1>1. user \in Areas /\ data = user
  BY ValuesAssumption DEF Init, Areas
<1>2. tracee = "stopped" /\ refused = FALSE /\ last.reg = Failed /\ last.written = FALSE
  BY DEF Init, NoWrite
<1> QED
  BY <1>1, <1>2 DEF IInv, TypeOK, Coherent, Areas

LEMMA NextIInv == IInv /\ [Next]_vars => IInv'
<1> SUFFICES ASSUME IInv, [Next]_vars PROVE IInv'
  OBVIOUS
<1>1. CASE \E r \in Registers : \/ \E v \in Values : WriteById(r, v)
                                \/ \E text \in Texts : RegisterWrite(r, text)
  <2>1. PICK r \in Registers : \/ \E v \in Values : WriteById(r, v)
                               \/ \E text \in Texts : RegisterWrite(r, text)
    BY <1>1
  <2>2. /\ last'.reg = r /\ last'.written \in BOOLEAN
        /\ \/ \E v : Typed(v) /\ write(r, v)
           \/ UNCHANGED <<user, data, tracee, refused>>
    BY <2>1, CommandStep
  <2>3. CASE \E v : Typed(v) /\ write(r, v)
    <3>1. PICK v : Typed(v) /\ write(r, v)
      BY <2>3
    <3>2. user' \in Areas /\ data' \in Areas /\ refused' \in BOOLEAN /\ Coherent'
      BY <3>1, WriteStep
    <3>3. tracee' = tracee
      BY <3>1 DEF write
    <3> QED
      BY <2>2, <3>2, <3>3 DEF IInv, TypeOK, Areas
  <2>4. CASE UNCHANGED <<user, data, tracee, refused>>
    BY <2>2, <2>4 DEF IInv, TypeOK, Coherent
  <2> QED
    BY <2>2, <2>3, <2>4
<1>2. CASE Resume \/ Stop \/ Die
  <2>1. CASE Resume
    BY <2>1 DEF Resume, NoWrite, IInv, TypeOK, Coherent
  <2>2. CASE Stop
    BY <2>2 DEF Stop, read_all_registers, IInv, TypeOK, Coherent
  <2>3. CASE Die
    BY <2>3 DEF Die, IInv, TypeOK, Coherent
  <2> QED
    BY <1>2, <2>1, <2>2, <2>3
<1>3. CASE \E r \in Registers, b \in Computed : Compute(r, b)
  BY <1>3, ValuesAssumption, RegistersAssumption DEF Compute, IInv, TypeOK, Coherent
<1>4. CASE UNCHANGED vars
  BY <1>4 DEF vars, IInv, TypeOK, Coherent
<1> QED
  BY <1>1, <1>2, <1>3, <1>4 DEF Next

LEMMA Invariant == Spec => []IInv
BY InitIInv, NextIInv, PTL DEF Spec

\* Every byte of both areas stays a byte: no write leaves the area or a byte's range.
THEOREM TypeCorrect == Spec => []TypeOK
BY Invariant, PTL DEF IInv

\* At every stop, the registers that the debugger shows are those of the tracee, until a write
\* is refused.
THEOREM CoherentCorrect == Spec => []Coherent
BY Invariant, PTL DEF IInv

\* A write to a register, of any size and at any offset, changes no byte outside of it.
THEOREM WriteIsLocalCorrect == Spec => WriteIsLocal
<1>1. IInv /\ [Next]_vars =>
          [tracee # "running" /\ ~refused =>
              \A i \in Area : user'[i] # user[i] => i \in BytesOf(last'.reg)]_vars
  <2> SUFFICES ASSUME IInv, Next, tracee # "running", ~refused
               PROVE  \A i \in Area : user'[i] # user[i] => i \in BytesOf(last'.reg)
    BY DEF vars
  <2>1. CASE \E r \in Registers : \/ \E v \in Values : WriteById(r, v)
                                  \/ \E text \in Texts : RegisterWrite(r, text)
    <3>1. PICK r \in Registers : \/ \E v \in Values : WriteById(r, v)
                                 \/ \E text \in Texts : RegisterWrite(r, text)
      BY <2>1
    <3>2. /\ last'.reg = r
          /\ \/ \E v : Typed(v) /\ write(r, v)
             \/ UNCHANGED <<user, data, tracee, refused>>
      BY <3>1, CommandStep
    <3> QED
      BY <3>2, WriteStep
  <2>2. CASE Resume \/ Stop \/ Die \/ \E r \in Registers, b \in Computed : Compute(r, b)
    BY <2>2 DEF Resume, Stop, Die, Compute
  <2> QED
    BY <2>1, <2>2 DEF Next
<1> QED
  BY <1>1, Invariant, PTL DEF Spec, WriteIsLocal

-----------------------------------------------------------------------------
(***************************************************************************)
(* What is written is what was meant, given a parser that returns what the *)
(* text means, if it means a number that fits.  The next part shows that   *)
(* the parser of Parse does.                                               *)
(***************************************************************************)
Fits(bytes) == \A i \in DOMAIN bytes : bytes[i] # Unfit

ParserIsExact ==
    \A r \in Registers, text \in Texts :
        Fits(Meant(r, text)) =>
            \A v \in Parsed(r, text) : v = Failed \/ v.bytes = Meant(r, text)

WrittenInv == WrittenAsMeant /\ (last.written => tracee # "running")

\* The bytes of a register after a write that the kernel has accepted.
LEMMA AcceptedStep ==
    ASSUME IInv, NEW r \in Registers, NEW v, Typed(v), write(r, v),
           KernelAccepts(copied(r, v), region(r))
    PROVE  /\ tracee' = "stopped"
           /\ \A i \in BytesOf(r) : user'[i] = data'[i]
           /\ \A i \in 1 .. SizeOf[r] : data'[OffsetOf[r] + i - 1] = widen(r, v, i)
<1> DEFINE area == copied(r, v)
<1>1. BytesOf(r) \subseteq region(r) /\ region(r) \subseteq Area
  BY RegionHoldsRegister
<1>2. /\ data' = area /\ tracee' = "stopped"
      /\ user' = [i \in Area |-> IF i \in region(r) THEN area[i] ELSE user[i]]
  BY DEF write, KernelAccepts
<1>3. \A i \in BytesOf(r) : area[i] = widen(r, v, i - OffsetOf[r] + 1)
  BY <1>1 DEF copied
<1> HIDE DEF area
<1>4. \A i \in BytesOf(r) : user'[i] = data'[i]
  BY <1>1, <1>2
<1>5. ASSUME NEW i \in 1 .. SizeOf[r]
      PROVE  area[OffsetOf[r] + i - 1] = widen(r, v, i)
  <2>1. OffsetOf[r] \in Nat /\ SizeOf[r] \in Nat
    BY RegistersAssumption DEF Area
  <2>2. OffsetOf[r] + i - 1 \in BytesOf(r) /\ (OffsetOf[r] + i - 1) - OffsetOf[r] + 1 = i
    BY <2>1 DEF BytesOf
  <2> QED
    BY <1>3, <2>2
<1> QED
  BY <1>2, <1>4, <1>5

\* Widening continues a number as the register's width demands.
LEMMA WidenedIsExtended ==
    ASSUME NEW r \in Registers, NEW v, Typed(v), Len(v.bytes) <= SizeOf[r],
           NEW i \in 1 .. SizeOf[r]
    PROVE  widen(r, v, i) = Extended(r, v)[i]
<1>1. Len(v.bytes) \in Nat \ {0} /\ SizeOf[r] \in Nat
  BY RegistersAssumption DEF Typed
<1>2. CASE i <= Len(v.bytes)
  BY <1>2 DEF widen, Extended
<1>3. CASE i > Len(v.bytes)
  <2>1. FormatOf[r] = "uint" => SizeOf[r] \in {2, 4, 8}
    BY <1>1, <1>3, RegistersAssumption
  <2> QED
    BY <1>1, <1>3, <2>1 DEF widen, Extended
<1> QED
  BY <1>1, <1>2, <1>3

\* What a write leaves in its register, when it was accepted.
LEMMA WrittenStep ==
    ASSUME IInv, NEW r \in Registers, NEW v, Typed(v), write(r, v), NEW holds,
           last' = Outcome(r, holds, KernelAccepts(copied(r, v), region(r))),
           Fits(holds) => holds = [i \in 1 .. SizeOf[r] |-> widen(r, v, i)]
    PROVE  WrittenInv'
<1> SUFFICES ASSUME last'.written
             PROVE  /\ tracee' # "running"
                    /\ Fits(holds) =>
                          /\ read(r)' = holds
                          /\ \A i \in BytesOf(r) : user'[i] = data'[i]
  BY DEF WrittenInv, WrittenAsMeant, Outcome, Fits, read
<1>1. KernelAccepts(copied(r, v), region(r))
  BY DEF Outcome
<1>2. /\ tracee' = "stopped"
      /\ \A i \in BytesOf(r) : user'[i] = data'[i]
      /\ \A i \in 1 .. SizeOf[r] : data'[OffsetOf[r] + i - 1] = widen(r, v, i)
  BY <1>1, AcceptedStep
<1>3. read(r)' = [i \in 1 .. SizeOf[r] |-> widen(r, v, i)]
  BY <1>2 DEF read
<1> QED
  BY <1>2, <1>3

LEMMA CommandWrites ==
    ASSUME ParserIsExact, IInv, WrittenInv, NEW r \in Registers,
           \/ \E v \in Values : WriteById(r, v)
           \/ \E text \in Texts : RegisterWrite(r, text)
    PROVE  WrittenInv'
<1>1. ASSUME NEW v \in Values, WriteById(r, v) PROVE WrittenInv'
  <2>1. Typed(v)
    BY ValuesAssumption
  <2>2. /\ Len(v.bytes) <= SizeOf[r] /\ write(r, v)
        /\ last' = Outcome(r, Extended(r, v), KernelAccepts(copied(r, v), region(r)))
    BY <1>1 DEF WriteById
  <2>3. Extended(r, v) = [i \in 1 .. SizeOf[r] |-> Extended(r, v)[i]]
    BY DEF Extended
  <2>4. Extended(r, v) = [i \in 1 .. SizeOf[r] |-> widen(r, v, i)]
    BY <2>1, <2>2, <2>3, WidenedIsExtended
  <2> QED
    BY <2>1, <2>2, <2>4, WrittenStep
<1>2. ASSUME NEW text \in Texts, RegisterWrite(r, text) PROVE WrittenInv'
  <2>1. PICK v \in Parsed(r, text) :
            IF v = Failed
            THEN /\ last' = Outcome(r, Meant(r, text), FALSE)
                 /\ UNCHANGED <<user, data, tracee, refused>>
            ELSE /\ write(r, v)
                 /\ last' = Outcome(r, Meant(r, text), KernelAccepts(copied(r, v), region(r)))
    BY <1>2 DEF RegisterWrite
  <2>2. CASE v = Failed
    BY <2>1, <2>2 DEF WrittenInv, WrittenAsMeant, Outcome
  <2>3. CASE v # Failed
    <3>1. Typed(v) /\ Len(v.bytes) = SizeOf[r]
      BY <2>3, ValuesAssumption
    <3>2. v.bytes = [i \in 1 .. SizeOf[r] |-> widen(r, v, i)]
      BY <3>1 DEF Typed, widen
    <3>3. Fits(Meant(r, text)) => Meant(r, text) = [i \in 1 .. SizeOf[r] |-> widen(r, v, i)]
      BY <2>3, <3>2 DEF ParserIsExact
    <3> QED
      BY <2>1, <2>3, <3>1, <3>3, WrittenStep
  <2> QED
    BY <2>2, <2>3
<1> QED
  BY <1>1, <1>2

\* A write that was not refused puts into the tracee what its caller or the text meant.
THEOREM WrittenCorrect == ASSUME ParserIsExact PROVE Spec => []WrittenAsMeant
<1>1. Init => WrittenInv
  BY DEF Init, NoWrite, WrittenInv, WrittenAsMeant
<1>2. IInv /\ WrittenInv /\ [Next]_vars => WrittenInv'
  <2> SUFFICES ASSUME IInv, WrittenInv, [Next]_vars PROVE WrittenInv'
    OBVIOUS
  <2>1. CASE \E r \in Registers : \/ \E v \in Values : WriteById(r, v)
                                  \/ \E text \in Texts : RegisterWrite(r, text)
    BY <2>1, CommandWrites
  <2>2. CASE Resume
    BY <2>2 DEF Resume, NoWrite, WrittenInv, WrittenAsMeant
  <2>3. CASE Stop
    BY <2>3 DEF Stop, WrittenInv, WrittenAsMeant
  <2>4. CASE Die
    BY <2>4 DEF Die, WrittenInv, WrittenAsMeant, read
  <2>5. CASE \E r \in Registers, b \in Computed : Compute(r, b)
    BY <2>5 DEF Compute, WrittenInv, WrittenAsMeant
  <2>6. CASE UNCHANGED vars
    BY <2>6 DEF vars, WrittenInv, WrittenAsMeant, read
  <2> QED
    BY <2>1, <2>2, <2>3, <2>4, <2>5, <2>6 DEF Next
<1>3. WrittenInv => WrittenAsMeant
  BY DEF WrittenInv
<1> QED
  BY <1>1, <1>2, <1>3, Invariant, PTL DEF Spec

-----------------------------------------------------------------------------
(***************************************************************************)
(* Induction, as sets of natural numbers, and the functions that Parse     *)
(* defines by recursion: each exists and has numbers for its values.       *)
(***************************************************************************)
\* A set of natural numbers that is not empty has a least member.
LEMMA Least ==
    ASSUME NEW T, T \subseteq Nat, T # {}
    PROVE  \E x \in T : \A y \in T : x <= y
<1> DEFINE R == OpToRel(<, Nat)
<1>1. IsWellFoundedOn(R, Nat)
  BY NatLessThanWellFounded
<1>2. ASSUME NEW x \in Nat, NEW y \in Nat, x < y PROVE <<x, y>> \in R
  BY <1>2 DEF OpToRel
<1> HIDE DEF R
<1>3. PICK x \in T : \A y \in T : ~(<<y, x>> \in R)
  BY <1>1, WFMin
<1>4. \A y \in T : ~(y < x)
  BY <1>2, <1>3
<1> QED
  BY <1>4

LEMMA Induct ==
    ASSUME NEW S, 0 \in S, \A n \in Nat : n \in S => n + 1 \in S
    PROVE  Nat \subseteq S
<1> SUFFICES ASSUME Nat \ S # {} PROVE FALSE
  OBVIOUS
<1>1. PICK x \in Nat \ S : \A y \in Nat \ S : x <= y
  BY Least
<1>2. x - 1 \in Nat /\ x - 1 \in S
  BY <1>1
<1> QED
  BY <1>1, <1>2

\* There is a function on 0 .. N that starts at c and goes on by step.
LEMMA Recursion ==
    ASSUME NEW N \in Nat, NEW c \in Nat, NEW step \in [(1 .. N) \X Nat -> Nat]
    PROVE  \E f \in [0 .. N -> Nat] :
              f[0] = c /\ \A i \in 1 .. N : f[i] = step[<<i, f[i - 1]>>]
<1> DEFINE Goes(f, n) == f[0] = c /\ \A i \in 1 .. n : f[i] = step[<<i, f[i - 1]>>]
           S == {n \in Nat : n <= N => \E f \in [0 .. n -> Nat] : Goes(f, n)}
<1>1. 0 \in S
  <2>1. [i \in 0 .. 0 |-> c] \in [0 .. 0 -> Nat] /\ Goes([i \in 0 .. 0 |-> c], 0)
    OBVIOUS
  <2> QED
    BY <2>1
<1>2. ASSUME NEW n \in Nat, n \in S PROVE n + 1 \in S
  <2> SUFFICES ASSUME n + 1 <= N PROVE \E f \in [0 .. n + 1 -> Nat] : Goes(f, n + 1)
    OBVIOUS
  <2>1. PICK f \in [0 .. n -> Nat] : Goes(f, n)
    BY <1>2
  <2> DEFINE g == [i \in 0 .. n + 1 |-> IF i = n + 1 THEN step[<<n + 1, f[n]>>] ELSE f[i]]
  <2>2. <<n + 1, f[n]>> \in (1 .. N) \X Nat
    OBVIOUS
  <2>3. g \in [0 .. n + 1 -> Nat]
    BY <2>2
  <2>4. g[0] = c /\ (\A i \in 0 .. n : g[i] = f[i]) /\ g[n + 1] = step[<<n + 1, f[n]>>]
    BY <2>1
  <2> HIDE DEF g
  <2>5. ASSUME NEW i \in 1 .. n + 1 PROVE g[i] = step[<<i, g[i - 1]>>]
    <3>1. CASE i \in 1 .. n
      BY <2>1, <2>4, <3>1
    <3>2. CASE i = n + 1
      <4>1. i - 1 = n /\ g[n] = f[n]
        BY <2>4, <3>2
      <4> QED
        BY <2>4, <3>2, <4>1, Zenon
    <3> QED
      BY <3>1, <3>2
  <2> QED
    BY <2>3, <2>4, <2>5
<1> HIDE DEF S
<1>3. N \in S
  BY <1>1, <1>2, Induct
<1> QED
  BY <1>3 DEF S

LEMMA DigitIsNat == \A c : digit(c) \in Nat
BY DEF digit

\* A function that goes on from natural numbers to natural numbers has no other values.
LEMMA StaysNat ==
    ASSUME NEW N \in Nat, NEW f, f[0] \in Nat, \A i \in 1 .. N : f[i - 1] \in Nat => f[i] \in Nat
    PROVE  \A i \in 0 .. N : f[i] \in Nat
<1> DEFINE S == {n \in Nat : n <= N => f[n] \in Nat}
<1>1. ASSUME NEW n \in Nat, n \in S PROVE n + 1 \in S
  <2> SUFFICES ASSUME n + 1 <= N PROVE f[n + 1] \in Nat
    OBVIOUS
  <2>1. n + 1 \in 1 .. N /\ n + 1 - 1 = n /\ f[n] \in Nat
    BY <1>1
  <2> QED
    BY <2>1
<1>2. 0 \in S
  OBVIOUS
<1> HIDE DEF S
<1>3. Nat \subseteq S
  BY <1>1, <1>2, Induct
<1> QED
  BY <1>3 DEF S

\* What std::from_chars computes digit by digit.
LEMMA FromChars ==
    ASSUME NEW chars \in Seq(STRING), NEW base \in Nat
    PROVE  \E number \in [0 .. Len(chars) -> Nat] :
              /\ from_chars(chars, base) = number[Len(chars)]
              /\ number[0] = 0
              /\ \A i \in 1 .. Len(chars) : number[i] = base * number[i - 1] + digit(chars[i])
<1> DEFINE N == Len(chars)
           Is(f) == f = [i \in 0 .. N |-> IF i = 0 THEN 0 ELSE base * f[i - 1] + digit(chars[i])]
           number == CHOOSE f : Is(f)
           step == [p \in (1 .. N) \X Nat |-> base * p[2] + digit(chars[p[1]])]
<1>1. step \in [(1 .. N) \X Nat -> Nat]
  BY DigitIsNat
<1>2. PICK f \in [0 .. N -> Nat] : f[0] = 0 /\ \A i \in 1 .. N : f[i] = step[<<i, f[i - 1]>>]
  <2>1. N \in Nat /\ 0 \in Nat
    OBVIOUS
  <2> HIDE DEF step, N
  <2> QED
    BY <1>1, <2>1, Recursion, Zenon
<1>3. ASSUME NEW i \in 1 .. N PROVE f[i] = base * f[i - 1] + digit(chars[i])
  <2>1. <<i, f[i - 1]>> \in (1 .. N) \X Nat
    OBVIOUS
  <2>2. step[<<i, f[i - 1]>>] = base * f[i - 1] + digit(chars[i])
    BY <2>1
  <2> QED
    BY <1>2, <2>2
<1>4. Is(f)
  BY <1>2, <1>3
<1>5. Is(number)
  BY <1>4, Zenon
<1>6. from_chars(chars, base) = number[N]
  BY Zenon DEF from_chars
<1> HIDE DEF number
<1>7. number[0] = 0 /\ \A i \in 1 .. N : number[i] = base * number[i - 1] + digit(chars[i])
  BY <1>5
<1>8. \A i \in 0 .. N : number[i] \in Nat
  <2>1. N \in Nat /\ number[0] \in Nat
    BY <1>7
  <2>2. \A i \in 1 .. N : number[i - 1] \in Nat => number[i] \in Nat
    BY <1>7, DigitIsNat
  <2> HIDE DEF N
  <2> QED
    BY <2>1, <2>2, StaysNat
<1> QED
  BY <1>5, <1>6, <1>7, <1>8

\* The weights of the last digits, and what these digits count together.
LEMMA Weights ==
    ASSUME NEW text \in Seq(STRING)
    PROVE  \E weight \in [0 .. Len(text) -> Nat], counted \in [0 .. Len(text) -> Nat] :
              /\ weight[0] = 1 /\ \A i \in 1 .. Len(text) : weight[i] = 16 * weight[i - 1]
              /\ counted[0] = 0
              /\ \A i \in 1 .. Len(text) :
                    counted[i] = counted[i - 1] + digit(text[Len(text) + 1 - i]) * weight[i - 1]
              /\ \A k : Positional(text, k) = counted[k]
<1> DEFINE N == Len(text)
           IsWeight(f) == f = [i \in 0 .. N |-> IF i = 0 THEN 1 ELSE 16 * f[i - 1]]
           weight == CHOOSE f : IsWeight(f)
           grows == [p \in (1 .. N) \X Nat |-> 16 * p[2]]
<1>1. PICK w \in [0 .. N -> Nat] : w[0] = 1 /\ \A i \in 1 .. N : w[i] = grows[<<i, w[i - 1]>>]
  <2>1. N \in Nat /\ 1 \in Nat /\ grows \in [(1 .. N) \X Nat -> Nat]
    OBVIOUS
  <2> HIDE DEF grows, N
  <2> QED
    BY <2>1, Recursion, Zenon
<1>2. IsWeight(w)
  BY <1>1
<1>3. IsWeight(weight)
  BY <1>2, Zenon
<1> HIDE DEF weight
<1>4. weight[0] = 1 /\ \A i \in 1 .. N : weight[i] = 16 * weight[i - 1]
  BY <1>3
<1>5. \A i \in 0 .. N : weight[i] \in Nat
  <2>1. N \in Nat /\ weight[0] \in Nat
    BY <1>4
  <2>2. \A i \in 1 .. N : weight[i - 1] \in Nat => weight[i] \in Nat
    BY <1>4
  <2> HIDE DEF N
  <2> QED
    BY <2>1, <2>2, StaysNat
<1> DEFINE value(i) == digit(text[N + 1 - i]) * weight[i - 1]
           IsLast(f) == f = [i \in 0 .. N |-> IF i = 0 THEN 0 ELSE f[i - 1] + value(i)]
           counted == CHOOSE f : IsLast(f)
           adds == [p \in (1 .. N) \X Nat |-> p[2] + value(p[1])]
<1>6. \A i \in 1 .. N : value(i) \in Nat
  BY <1>5, DigitIsNat
<1>7. PICK l \in [0 .. N -> Nat] : l[0] = 0 /\ \A i \in 1 .. N : l[i] = adds[<<i, l[i - 1]>>]
  <2> HIDE DEF value
  <2>1. N \in Nat /\ 0 \in Nat /\ adds \in [(1 .. N) \X Nat -> Nat]
    BY <1>6
  <2> HIDE DEF adds, N
  <2> QED
    BY <2>1, Recursion, Zenon
<1>8. IsLast(l)
  <2> HIDE DEF value
  <2> QED
    BY <1>7
<1>9. IsLast(counted)
  BY <1>8, Zenon
<1>10. \A k : Positional(text, k) = counted[k]
  BY Zenon DEF Positional, weight
<1> HIDE DEF counted
<1>11. counted[0] = 0 /\ \A i \in 1 .. N : counted[i] = counted[i - 1] + value(i)
  <2> HIDE DEF value
  <2> QED
    BY <1>9
<1>12. \A i \in 0 .. N : counted[i] \in Nat
  <2> HIDE DEF value
  <2>1. N \in Nat /\ counted[0] \in Nat
    BY <1>11
  <2>2. \A i \in 1 .. N : counted[i - 1] \in Nat => counted[i] \in Nat
    BY <1>6, <1>11
  <2> HIDE DEF N
  <2> QED
    BY <2>1, <2>2, StaysNat
<1>13. weight \in [0 .. N -> Nat] /\ counted \in [0 .. N -> Nat]
  <2> HIDE DEF value, N
  <2> QED
    BY <1>3, <1>5, <1>9, <1>12
<1> QED
  BY <1>4, <1>10, <1>11, <1>13

\* One digit more to the right, or one digit less to the left.
LEMMA Shift ==
    ASSUME NEW a \in Nat, NEW d \in Nat, NEW w \in Nat, NEW l \in Nat
    PROVE  (16 * a + d) * w + l = a * (16 * w) + (l + d * w)
OBVIOUS

\* Read from the left or weighed by their places: digits denote the same number.
LEMMA LeftToRightIsPositional ==
    ASSUME NEW text \in Seq(STRING), NEW first \in {1, 3}, first <= Len(text) + 1
    PROVE  /\ from_chars(SubSeq(text, first, Len(text)), 16)
                  = Positional(text, Len(text) + 1 - first)
           /\ from_chars(SubSeq(text, first, Len(text)), 16) \in Nat
<1> DEFINE chars == SubSeq(text, first, Len(text))
           N == Len(text)
           n == N + 1 - first
<1>1. /\ chars \in Seq(STRING) /\ Len(chars) = n /\ n \in 0 .. N /\ N \in Nat
      /\ \A i \in 1 .. n : chars[i] = text[first - 1 + i]
  OBVIOUS
<1>2. PICK number \in [0 .. n -> Nat] :
          /\ from_chars(chars, 16) = number[n] /\ number[0] = 0
          /\ \A i \in 1 .. n : number[i] = 16 * number[i - 1] + digit(chars[i])
  <2>1. 16 \in Nat /\ chars \in Seq(STRING) /\ Len(chars) = n
    BY <1>1
  <2> HIDE DEF chars, n
  <2> QED
    BY <2>1, FromChars
<1>3. PICK weight \in [0 .. N -> Nat], counted \in [0 .. N -> Nat] :
          /\ weight[0] = 1 /\ \A i \in 1 .. N : weight[i] = 16 * weight[i - 1]
          /\ counted[0] = 0
          /\ \A i \in 1 .. N : counted[i] = counted[i - 1] + digit(text[N + 1 - i]) * weight[i - 1]
          /\ \A k : Positional(text, k) = counted[k]
  BY Weights
<1> DEFINE S == {k \in Nat : k <= n => number[n] = number[n - k] * weight[k] + counted[k]}
<1>4. 0 \in S
  BY <1>1, <1>2, <1>3
<1>5. ASSUME NEW k \in Nat, k \in S PROVE k + 1 \in S
  <2> SUFFICES ASSUME k + 1 <= n
               PROVE  number[n] = number[n - (k + 1)] * weight[k + 1] + counted[k + 1]
    OBVIOUS
  <2> DEFINE a == number[n - (k + 1)]
             d == digit(chars[n - k])
  <2>1. /\ n - (k + 1) \in 0 .. n /\ n - k \in 1 .. n /\ k \in 0 .. N /\ k + 1 \in 1 .. N
        /\ n - k - 1 = n - (k + 1) /\ k + 1 - 1 = k /\ first - 1 + (n - k) = N + 1 - (k + 1)
    BY <1>1
  <2>2. a \in Nat /\ d \in Nat /\ weight[k] \in Nat /\ counted[k] \in Nat
    BY <2>1, DigitIsNat
  <2>3. number[n] = number[n - k] * weight[k] + counted[k]
    BY <1>5, <2>1
  <2>4. number[n - k] = 16 * a + d
    BY <1>2, <2>1
  <2>5. weight[k + 1] = 16 * weight[k]
    BY <1>3, <2>1
  <2>6. counted[k + 1] = counted[k] + d * weight[k]
    BY <1>1, <1>3, <2>1
  <2> DEFINE w == weight[k]
             l == counted[k]
  <2> HIDE DEF a, d, w, l
  <2>7. number[n] = (16 * a + d) * w + l
    BY <2>3, <2>4 DEF w, l
  <2>8. (16 * a + d) * w + l = a * (16 * w) + (l + d * w)
    BY <2>2, Shift DEF w, l
  <2>9. weight[k + 1] = 16 * w /\ counted[k + 1] = l + d * w
    BY <2>5, <2>6 DEF w, l
  <2>10. number[n] = a * weight[k + 1] + counted[k + 1]
    BY <2>7, <2>8, <2>9
  <2> QED
    BY <2>10 DEF a
<1> HIDE DEF S
<1>6. n \in S
  <2>1. n \in Nat
    BY <1>1
  <2> HIDE DEF n
  <2> QED
    BY <1>4, <1>5, <2>1, Induct
<1>7. number[n] = number[n - n] * weight[n] + counted[n]
  BY <1>1, <1>6 DEF S
<1>8. n - n = 0 /\ weight[n] \in Nat /\ counted[n] \in Nat /\ number[n] \in Nat
  <2>1. n \in 0 .. N /\ n \in 0 .. n
    BY <1>1
  <2> HIDE DEF n, N
  <2> QED
    BY <1>1, <2>1
<1> HIDE DEF n, chars
<1>9. number[n] = counted[n]
  BY <1>2, <1>7, <1>8
<1> QED
  BY <1>2, <1>3, <1>8, <1>9 DEF n, chars

-----------------------------------------------------------------------------
(***************************************************************************)
(* The parser, for every text.  nullopt is no number and no vector.        *)
(***************************************************************************)
Sentinels == {Failed, Unfit} \intersect (Nat \union Seq(Nat)) = {} /\ Failed # Unfit

\* to_integral returns the number that the text denotes, and nothing else, unless it denotes
\* none that fits.
THEOREM ToIntegralDenotes ==
    ASSUME Sentinels, NEW text \in Seq(STRING), NEW max
    PROVE  /\ Denotes(text, max) \in Nat \union {Failed, Unfit}
           /\ to_integral(text, 16, max) =
                  IF Denotes(text, max) = Failed THEN {Failed}
                  ELSE IF Denotes(text, max) = Unfit THEN Uninitialized(max)
                  ELSE {Denotes(text, max)}
<1> DEFINE prefixed == Len(text) >= 2 /\ text[1] = "0" /\ text[2] = "x"
           first == IF prefixed THEN 3 ELSE 1
           chars == SubSeq(text, first, Len(text))
           number == from_chars(chars, 16)
           bad == \E i \in first .. Len(text) : ~IsDigit(text[i], 16)
           none == first > Len(text) \/ number > max
<1>1. first \in {1, 3} /\ first <= Len(text) + 1 /\ Len(text) \in Nat
  OBVIOUS
<1>2. begin(text, 16) = chars
  <2>1. CASE prefixed
    BY <2>1 DEF begin
  <2>2. CASE ~prefixed
    <3>1. begin(text, 16) = text
      BY <2>2 DEF begin
    <3>2. SubSeq(text, 1, Len(text)) = text
      OBVIOUS
    <3> QED
      BY <2>2, <3>1, <3>2
  <2> QED
    BY <2>1, <2>2
<1>3. number = Positional(text, Len(text) + 1 - first) /\ number \in Nat
  <2> HIDE DEF first
  <2> QED
    BY <1>1, LeftToRightIsPositional
<1>4. /\ chars \in Seq(STRING) /\ Len(chars) = Len(text) + 1 - first
      /\ \A i \in 1 .. Len(chars) : chars[i] = text[first - 1 + i]
  <2> HIDE DEF first
  <2> QED
    BY <1>1
<1>5. AllDigits(chars, 16) <=> ~bad
  <2> HIDE DEF first, chars
  <2>1. DOMAIN chars = 1 .. Len(chars)
    BY <1>4
  <2>2. ASSUME NEW i \in first .. Len(text)
        PROVE  i - first + 1 \in 1 .. Len(chars) /\ chars[i - first + 1] = text[i]
    <3>1. i - first + 1 \in 1 .. Len(chars) /\ first - 1 + (i - first + 1) = i
      BY <1>1, <1>4
    <3> QED
      BY <1>4, <3>1
  <2>3. ASSUME NEW i \in 1 .. Len(chars) PROVE first - 1 + i \in first .. Len(text)
    BY <1>1, <1>4
  <2> QED
    BY <1>4, <2>1, <2>2, <2>3 DEF AllDigits
<1>6. chars = <<>> <=> first > Len(text)
  <2> HIDE DEF first, chars
  <2>1. chars = <<>> <=> Len(chars) = 0
    BY <1>4
  <2> QED
    BY <1>1, <1>4, <2>1
<1>7. Denotes(text, max) = IF bad THEN Failed ELSE IF none THEN Unfit ELSE number
  BY <1>3, Zenon DEF Denotes
<1>8. to_integral(text, 16, max) =
          IF bad THEN {Failed} ELSE IF none THEN Uninitialized(max) ELSE {number}
  <2> HIDE DEF bad, chars, first
  <2> QED
    BY <1>2, <1>5, <1>6, Zenon DEF to_integral
<1> HIDE DEF bad, number, none
<1> QED
  BY <1>3, <1>7, <1>8 DEF Sentinels

\* The tokens of a text of the length that n of them take, and what lies between them.
LEMMA Tokens ==
    ASSUME NEW n \in Nat \ {0}, NEW text \in Seq(STRING), Len(text) = 5 * n + 1
    PROVE  /\ char(text, 1) = text[1]
           /\ \A i \in 1 .. n : /\ after(text, i) = text[5 * i + 1]
                                /\ token(text, i) = SubSeq(text, 5 * i - 3, 5 * i)
                                /\ SubSeq(text, 5 * i - 3, 5 * i) \in Seq(STRING)
<1>1. char(text, 1) = text[1]
  BY DEF char
<1>2. ASSUME NEW i \in 1 .. n
      PROVE  /\ after(text, i) = text[5 * i + 1]
             /\ token(text, i) = SubSeq(text, 5 * i - 3, 5 * i)
             /\ SubSeq(text, 5 * i - 3, 5 * i) \in Seq(STRING)
  <2> DEFINE part == SubSeq(text, 5 * i - 3, 5 * i)
  <2>1. after(text, i) = text[5 * i + 1]
    BY DEF after, char
  <2>2. /\ part \in Seq(STRING) /\ Len(part) = 4
        /\ \A k \in 1 .. 4 : part[k] = text[5 * i - 4 + k]
    OBVIOUS
  <2>3. \A k \in 1 .. 4 : char(text, 5 * i - 4 + k) = text[5 * i - 4 + k]
    BY DEF char
  <2> HIDE DEF part
  <2>4. part = [k \in 1 .. 4 |-> part[k]]
    BY <2>2
  <2>5. token(text, i) = part
    BY <2>2, <2>3, <2>4 DEF token
  <2> QED
    BY <2>1, <2>2, <2>5 DEF part
<1> QED
  BY <1>1, <1>2

\* parse_vector<N> returns the bytes that the text denotes, or refuses it, unless one of them
\* is no number that fits.
LEMMA ParseVectorDenotes ==
    ASSUME Sentinels, NEW n \in Nat \ {0}, NEW text \in Seq(STRING)
    PROVE  LET bytes == DenotesBytes(text, n)
           IN  /\ bytes = <<Failed>> => parse_vector_N(text, n) = {Failed}
               /\ bytes # <<Failed>> /\ Fits(bytes) =>
                     bytes # Failed /\ parse_vector_N(text, n) = {bytes}
<1> DEFINE bytes == [i \in 1 .. n |-> Denotes(SubSeq(text, 5 * i - 3, 5 * i), 255)]
           framed == /\ Len(text) = 5 * n + 1 /\ text[1] = "["
                     /\ \A i \in 1 .. n : text[5 * i + 1] = (IF i = n THEN "]" ELSE ",")
           read_all == \A i \in 1 .. n : bytes[i] # Failed
<1>1. DenotesBytes(text, n) = IF framed /\ read_all THEN bytes ELSE <<Failed>>
  BY Zenon DEF DenotesBytes
<1> DEFINE closed == /\ char(text, 1) = "[" /\ \A i \in 1 .. n - 1 : after(text, i) = ","
                     /\ after(text, n) = "]" /\ Len(text) = 5 * n + 1
           scanned == \A i \in 1 .. n : Failed \notin byte(text, i)
<1>2. parse_vector_N(text, n) = IF closed /\ scanned THEN Vectors(text, n) ELSE {Failed}
  BY Zenon DEF parse_vector_N
<1>3. closed <=> framed
  <2>1. CASE Len(text) = 5 * n + 1
    <3>1. char(text, 1) = text[1] /\ \A i \in 1 .. n : after(text, i) = text[5 * i + 1]
      BY <2>1, Tokens
    <3>2. n \in 1 .. n /\ \A i \in 1 .. n : i \in 1 .. n - 1 <=> i # n
      OBVIOUS
    <3>3. /\ \A i \in 1 .. n - 1 : after(text, i) = ","
          /\ after(text, n) = "]"
          <=> \A i \in 1 .. n : after(text, i) = (IF i = n THEN "]" ELSE ",")
      <4>1. ASSUME \A i \in 1 .. n - 1 : after(text, i) = ",", after(text, n) = "]",
                   NEW i \in 1 .. n
            PROVE  after(text, i) = (IF i = n THEN "]" ELSE ",")
        BY <3>2, <4>1
      <4>2. ASSUME \A i \in 1 .. n : after(text, i) = (IF i = n THEN "]" ELSE ",")
            PROVE  after(text, n) = "]" /\ \A i \in 1 .. n - 1 : after(text, i) = ","
        <5>1. after(text, n) = (IF n = n THEN "]" ELSE ",")
          BY <3>2, <4>2
        <5>2. ASSUME NEW i \in 1 .. n - 1 PROVE after(text, i) = ","
          <6>1. i \in 1 .. n /\ i # n
            BY <3>2
          <6>2. after(text, i) = (IF i = n THEN "]" ELSE ",")
            BY <4>2, <6>1
          <6> QED
            BY <6>1, <6>2
        <5> QED
          BY <5>1, <5>2
      <4> QED
        BY <4>1, <4>2
    <3>4. (\A i \in 1 .. n : after(text, i) = (IF i = n THEN "]" ELSE ","))
          <=> \A i \in 1 .. n : text[5 * i + 1] = (IF i = n THEN "]" ELSE ",")
      BY <3>1
    <3> QED
      BY <2>1, <3>1, <3>3, <3>4
  <2>2. CASE Len(text) # 5 * n + 1
    BY <2>2
  <2> QED
    BY <2>1, <2>2
<1>4. ASSUME framed, NEW i \in 1 .. n
      PROVE  byte(text, i) = IF bytes[i] = Failed THEN {Failed}
                             ELSE IF bytes[i] = Unfit THEN Uninitialized(255) ELSE {bytes[i]}
  <2>1. /\ token(text, i) = SubSeq(text, 5 * i - 3, 5 * i)
        /\ SubSeq(text, 5 * i - 3, 5 * i) \in Seq(STRING)
    BY <1>4, Tokens
  <2> DEFINE part == SubSeq(text, 5 * i - 3, 5 * i)
  <2>2. byte(text, i) = to_integral(part, 16, 255) /\ bytes[i] = Denotes(part, 255)
    BY <2>1 DEF byte
  <2>3. part \in Seq(STRING)
    BY <2>1
  <2> HIDE DEF part, bytes
  <2> QED
    BY <2>2, <2>3, ToIntegralDenotes
<1>5. ASSUME framed, NEW i \in 1 .. n PROVE bytes[i] \in Nat \union {Failed, Unfit}
  <2>1. SubSeq(text, 5 * i - 3, 5 * i) \in Seq(STRING)
    BY <1>5, Tokens
  <2> QED
    BY <2>1, ToIntegralDenotes
<1>6. bytes = [i \in 1 .. n |-> bytes[i]]
  OBVIOUS
<1> HIDE DEF bytes, framed, closed
<1>7. ASSUME DenotesBytes(text, n) = <<Failed>> PROVE parse_vector_N(text, n) = {Failed}
  <2>1. ~(framed /\ read_all)
    <3> SUFFICES ASSUME framed, read_all PROVE FALSE
      OBVIOUS
    <3>1. bytes = <<Failed>>
      BY <1>1, <1>7
    <3>2. 1 \in 1 .. n /\ bytes[1] = Failed
      BY <3>1
    <3> QED
      BY <3>2
  <2>2. ASSUME framed, NEW i \in 1 .. n, bytes[i] = Failed PROVE ~scanned
    <3>1. byte(text, i) = {Failed}
      BY <1>4, <2>2
    <3> QED
      BY <3>1
  <2> QED
    BY <1>2, <1>3, <2>1, <2>2
<1>8. ASSUME DenotesBytes(text, n) # <<Failed>>, Fits(DenotesBytes(text, n))
      PROVE  DenotesBytes(text, n) # Failed /\ parse_vector_N(text, n) = {DenotesBytes(text, n)}
  <2>1. framed /\ read_all /\ DenotesBytes(text, n) = bytes
    BY <1>1, <1>8
  <2>2. \A i \in 1 .. n : bytes[i] # Unfit
    BY <1>6, <1>8, <2>1 DEF Fits
  <2>3. \A i \in 1 .. n : byte(text, i) = {bytes[i]} /\ bytes[i] # Failed
    BY <1>4, <2>1, <2>2
  <2>4. scanned
    BY <2>3
  <2>5. Vectors(text, n) = {bytes}
    BY <1>6, <2>3 DEF Vectors
  <2>6. \A i \in 1 .. n : bytes[i] \in Nat
    BY <1>5, <2>1, <2>2
  <2>7. bytes \in Seq(Nat)
    BY <1>6, <2>6
  <2> QED
    BY <1>2, <1>3, <2>1, <2>4, <2>5, <2>7 DEF Sentinels
<1> QED
  BY <1>7, <1>8

\* What is written for a text is what the text means: parse_register_value refuses a text that
\* means nothing, and for one that means a number or bytes that fit it returns these.
THEOREM ParserCorrect ==
    ASSUME Sentinels, NEW text \in Seq(STRING), NEW format \in {"uint", "vector"},
           NEW size \in Nat \ {0}
    PROVE  LET meaning == Meaning(format, size, text)
               results == parse_register_value(format, size, text)
           IN  /\ meaning = <<Failed>> => results = {Failed}
               /\ meaning # <<Failed>> /\ Fits(meaning) => results = {Value(meaning)}
<1>1. CASE format = "uint"
  <2> DEFINE max == 256 ^ size - 1
             n == Denotes(text, max)
  <2> HIDE DEF max
  <2>1. /\ n \in Nat \union {Failed, Unfit}
        /\ to_integral(text, 16, max) =
               IF n = Failed THEN {Failed} ELSE IF n = Unfit THEN Uninitialized(max) ELSE {n}
    BY ToIntegralDenotes
  <2>2. Meaning(format, size, text) = IF n \in {Failed, Unfit} THEN <<n>> ELSE as_bytes(n, size)
    BY <1>1 DEF Meaning, max
  <2>3. parse_register_value(format, size, text) =
            {IF r = Failed THEN Failed ELSE Value(as_bytes(r, size)) : r \in to_integral(text, 16, max)}
    BY <1>1 DEF parse_register_value, max
  <2> HIDE DEF n
  <2>4. CASE n = Failed
    BY <2>1, <2>2, <2>3, <2>4
  <2>5. CASE n = Unfit
    <3>1. Meaning(format, size, text) = <<Unfit>>
      BY <2>2, <2>5
    <3>2. ~Fits(<<Unfit>>) /\ <<Unfit>> # <<Failed>>
      BY DEF Fits, Sentinels
    <3> QED
      BY <3>1, <3>2
  <2>6. CASE n \notin {Failed, Unfit}
    <3>1. n \in Nat
      BY <2>1, <2>6
    <3>2. Meaning(format, size, text) = as_bytes(n, size)
      BY <2>2, <2>6
    <3>3. parse_register_value(format, size, text) = {Value(as_bytes(n, size))}
      BY <2>1, <2>3, <2>6
    <3>4. as_bytes(n, size) # <<Failed>>
      <4> SUFFICES ASSUME as_bytes(n, size) = <<Failed>> PROVE FALSE
        OBVIOUS
      <4>1. 1 \in 1 .. size /\ as_bytes(n, size)[1] = (n \div 256 ^ (1 - 1)) % 256
        BY DEF as_bytes
      <4>2. 256 ^ (1 - 1) = 1
        OBVIOUS
      <4>3. as_bytes(n, size)[1] = (n \div 1) % 256
        BY <4>1, <4>2
      <4>4. (n \div 1) % 256 \in Nat
        BY <3>1
      <4> QED
        BY <4>3, <4>4 DEF Sentinels
    <3> QED
      BY <3>2, <3>3, <3>4
  <2> QED
    BY <2>4, <2>5, <2>6
<1>2. CASE format = "vector"
  <2> DEFINE bytes == DenotesBytes(text, size)
  <2>1. Meaning(format, size, text) = bytes
    BY <1>2 DEF Meaning
  <2>2. parse_register_value(format, size, text) =
            {IF r = Failed THEN Failed ELSE Value(r) : r \in parse_vector_N(text, size)}
    BY <1>2 DEF parse_register_value
  <2>3. /\ bytes = <<Failed>> => parse_vector_N(text, size) = {Failed}
        /\ bytes # <<Failed>> /\ Fits(bytes) =>
              bytes # Failed /\ parse_vector_N(text, size) = {bytes}
    BY ParseVectorDenotes
  <2> HIDE DEF bytes
  <2> QED
    BY <2>1, <2>2, <2>3
<1> QED
  BY <1>1, <1>2

\* A write that was not refused puts into the tracee what its caller or the text meant, where
\* the parser is parse_register_value and what a text means is defined without it.
THEOREM WrittenAsMeantCorrect ==
    ASSUME Sentinels, Texts \subseteq Seq(STRING),
           \A r \in Registers, text \in Texts :
               /\ Parsed(r, text) = parse_register_value(FormatOf[r], SizeOf[r], text)
               /\ Meant(r, text) = Meaning(FormatOf[r], SizeOf[r], text)
    PROVE  Spec => []WrittenAsMeant
<1>1. ParserIsExact
  <2> SUFFICES ASSUME NEW r \in Registers, NEW text \in Texts, Fits(Meant(r, text)),
                      NEW v \in Parsed(r, text), v # Failed
               PROVE  v.bytes = Meant(r, text)
    BY DEF ParserIsExact
  <2> DEFINE meaning == Meaning(FormatOf[r], SizeOf[r], text)
             results == parse_register_value(FormatOf[r], SizeOf[r], text)
  <2>1. /\ text \in Seq(STRING) /\ FormatOf[r] \in {"uint", "vector"}
        /\ SizeOf[r] \in Nat \ {0}
    BY RegistersAssumption
  <2>2. /\ meaning = <<Failed>> => results = {Failed}
        /\ meaning # <<Failed>> /\ Fits(meaning) => results = {Value(meaning)}
    BY <2>1, ParserCorrect
  <2>3. v \in results /\ Meant(r, text) = meaning
    OBVIOUS
  <2> HIDE DEF meaning, results
  <2>4. v = Value(meaning)
    BY <2>2, <2>3
  <2> QED
    BY <2>3, <2>4 DEF Value
<1> QED
  BY <1>1, WrittenCorrect

-----------------------------------------------------------------------------
(***************************************************************************)
(* The loop that takes as many bytes as there are.                         *)
(***************************************************************************)
\* A bracket is no token, nor is what lies beyond the text.
LEMMA NoToken ==
    ASSUME NEW text, NEW i \in Nat \ {0}, char(text, 5 * i - 3) \in {"]", "nul"}
    PROVE  Failed \in byte(text, i)
<1> DEFINE sv == token(text, i)
<1>1. sv[1] = char(text, 5 * i - 3) /\ Len(sv) = 4 /\ DOMAIN sv = 1 .. 4
  BY DEF token
<1>2. begin(sv, 16) = sv
  BY <1>1 DEF begin
<1>3. digit("]") = 16 /\ digit("nul") = 16
  BY DEF digit
<1>4. ~IsDigit(sv[1], 16)
  BY <1>1, <1>3 DEF IsDigit
<1> HIDE DEF sv
<1>5. ~AllDigits(sv, 16)
  BY <1>1, <1>4 DEF AllDigits
<1>6. to_integral(sv, 16, 255) = {Failed}
  BY <1>2, <1>5, Zenon DEF to_integral
<1> QED
  BY <1>6 DEF byte, sv

\* The loop stops.
LEMMA LoopStops ==
    ASSUME NEW text \in Seq(STRING)
    PROVE  \E n \in 0 .. Len(text) : ~GoesOn(text, n + 1) /\ \A i \in 1 .. n : GoesOn(text, i)
<1> DEFINE T == {n \in Nat : ~GoesOn(text, n + 1)}
<1>1. Len(text) \in Nat
  OBVIOUS
<1>2. Len(text) \in T
  <2>1. char(text, 5 * (Len(text) + 1) - 3) = "nul"
    BY <1>1 DEF char
  <2>2. Failed \in byte(text, Len(text) + 1)
    BY <1>1, <2>1, NoToken
  <2> QED
    BY <1>1, <2>2 DEF GoesOn
<1>3. PICK n \in T : \A m \in T : n <= m
  <2> HIDE DEF T
  <2>1. T \subseteq Nat /\ T # {}
    BY <1>2 DEF T
  <2> QED
    BY <2>1, Least
<1>4. n \in 0 .. Len(text)
  BY <1>1, <1>2, <1>3
<1>5. ASSUME NEW i \in 1 .. n PROVE GoesOn(text, i)
  <2>1. i - 1 \in Nat /\ (i - 1) + 1 = i /\ ~(n <= i - 1)
    BY <1>4
  <2> QED
    BY <1>3, <2>1
<1> QED
  BY <1>3, <1>4, <1>5

\* What parse_vector does after n tokens, where its loop stops.
LEMMA AfterLoop ==
    ASSUME NEW text \in Seq(STRING)
    PROVE  \E n \in 0 .. Len(text) :
               /\ ~GoesOn(text, n + 1) /\ \A i \in 1 .. n : GoesOn(text, i)
               /\ \/ parse_vector(text) \in {{Failed}, {Throws}}
                  \/ /\ char(text, 1) = "[" /\ char(text, 5 * n + 2) = "]"
                     /\ Len(text) = 5 * n + 2
                     /\ parse_vector(text) = Vectors(text, n)
                  \/ /\ char(text, 1) = "[" /\ Failed \notin byte(text, n + 1)
                     /\ after(text, n + 1) = "]" /\ Len(text) = 5 * n + 6
                     /\ parse_vector(text) = Vectors(text, n + 1)
               /\ /\ char(text, 1) = "[" /\ char(text, 5 * n + 2) # "]"
                  /\ Failed \notin byte(text, n + 1)
                  /\ after(text, n + 1) = "]" /\ Len(text) = 5 * n + 6
                  => parse_vector(text) = Vectors(text, n + 1)
<1> DEFINE Stops(k) == ~GoesOn(text, k + 1) /\ \A i \in 1 .. k : GoesOn(text, i)
           n == CHOOSE k \in 0 .. Len(text) : Stops(k)
           close == char(text, 5 * n + 2)
           given == IF close = "]" THEN n ELSE n + 1
           ended == Len(text) = IF close = "]" THEN 5 * n + 2 ELSE 5 * n + 6
<1>1. n \in 0 .. Len(text) /\ Stops(n)
  <2>1. \E k \in 0 .. Len(text) : Stops(k)
    BY LoopStops
  <2> HIDE DEF Stops
  <2> QED
    BY <2>1
<1>2. parse_vector(text) =
          IF char(text, 1) # "[" THEN {Failed}
          ELSE IF close # "]" /\ Failed \in byte(text, n + 1) THEN {Throws}
          ELSE IF ended /\ "]" \in {close, after(text, n + 1)} THEN Vectors(text, given)
          ELSE {Failed}
  BY Zenon DEF parse_vector
<1>3. ~GoesOn(text, n + 1) /\ \A i \in 1 .. n : GoesOn(text, i)
  BY <1>1
<1> HIDE DEF n, Stops
<1>4. \/ parse_vector(text) \in {{Failed}, {Throws}}
      \/ /\ char(text, 1) = "[" /\ char(text, 5 * n + 2) = "]"
         /\ Len(text) = 5 * n + 2
         /\ parse_vector(text) = Vectors(text, n)
      \/ /\ char(text, 1) = "[" /\ Failed \notin byte(text, n + 1)
         /\ after(text, n + 1) = "]" /\ Len(text) = 5 * n + 6
         /\ parse_vector(text) = Vectors(text, n + 1)
  BY <1>2
<1>5. /\ char(text, 1) = "[" /\ char(text, 5 * n + 2) # "]"
      /\ Failed \notin byte(text, n + 1)
      /\ after(text, n + 1) = "]" /\ Len(text) = 5 * n + 6
      => parse_vector(text) = Vectors(text, n + 1)
  BY <1>2
<1> QED
  BY <1>1, <1>3, <1>4, <1>5

\* parse_vector returns bytes for the texts for which parse_vector<N> returns them, for some
\* number of them, the same bytes; for "[]"; and for the texts in which a comma follows the
\* last byte.  It refuses all others.
THEOREM ParseVectorAccepts ==
    ASSUME NEW text \in Seq(STRING)
    PROVE  /\ \A n \in Nat \ {0} :
                  parse_vector_N(text, n) # {Failed} => parse_vector(text) = parse_vector_N(text, n)
           /\ \/ parse_vector(text) \in {{Failed}, {Throws}}
              \/ \E n \in Nat \ {0} : Len(text) = 5 * n + 1 /\ parse_vector(text) = parse_vector_N(text, n)
              \/ \E n \in Nat :
                    /\ Len(text) = 5 * n + 2 /\ char(text, 5 * n + 2) = "]"
                    /\ \A i \in 1 .. n : after(text, i) = ","
                    /\ parse_vector(text) = Vectors(text, n)
<1>1. PICK m \in 0 .. Len(text) :
               /\ ~GoesOn(text, m + 1) /\ \A i \in 1 .. m : GoesOn(text, i)
               /\ \/ parse_vector(text) \in {{Failed}, {Throws}}
                  \/ /\ char(text, 1) = "[" /\ char(text, 5 * m + 2) = "]"
                     /\ Len(text) = 5 * m + 2
                     /\ parse_vector(text) = Vectors(text, m)
                  \/ /\ char(text, 1) = "[" /\ Failed \notin byte(text, m + 1)
                     /\ after(text, m + 1) = "]" /\ Len(text) = 5 * m + 6
                     /\ parse_vector(text) = Vectors(text, m + 1)
               /\ /\ char(text, 1) = "[" /\ char(text, 5 * m + 2) # "]"
                  /\ Failed \notin byte(text, m + 1)
                  /\ after(text, m + 1) = "]" /\ Len(text) = 5 * m + 6
                  => parse_vector(text) = Vectors(text, m + 1)
  BY AfterLoop
<1>2. m \in Nat
  OBVIOUS
<1>3. \A i \in 1 .. m : Failed \notin byte(text, i) /\ after(text, i) = ","
  BY <1>1 DEF GoesOn
<1>4. ASSUME NEW n \in Nat \ {0}, parse_vector_N(text, n) # {Failed}
      PROVE  parse_vector(text) = parse_vector_N(text, n)
  <2>1. /\ char(text, 1) = "[" /\ \A i \in 1 .. n : Failed \notin byte(text, i)
        /\ \A i \in 1 .. n - 1 : after(text, i) = ","
        /\ after(text, n) = "]" /\ Len(text) = 5 * n + 1
        /\ parse_vector_N(text, n) = Vectors(text, n)
    BY <1>4, Zenon DEF parse_vector_N
  <2>2. ASSUME NEW i \in 1 .. n PROVE char(text, 5 * i - 3) # "]"
    <3>1. i \in Nat \ {0}
      OBVIOUS
    <3>2. Failed \notin byte(text, i)
      BY <2>1
    <3> QED
      BY <3>1, <3>2, NoToken
  <2>3. \A i \in 1 .. n - 1 : GoesOn(text, i)
    <3> SUFFICES ASSUME NEW i \in 1 .. n - 1 PROVE GoesOn(text, i)
      OBVIOUS
    <3>1. i \in 1 .. n
      OBVIOUS
    <3> QED
      BY <2>1, <2>2, <3>1 DEF GoesOn
  <2>4. ~GoesOn(text, n)
    BY <2>1 DEF GoesOn
  <2>5. m = n - 1
    <3>1. ~(n <= m)
      BY <1>1, <1>2, <2>4
    <3>2. ~(m + 1 <= n - 1)
      BY <1>1, <1>2, <2>3
    <3> QED
      BY <1>2, <3>1, <3>2
  <2>6. m + 1 = n /\ 5 * m + 2 = 5 * n - 3 /\ 5 * m + 6 = 5 * n + 1 /\ n \in 1 .. n
    BY <2>5
  <2> QED
    BY <1>1, <2>1, <2>2, <2>6
<1>5. ASSUME char(text, 1) = "[", Failed \notin byte(text, m + 1), after(text, m + 1) = "]",
             Len(text) = 5 * m + 6, parse_vector(text) = Vectors(text, m + 1)
      PROVE  \E n \in Nat \ {0} : Len(text) = 5 * n + 1 /\ parse_vector(text) = parse_vector_N(text, n)
  <2> DEFINE n == m + 1
  <2>1. n \in Nat \ {0} /\ n - 1 = m /\ Len(text) = 5 * n + 1
    BY <1>2, <1>5
  <2>2. \A i \in 1 .. n : i \in 1 .. m \/ i = n
    BY <1>2
  <2> HIDE DEF n
  <2>3. /\ \A i \in 1 .. n : Failed \notin byte(text, i)
        /\ \A i \in 1 .. n - 1 : after(text, i) = ","
        /\ after(text, n) = "]" /\ char(text, 1) = "["
    BY <1>3, <1>5, <2>1, <2>2 DEF n
  <2>4. parse_vector_N(text, n) = Vectors(text, n)
    BY <2>1, <2>3, Zenon DEF parse_vector_N
  <2>5. parse_vector(text) = Vectors(text, n)
    BY <1>5 DEF n
  <2> QED
    BY <2>1, <2>4, <2>5
<1> QED
  BY <1>1, <1>2, <1>3, <1>4, <1>5
=============================================================================
