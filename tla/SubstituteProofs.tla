-------------------------- MODULE SubstituteProofs --------------------------
(***************************************************************************)
(* Theorems about PasswordSubstitute, and DES within it, for every name,   *)
(* password and seed and every alphabet that AlphabetAssumption admits.    *)
(***************************************************************************)
EXTENDS PasswordSubstitute, SequenceTheorems, TLAPS

-----------------------------------------------------------------------------
(* Tables and bits *)

\* The tables lead from blocks to blocks.
LEMMA Tables ==
  /\ PC1 \in [1 .. 56 -> 1 .. 64] /\ Len(PC1) = 56
  /\ PC2 \in [1 .. 48 -> 1 .. 56] /\ Len(PC2) = 48
  /\ INITPERM \in [1 .. 64 -> 1 .. 64] /\ Len(INITPERM) = 64
  /\ OUTPERM \in [1 .. 64 -> 1 .. 64] /\ Len(OUTPERM) = 64
  /\ PPERM \in [1 .. 32 -> 1 .. 32] /\ Len(PPERM) = 32
<1>1. PC1 \in [1 .. 56 -> 1 .. 64] /\ Len(PC1) = 56
  <2>1. PC1 \in [1 .. 56 -> 1 .. 64]  BY DEF PC1
  <2>2. Len(PC1) = 56  BY DEF PC1
  <2> QED  BY ONLY <2>1, <2>2
<1>2. PC2 \in [1 .. 48 -> 1 .. 56] /\ Len(PC2) = 48  BY DEF PC2
<1>3. INITPERM \in [1 .. 64 -> 1 .. 64] /\ Len(INITPERM) = 64
  <2>1. INITPERM \in [1 .. 64 -> 1 .. 64]  BY DEF INITPERM
  <2>2. Len(INITPERM) = 64  BY DEF INITPERM
  <2> QED  BY ONLY <2>1, <2>2
<1>4. OUTPERM \in [1 .. 64 -> 1 .. 64] /\ Len(OUTPERM) = 64
  <2>1. OUTPERM \in [1 .. 64 -> 1 .. 64]  BY DEF OUTPERM
  <2>2. Len(OUTPERM) = 64  BY DEF OUTPERM
  <2> QED  BY ONLY <2>1, <2>2
<1>5. PPERM \in [1 .. 32 -> 1 .. 32] /\ Len(PPERM) = 32  BY DEF PPERM
<1> QED  BY <1>1, <1>2, <1>3, <1>4, <1>5

\* OUTPERM undoes INITPERM.
LEMMA OutputInverse == \A p \in 1 .. 64 : OUTPERM[INITPERM[p]] = p
BY DEF OUTPERM, INITPERM

\* PC1 takes every bit of a key but the last of each byte.
LEMMA KeyBits == \A p \in 1 .. 64 : p % 8 # 0 => \E q \in 1 .. 56 : PC1[q] = p
BY DEF PC1

\* What Select() gives for each of them.
LEMMA SelectPC1 ==
  ASSUME NEW block \in Bits(64)
  PROVE  /\ Select(block, PC1) \in Bits(56)
         /\ \A p \in 1 .. 56 : Select(block, PC1)[p] = block[PC1[p]]
BY ZenonT(30), Tables DEF Select, Bits

LEMMA SelectPC2 ==
  ASSUME NEW block \in Bits(56)
  PROVE  Select(block, PC2) \in Bits(48)
BY ZenonT(30), Tables DEF Select, Bits

LEMMA SelectINITPERM ==
  ASSUME NEW block \in Bits(64)
  PROVE  /\ Select(block, INITPERM) \in Bits(64)
         /\ \A p \in 1 .. 64 : Select(block, INITPERM)[p] = block[INITPERM[p]]
BY ZenonT(30), Tables DEF Select, Bits

LEMMA SelectOUTPERM ==
  ASSUME NEW block \in Bits(64)
  PROVE  /\ Select(block, OUTPERM) \in Bits(64)
         /\ \A p \in 1 .. 64 : Select(block, OUTPERM)[p] = block[OUTPERM[p]]
BY ZenonT(30), Tables DEF Select, Bits

LEMMA SelectPPERM ==
  ASSUME NEW block \in Bits(32)
  PROVE  Select(block, PPERM) \in Bits(32)
BY ZenonT(30), Tables DEF Select, Bits

\* Two blocks of as many bits are the same if their bits are.
LEMMA BitsEqual ==
  ASSUME NEW k \in Nat, NEW a \in Bits(k), NEW b \in Bits(k),
         \A p \in 1 .. k : a[p] = b[p]
  PROVE  a = b
BY DEF Bits

LEMMA XorType ==
  ASSUME NEW k \in Nat, NEW a, NEW b
  PROVE  /\ XorBits(k, a, b) \in Bits(k)
         /\ \A p \in 1 .. k : XorBits(k, a, b)[p] = Xor(a[p], b[p])
BY DEF XorBits, Xor, Bits, Bit

\* Combining twice with the same bits changes nothing.
LEMMA XorTwice ==
  ASSUME NEW k \in Nat, NEW a \in Bits(k), NEW b \in Bits(k)
  PROVE  XorBits(k, XorBits(k, a, b), b) = a
<1>1. \A x, y \in Bit : Xor(Xor(x, y), y) = x
  BY DEF Xor, Bit
<1> QED  BY <1>1 DEF XorBits, Bits

LEMMA FType ==
  ASSUME NEW subkey, NEW r
  PROVE  F(subkey, r) \in Bits(32)
<1> DEFINE six == XorBits(48, Select(r, EPERM), subkey)
           so == [b \in 1 .. 8 |-> SBox(b, six)]
           temp3 == [p \in 1 .. 32 |->
                       BitOf(so[((p - 1) \div 4) + 1], ((p - 1) % 4) + 5)]
<1>1. \A v, b : BitOf(v, b) \in Bit
  BY DEF BitOf, Bit
<1>2. temp3 \in Bits(32)
  BY <1>1 DEF Bits
<1> HIDE DEF temp3
<1>3. Select(temp3, PPERM) \in Bits(32)
  BY <1>2, SelectPPERM
<1> QED  BY <1>3 DEF F, temp3

LEMMA HalvesType ==
  ASSUME NEW subkey, NEW l \in Bits(32), NEW r \in Bits(32)
  PROVE  /\ CipherHalves(subkey, l, r)[1] = r
         /\ CipherHalves(subkey, l, r)[2] = XorBits(32, l, F(subkey, r))
         /\ CipherHalves(subkey, l, r)[2] \in Bits(32)
BY XorType DEF CipherHalves, HalvesMixed

LEMMA OutputType ==
  ASSUME NEW l \in Bits(32), NEW r \in Bits(32)
  PROVE  /\ Output(l, r) \in Block
         /\ Select(Output(l, r), INITPERM) = Swapped(l, r)
<1>1. Swapped(l, r) \in Bits(64)
  BY DEF Bits, Swapped
<1>2. /\ Output(l, r) \in Bits(64)
      /\ \A p \in 1 .. 64 : Output(l, r)[p] = Swapped(l, r)[OUTPERM[p]]
  BY <1>1, SelectOUTPERM DEF Output
<1>3. /\ Select(Output(l, r), INITPERM) \in Bits(64)
      /\ \A p \in 1 .. 64 :
           Select(Output(l, r), INITPERM)[p] = Output(l, r)[INITPERM[p]]
  BY <1>2, SelectINITPERM
<1>4. ASSUME NEW p \in 1 .. 64
      PROVE  Select(Output(l, r), INITPERM)[p] = Swapped(l, r)[p]
  <2>1. INITPERM[p] \in 1 .. 64
    BY Tables
  <2>2. Output(l, r)[INITPERM[p]] = Swapped(l, r)[OUTPERM[INITPERM[p]]]
    BY <1>2, <2>1
  <2> QED  BY <1>3, <2>2, OutputInverse
<1>5. Select(Output(l, r), INITPERM) = Swapped(l, r)
  BY <1>1, <1>3, <1>4 DEF Bits
<1> QED  BY <1>2, <1>5 DEF Block

-----------------------------------------------------------------------------
(* The rotation of the halves of a key *)

LEMMA ShiftType ==
  ASSUME NEW c \in Bits(56), NEW by \in Nat
  PROVE  LShift(c, by) \in Bits(56)
BY DEF LShift, Bits

\* Rotations add up.
LEMMA ShiftsAdd ==
  ASSUME NEW c \in Bits(56), NEW a \in Nat, NEW b \in Nat
  PROVE  LShift(LShift(c, a), b) = LShift(c, a + b)
<1>1. \A x \in Nat : (((x + b) % 28) + a) % 28 = (x + a + b) % 28
  OBVIOUS
<1>2. ASSUME NEW p \in 1 .. 56
      PROVE  LShift(LShift(c, a), b)[p] = LShift(c, a + b)[p]
  <2>1. CASE p <= 28
    <3>1. ((p - 1 + b) % 28) + 1 \in 1 .. 28
      BY <2>1
    <3>2. LShift(LShift(c, a), b)[p]
            = c[((((p - 1 + b) % 28) + 1 - 1 + a) % 28) + 1]
      <4>1. PICK q \in 1 .. 56 : q = ((p - 1 + b) % 28) + 1
        BY <3>1
      <4>2. PICK d : d = LShift(c, a)
        OBVIOUS
      <4>3. LShift(d, b)[p] = d[((p - 1 + b) % 28) + 1]
        BY ONLY <2>1 DEF LShift
      <4>4. q <= 28
        BY <3>1, <4>1
      <4>5. LShift(c, a)[q] = c[((q - 1 + a) % 28) + 1]
        BY ONLY <4>4 DEF LShift
      <4> QED  BY ONLY <4>1, <4>2, <4>3, <4>5
    <3>3. (((p - 1 + b) % 28) + a) % 28 = (p - 1 + a + b) % 28
      BY <1>1, p - 1 \in Nat
    <3>4. LShift(c, a + b)[p] = c[((p - 1 + a + b) % 28) + 1]
      <4>1. p - 1 + (a + b) = p - 1 + a + b
        OBVIOUS
      <4> QED  BY ONLY <2>1, <4>1 DEF LShift
    <3>5. ((p - 1 + b) % 28) + 1 - 1 = (p - 1 + b) % 28
      OBVIOUS
    <3> QED  BY ONLY <3>2, <3>3, <3>4, <3>5
  <2>2. CASE p > 28
    <3>1. ((p - 29 + b) % 28) + 29 \in 29 .. 56
      BY <2>2
    <3>2. LShift(LShift(c, a), b)[p]
            = c[((((p - 29 + b) % 28) + 29 - 29 + a) % 28) + 29]
      <4>1. PICK q \in 1 .. 56 : q = ((p - 29 + b) % 28) + 29
        BY <3>1
      <4>2. PICK d : d = LShift(c, a)
        OBVIOUS
      <4>3. LShift(d, b)[p] = d[((p - 29 + b) % 28) + 29]
        BY ONLY <2>2 DEF LShift
      <4>4. q > 28
        BY <3>1, <4>1
      <4>5. LShift(c, a)[q] = c[((q - 29 + a) % 28) + 29]
        BY ONLY <4>4 DEF LShift
      <4> QED  BY ONLY <4>1, <4>2, <4>3, <4>5
    <3>3. (((p - 29 + b) % 28) + a) % 28 = (p - 29 + a + b) % 28
      BY <1>1, <2>2, p - 29 \in Nat
    <3>4. LShift(c, a + b)[p] = c[((p - 29 + a + b) % 28) + 29]
      <4>1. p - 29 + (a + b) = p - 29 + a + b
        OBVIOUS
      <4> QED  BY ONLY <2>2, <4>1 DEF LShift
    <3>5. ((p - 29 + b) % 28) + 29 - 29 = (p - 29 + b) % 28
      OBVIOUS
    <3> QED  BY ONLY <3>2, <3>3, <3>4, <3>5
  <2> QED  BY <2>1, <2>2
<1>3. LShift(LShift(c, a), b) \in Bits(56) /\ LShift(c, a + b) \in Bits(56)
  <2>1. a + b \in Nat
    OBVIOUS
  <2> QED  BY ONLY <2>1, ShiftType
<1> QED  BY ONLY <1>2, <1>3, BitsEqual

LEMMA ShiftTable ==
  /\ \A k \in 1 .. 16 : TotalShifts[k] \in Nat /\ Shifts(k) \in Nat
  /\ TotalShifts[1] = Shifts(1)
  /\ \A k \in 1 .. 15 : TotalShifts[k + 1] = TotalShifts[k] + Shifts(k + 1)
BY DEF TotalShifts, Shifts

-----------------------------------------------------------------------------
(* Types *)

LEMMA ZerosType == \A k \in Nat : Zeros(k) \in Bits(k)
BY DEF Zeros, Bits, Bit

LEMMA IdleType == Idle => DESTypeOK
<1> SUFFICES ASSUME Idle PROVE DESTypeOK
  OBVIOUS
<1>1. key \in Block /\ data \in Block /\ encData \in Block /\ Cn \in Bits(56)
  BY ZerosType DEF Idle, Block
<1>2. Ln \in Bits(32) /\ Rn \in Bits(32)
  BY ZerosType DEF Idle
<1> QED  BY <1>1, <1>2 DEF Idle, DESTypeOK

LEMMA EncryptType ==
  ASSUME DESTypeOK, NEW k \in Block, NEW d \in Block, Encrypt(k, d)
  PROVE  DESTypeOK'
<1>1. Cn' \in Bits(56)
  BY SelectPC1 DEF Encrypt, Block
<1>2. keys' \in Seq(Bits(48)) /\ Len(keys') <= 16
  BY DEF Encrypt
<1> QED  BY <1>1, <1>2 DEF Encrypt, DESTypeOK

LEMMA DESStepType == DESTypeOK /\ DESStep => DESTypeOK'
<1> SUFFICES ASSUME DESTypeOK, DESStep PROVE DESTypeOK'
  OBVIOUS
<1>1. CASE DeriveKey
  <2>1. Shifts(Len(keys) + 1) \in Nat
    BY DEF Shifts
  <2>2. Cn' \in Bits(56)
    BY <1>1, <2>1, ShiftType DEF DeriveKey, DESTypeOK
  <2>3. Select(Cn', PC2) \in Bits(48)
    BY <2>2, SelectPC2
  <2>4. keys' \in Seq(Bits(48)) /\ Len(keys') <= 16
    BY <1>1, <2>3 DEF DeriveKey, DESTypeOK
  <2> QED  BY <1>1, <2>2, <2>4 DEF DeriveKey, DESTypeOK
<1>2. CASE Permute
  <2>1. \A p \in 1 .. 64 : data[INITPERM[p]] \in Bit
    BY ZenonT(30), Tables DEF DESTypeOK, Block, Bits
  <2>2. Ln' \in Bits(32) /\ Rn' \in Bits(32)
    BY <1>2, <2>1 DEF Permute, Bits
  <2>3. des' \in {"idle", "keys", "rounds", "done"} /\ n' \in 0 .. 16
    BY <1>2 DEF Permute
  <2>4. UNCHANGED <<key, data, Cn, keys, encData>>
    BY <1>2 DEF Permute
  <2> QED  BY <2>2, <2>3, <2>4 DEF DESTypeOK
<1>3. CASE Cipher
  <2>1. Ln' \in Bits(32) /\ Rn' \in Bits(32)
    BY <1>3, HalvesType DEF Cipher, DESTypeOK
  <2>2. n' \in 0 .. 16
    BY <1>3 DEF Cipher, DESTypeOK
  <2> QED  BY <1>3, <2>1, <2>2 DEF Cipher, DESTypeOK
<1>4. CASE Compress
  <2>1. encData' \in Block
    BY <1>4, OutputType DEF Compress, DESTypeOK
  <2> QED  BY <1>4, <2>1 DEF Compress, DESTypeOK
<1> QED  BY <1>1, <1>2, <1>3, <1>4 DEF DESStep

\* Bytes and bits.
LEMMA BitsOfType ==
  ASSUME NEW b
  PROVE  BitsOf(b, 8) \in Block /\ BitsOf(b, 10) \in Bits(80)
BY DEF BitsOf, BitOf, Block, Bits, Bit

LEMMA BlocksType ==
  ASSUME NEW a, NEW b
  PROVE  XorBlocks(a, b) \in Block
BY XorType DEF XorBlocks, Block

LEMMA FoldedType ==
  ASSUME NEW b
  PROVE  Folded(b) \in Block
<1>1. \A p \in 1 .. 64 : BitsOf(b, 10)[p] \in Bit
  BY BitsOfType DEF Bits
<1>2. \A x, y : Xor(x, y) \in Bit
  BY DEF Xor, Bit
<1> QED  BY <1>1, <1>2 DEF Folded, Block, Bits

LEMMA KeysType ==
  ASSUME NEW p
  PROVE  /\ KeysOf(p)[1] \in Block
         /\ Long(p) => KeysOf(p)[2] \in Block
<1>1. ASSUME NEW b PROVE Xor55AndLshift(b) \in Block
  <2>1. XorWith55(b) \in Bits(64)
    BY BlocksType DEF XorWith55, Block
  <2> QED  BY <2>1 DEF Xor55AndLshift, Block, Bits, Bit
<1> QED  BY <1>1 DEF KeysOf

LEMMA NextDataType ==
  ASSUME NEW k \in 1 .. 4
  PROVE  NextData(Links[k + 1]) \in Block
<1>1. \A a, b : XorBlocks(a, b) \in Block
  BY BlocksType
<1> USE <1>1 DEF NextData, Links
<1>2. CASE k = 1  BY <1>2
<1>3. CASE k = 2  BY <1>3
<1>4. CASE k = 3  BY <1>4
<1>5. CASE k = 4  BY <1>5
<1> QED  BY <1>2, <1>3, <1>4, <1>5

LEMMA InitType == Init => TypeOK
<1> SUFFICES ASSUME Init PROVE TypeOK
  OBVIOUS
<1>1. DESTypeOK
  BY IdleType DEF Init
<1>2. user \in Name /\ password \in Name
      /\ clientSeed \in Buffer(8) /\ serverSeed \in Buffer(8)
  BY InputsAssumption DEF Init
<1>3. RDrSEQ \in Buffer(8)
  BY DEF Init, Zeros, Buffer, Byte
<1>4. firstToken \in Block /\ token \in Block /\ substitute \in Block
  BY ZerosType DEF Init, Block
<1> QED  BY <1>1, <1>2, <1>3, <1>4 DEF Init, TypeOK

\* A second token is made only of a long password.
HalfIsLong == step = "half" => Long(password)

LEMMA NextType == TypeOK /\ HalfIsLong /\ [Next]_vars => TypeOK' /\ HalfIsLong'
<1> SUFFICES ASSUME TypeOK, HalfIsLong, [Next]_vars
             PROVE  TypeOK' /\ HalfIsLong'
  OBVIOUS
<1> USE DEF TypeOK, HalfIsLong, inputs, adding
<1>1. CASE BeginToken
  <2>1. DESTypeOK'
    BY <1>1, EncryptType, KeysType, FoldedType DEF BeginToken
  <2>2. (Long(password))' = Long(password)
    BY <1>1 DEF BeginToken, Long, EBCDICStringLength
  <2> QED  BY <1>1, <2>1, <2>2 DEF BeginToken
<1>2. CASE SecondToken
  <2>1. DESTypeOK'
    BY <1>2, EncryptType, KeysType, FoldedType DEF SecondToken
  <2>2. firstToken' \in Block
    BY <1>2 DEF SecondToken, DESTypeOK
  <2> QED  BY <1>2, <2>1, <2>2 DEF SecondToken
<1>3. CASE TokenDone
  <2>1. DESTypeOK'
    BY <1>3 DEF TokenDone, desVars, DESTypeOK
  <2>2. token' \in Block
    BY <1>3, BlocksType DEF TokenDone, DESTypeOK
  <2> QED  BY <1>3, <2>1, <2>2 DEF TokenDone
<1>4. CASE AddByte
  <2>1. DESTypeOK'
    BY <1>4 DEF AddByte, desVars, DESTypeOK
  <2>2. PICK temp \in Nat :
          /\ temp = Sequence[i] + serverSeed[i] + carryBit /\ temp <= 257
          /\ carryBit' = Carry(temp)
          /\ RDrSEQ' = [RDrSEQ EXCEPT ![i] = StoreByte(temp)]
    <3>1. i \in 1 .. 8 /\ serverSeed[i] \in 0 .. 255 /\ carryBit \in 0 .. 1
      <4>1. /\ i \in 0 .. 8 /\ carryBit \in 0 .. 1
            /\ serverSeed \in [1 .. 8 -> 0 .. 255]
        BY DEF Buffer, Byte
      <4>2. i > 0
        BY <1>4 DEF AddByte
      <4> QED  BY ONLY <4>1, <4>2
    <3>2. Sequence[i] \in 0 .. 1
      BY <3>1 DEF Sequence
    <3>3. Sequence[i] + serverSeed[i] + carryBit \in Nat
          /\ Sequence[i] + serverSeed[i] + carryBit <= 257
      BY SMTT(30), <3>1, <3>2
    <3> QED  BY <1>4, <3>3 DEF AddByte
  <2>3. carryBit' \in 0 .. 1
    BY <2>2 DEF Carry
  <2>4. StoreByte(temp) \in Byte
    BY <2>2 DEF StoreByte, Byte
  <2>5. RDrSEQ' \in Buffer(8)
    BY <2>2, <2>4 DEF Buffer
  <2>6. i' \in 0 .. 8
    BY <1>4 DEF AddByte
  <2> QED  BY <1>4, <2>1, <2>3, <2>5, <2>6 DEF AddByte
<1>5. CASE FirstData
  <2>1. DESTypeOK'
    BY <1>5, EncryptType, BitsOfType DEF FirstData
  <2> QED  BY <1>5, <2>1 DEF FirstData
<1>6. CASE Chain
  <2>1. PICK k \in 1 .. 4 :
          /\ Encrypt(token, NextData(Links[k + 1]))
          /\ step' = Links[k + 1]
          /\ UNCHANGED <<inputs, adding, firstToken, token, substitute>>
    BY <1>6 DEF Chain
  <2>2. DESTypeOK'
    BY <2>1, EncryptType, NextDataType
  <2>3. step' \in {"second", "third", "fourth", "fifth"}
    BY <2>1 DEF Links
  <2> QED  BY <2>1, <2>2, <2>3
<1>7. CASE Return
  <2>1. DESTypeOK' /\ substitute' \in Block
    BY <1>7 DEF Return, desVars, DESTypeOK
  <2> QED  BY <1>7, <2>1 DEF Return
<1>8. CASE Encryption
  <2>1. DESTypeOK'
    BY <1>8, DESStepType DEF Encryption
  <2> QED  BY <1>8, <2>1 DEF Encryption, Long
<1>9. CASE UNCHANGED vars
  <2>1. DESTypeOK'
    BY <1>9 DEF vars, desVars, DESTypeOK
  <2> QED  BY <1>9, <2>1 DEF vars, Long
<1> QED
  BY <1>1, <1>2, <1>3, <1>4, <1>5, <1>6, <1>7, <1>8, <1>9 DEF Next

\* Every variable of the substitute and of DES keeps its type.
THEOREM TypeCorrect == Spec => []TypeOK
<1>1. Init => TypeOK /\ HalfIsLong
  BY InitType DEF Init, HalfIsLong
<1>2. (TypeOK /\ HalfIsLong) /\ [Next]_vars => (TypeOK /\ HalfIsLong)'
  BY NextType
<1> QED  BY <1>1, <1>2, PTL DEF Spec

-----------------------------------------------------------------------------
(* The rounds of DES *)

LEMMA EncryptHalves ==
  ASSUME NEW k, NEW d, Encrypt(k, d)
  PROVE  HalvesRotate'
BY DEF Encrypt, HalvesRotate

LEMMA StepHalves == DESTypeOK /\ HalvesRotate /\ DESStep => HalvesRotate'
<1> SUFFICES ASSUME DESTypeOK, HalvesRotate, DESStep PROVE HalvesRotate'
  OBVIOUS
<1>1. CASE DeriveKey
  <2> DEFINE start == Select(key, PC1)
  <2>0. PICK m \in Nat : m = Len(keys)
    BY DEF DESTypeOK
  <2>1. /\ des = "keys" /\ m \in 0 .. 15 /\ key' = key
        /\ Cn' = LShift(Cn, Shifts(m + 1))
        /\ keys' # <<>> /\ Len(keys') = m + 1
    <3>1. des = "keys" /\ m < 16 /\ key' = key
          /\ Cn' = LShift(Cn, Shifts(m + 1))
      BY <1>1, <2>0 DEF DeriveKey
    <3>2. keys' = Append(keys, Select(Cn', PC2))
      BY <1>1 DEF DeriveKey
    <3>3. Len(keys') = m + 1 /\ keys' # <<>>
      BY <2>0, <3>2 DEF DESTypeOK
    <3> QED  BY <3>1, <3>3
  <2>2. start \in Bits(56)
    BY SelectPC1 DEF DESTypeOK, Block
  <2>3. Cn' = LShift(start, TotalShifts[m + 1])
    <3>1. CASE keys = <<>>
      <4>1. m = 0 /\ Cn = start
        BY <2>0, <2>1, <3>1 DEF HalvesRotate
      <4>2. m + 1 = 1 /\ TotalShifts[1] = Shifts(1)
        BY <4>1, ShiftTable
      <4> QED  BY <2>1, <4>1, <4>2
    <3>2. CASE keys # <<>>
      <4>1. m \in 1 .. 15
        <5>1. keys \in Seq(Bits(48))
          BY DEF DESTypeOK
        <5>2. Len(keys) # 0
          BY <3>2, <5>1, EmptySeq
        <5>3. m \in 0 .. 15 /\ m # 0
          BY <2>0, <2>1, <5>2
        <5> QED  BY ONLY <5>3
      <4>2. Cn = LShift(start, TotalShifts[m])
        BY <2>0, <2>1, <3>2 DEF HalvesRotate
      <4>3. /\ TotalShifts[m] \in Nat /\ Shifts(m + 1) \in Nat
            /\ TotalShifts[m + 1] = TotalShifts[m] + Shifts(m + 1)
        BY <4>1, ShiftTable
      <4> QED  BY ZenonT(30), <2>1, <2>2, <4>2, <4>3, ShiftsAdd
    <3> QED  BY <3>1, <3>2
  <2> QED  BY <2>1, <2>3 DEF HalvesRotate
<1>2. CASE Permute
  BY <1>2 DEF Permute, HalvesRotate
<1>3. CASE Cipher
  BY <1>3 DEF Cipher, HalvesRotate
<1>4. CASE Compress
  BY <1>4 DEF Compress, HalvesRotate
<1> QED  BY <1>1, <1>2, <1>3, <1>4 DEF DESStep

LEMMA NextHalves == TypeOK /\ HalvesRotate /\ [Next]_vars => HalvesRotate'
<1> SUFFICES ASSUME TypeOK, HalvesRotate, [Next]_vars PROVE HalvesRotate'
  OBVIOUS
<1>1. CASE BeginToken  BY <1>1, EncryptHalves DEF BeginToken
<1>2. CASE SecondToken  BY <1>2, EncryptHalves DEF SecondToken
<1>3. CASE FirstData  BY <1>3, EncryptHalves DEF FirstData
<1>4. CASE Chain
  <2>1. PICK k \in 1 .. 4 : Encrypt(token, NextData(Links[k + 1]))
    BY <1>4 DEF Chain
  <2> QED  BY <2>1, EncryptHalves
<1>5. CASE Encryption  BY <1>5, StepHalves DEF Encryption, TypeOK
<1>6. CASE TokenDone \/ AddByte \/ Return \/ UNCHANGED vars
  <2>1. UNCHANGED desVars
    BY <1>6 DEF TokenDone, AddByte, Return, vars
  <2> QED  BY <2>1 DEF desVars, HalvesRotate
<1> QED  BY <1>1, <1>2, <1>3, <1>4, <1>5, <1>6 DEF Next

\* The key schedule rotates the halves of the key as the standard says.
THEOREM KeyHalvesRotate == Spec => []HalvesRotate
<1>1. Init => HalvesRotate
  BY DEF Init, Idle, HalvesRotate
<1> QED  BY <1>1, TypeCorrect, NextHalves, PTL DEF Spec

-----------------------------------------------------------------------------
(* The decryption *)

LEMMA InputInverse ==
  \A p \in 1 .. 64 : OUTPERM[p] \in 1 .. 64 /\ INITPERM[OUTPERM[p]] = p
BY DEF OUTPERM, INITPERM

\* Bits are sequences.
LEMMA BitsAreSeq ==
  ASSUME NEW k \in Nat
  PROVE  \A s : s \in Bits(k) <=> s \in Seq(Bit) /\ Len(s) = k
<1>1. ASSUME NEW s, s \in Bits(k) PROVE s \in Seq(Bit) /\ Len(s) = k
  <2>1. s \in Seq(Bit) /\ DOMAIN s = 1 .. k
    BY <1>1, SeqDef DEF Bits
  <2>2. DOMAIN s = 1 .. Len(s) /\ Len(s) \in Nat
    BY <2>1, LenProperties
  <2>3. PICK m \in Nat : m = Len(s) /\ 1 .. m = 1 .. k
    BY <2>1, <2>2
  <2>4. m = k
    <3>1. m \in 1 .. m => m \in 1 .. k
      BY ONLY <2>3
    <3>2. k \in 1 .. k => k \in 1 .. m
      BY ONLY <2>3
    <3> QED  BY <3>1, <3>2
  <2> QED  BY <2>1, <2>3, <2>4
<1>2. ASSUME NEW s, s \in Seq(Bit), Len(s) = k PROVE s \in Bits(k)
  BY <1>2, LenProperties DEF Bits
<1> QED  BY <1>1, <1>2

LEMMA BlockSplits ==
  ASSUME NEW b \in Bits(64)
  PROVE  /\ SubSeq(b, 1, 32) \in Bits(32) /\ SubSeq(b, 33, 64) \in Bits(32)
         /\ SubSeq(b, 1, 32) \o SubSeq(b, 33, 64) = b
         /\ \A p \in 1 .. 32 : SubSeq(b, 1, 32)[p] = b[p]
         /\ \A p \in 1 .. 32 : SubSeq(b, 33, 64)[p] = b[p + 32]
<1>0. \A p \in 1 .. 64 : b[p] \in Bit
  BY DEF Bits
<1>1. b \in Seq(Bit) /\ Len(b) = 64
  BY BitsAreSeq
<1>2. /\ SubSeq(b, 1, 32) \in Seq(Bit) /\ Len(SubSeq(b, 1, 32)) = 32
      /\ \A p \in 1 .. 32 : SubSeq(b, 1, 32)[p] = b[p]
  <2>1. /\ SubSeq(b, 1, 32) \in Seq(Bit)
        /\ Len(SubSeq(b, 1, 32)) = IF 1 <= 32 THEN 32 - 1 + 1 ELSE 0
        /\ \A p \in 1 .. 32 - 1 + 1 : SubSeq(b, 1, 32)[p] = b[1 + p - 1]
    <3>1. \A p \in 1 .. 32 : b[p] \in Bit
      BY ONLY <1>0
    <3> QED  BY <3>1, SubSeqProperties
  <2> QED  BY <2>1
<1>3. /\ SubSeq(b, 33, 64) \in Seq(Bit) /\ Len(SubSeq(b, 33, 64)) = 32
      /\ \A p \in 1 .. 32 : SubSeq(b, 33, 64)[p] = b[p + 32]
  <2>1. /\ SubSeq(b, 33, 64) \in Seq(Bit)
        /\ Len(SubSeq(b, 33, 64)) = IF 33 <= 64 THEN 64 - 33 + 1 ELSE 0
        /\ \A p \in 1 .. 64 - 33 + 1 : SubSeq(b, 33, 64)[p] = b[33 + p - 1]
    <3>1. \A p \in 33 .. 64 : b[p] \in Bit
      BY ONLY <1>0
    <3> QED  BY <3>1, SubSeqProperties
  <2> QED  BY <2>1
<1>4. SubSeq(b, 1, 32) \o SubSeq(b, 33, 64) = b
  <2>1. 1 \in 1 .. Len(b) + 1 /\ 32 \in 1 - 1 .. Len(b) /\ 64 \in 32 .. Len(b)
    BY <1>1
  <2>2. SubSeq(b, 1, 32) \o SubSeq(b, 32 + 1, 64) = SubSeq(b, 1, 64)
    BY ONLY <1>1, <2>1, ConcatAdjacentSubSeq
  <2>3. 32 + 1 = 33
    OBVIOUS
  <2>4. SubSeq(b, 1, Len(b)) = b
    BY ONLY <1>1, SubSeqFull
  <2> QED  BY ONLY <1>1, <2>2, <2>3, <2>4
<1> QED  BY <1>2, <1>3, <1>4, BitsAreSeq

LEMMA HalvesJoin ==
  ASSUME NEW l \in Bits(32), NEW r \in Bits(32)
  PROVE  /\ l \o r \in Bits(64)
         /\ SubSeq(l \o r, 1, 32) = l /\ SubSeq(l \o r, 33, 64) = r
         /\ Swapped(r, l) = l \o r
<1>1. l \in Seq(Bit) /\ Len(l) = 32 /\ r \in Seq(Bit) /\ Len(r) = 32
  BY BitsAreSeq
<1>2. PICK b : b = l \o r
  OBVIOUS
<1>3. /\ b \in Seq(Bit) /\ Len(b) = Len(l) + Len(r)
      /\ \A p \in 1 .. Len(l) + Len(r) :
           b[p] = IF p <= Len(l) THEN l[p] ELSE r[p - Len(l)]
  <2>1. l \in Seq(Bit) /\ r \in Seq(Bit)
    BY ONLY <1>1
  <2> QED  BY ONLY <1>2, <2>1, ConcatProperties
<1>4. Len(l) + Len(r) = 64
  BY ONLY <1>1
<1>5. \A p \in 1 .. 64 : b[p] = IF p <= 32 THEN l[p] ELSE r[p - 32]
  BY ONLY <1>1, <1>3, <1>4
<1>6. b \in Bits(64)
  <2>1. b \in Seq(Bit) /\ Len(b) = 64
    BY ONLY <1>3, <1>4
  <2> QED  BY ONLY <2>1, BitsAreSeq
<1>7. SubSeq(b, 1, 32) = l
  <2>1. PICK x \in Bits(32) :
          x = SubSeq(b, 1, 32) /\ \A p \in 1 .. 32 : x[p] = b[p]
    BY ZenonT(30), <1>6, BlockSplits
  <2>2. \A p \in 1 .. 32 : x[p] = l[p]
    BY ONLY <1>5, <2>1
  <2> QED  BY <2>1, <2>2, BitsEqual
<1>8. SubSeq(b, 33, 64) = r
  <2>1. PICK x \in Bits(32) :
          x = SubSeq(b, 33, 64) /\ \A p \in 1 .. 32 : x[p] = b[p + 32]
    BY <1>6, BlockSplits
  <2>2. \A p \in 1 .. 32 : x[p] = r[p]
    BY ONLY <1>5, <2>1
  <2> QED  BY <2>1, <2>2, BitsEqual
<1>9. Swapped(r, l) = b
  <2>1. Swapped(r, l) \in Bits(64)
    BY DEF Swapped, Bits
  <2>2. \A p \in 1 .. 64 : Swapped(r, l)[p] = IF p <= 32 THEN l[p] ELSE r[p - 32]
    BY DEF Swapped
  <2>3. \A p \in 1 .. 64 : Swapped(r, l)[p] = b[p]
    BY ONLY <1>5, <2>2
  <2> QED  BY <1>6, <2>1, <2>3, BitsEqual
<1> QED  BY <1>2, <1>6, <1>7, <1>8, <1>9

\* The block with its halves swapped.
Turned(b) == SubSeq(b, 33, 64) \o SubSeq(b, 1, 32)

LEMMA TurnedJoin ==
  ASSUME NEW l \in Bits(32), NEW r \in Bits(32)
  PROVE  Turned(l \o r) = r \o l
<1>1. SubSeq(l \o r, 1, 32) = l /\ SubSeq(l \o r, 33, 64) = r
  BY HalvesJoin
<1> QED  BY ONLY <1>1 DEF Turned

\* A round undoes itself on the swapped block.
LEMMA RoundUndone ==
  ASSUME NEW subkey, NEW b \in Bits(64)
  PROVE  /\ Round(subkey, b) \in Bits(64)
         /\ Round(subkey, Turned(Round(subkey, b))) = Turned(b)
<1>1. PICK l \in Bits(32), r \in Bits(32) : b = l \o r
  BY BlockSplits
<1>2. PICK x \in Bits(32) : x = XorBits(32, l, F(subkey, r))
  BY XorType
<1>3. ASSUME NEW y \in Bits(32), NEW z \in Bits(32)
      PROVE  Round(subkey, y \o z) = z \o XorBits(32, y, F(subkey, z))
  <2>1. SubSeq(y \o z, 1, 32) = y /\ SubSeq(y \o z, 33, 64) = z
    BY HalvesJoin
  <2>2. /\ CipherHalves(subkey, y, z)[1] = z
        /\ CipherHalves(subkey, y, z)[2] = XorBits(32, y, F(subkey, z))
    BY HalvesType
  <2> QED  BY ONLY <2>1, <2>2 DEF Round
<1>4. Round(subkey, b) = r \o x /\ r \o x \in Bits(64)
  BY <1>1, <1>2, <1>3, HalvesJoin
<1>5. Turned(r \o x) = x \o r /\ Turned(b) = r \o l
  BY <1>1, TurnedJoin
<1>6. XorBits(32, x, F(subkey, r)) = l
  BY <1>2, FType, XorTwice
<1>7. Round(subkey, x \o r) = r \o l
  BY <1>3, <1>6
<1> QED  BY <1>4, <1>5, <1>7

\* Output() of the halves of a permuted block, the second first, is the block.
LEMMA OutputRestores ==
  ASSUME NEW d \in Bits(64), NEW l \in Bits(32), NEW r \in Bits(32),
         Select(d, INITPERM) = l \o r
  PROVE  Output(r, l) = d
<1>1. PICK s \in Bits(64) :
        s = l \o r /\ \A p \in 1 .. 64 : s[p] = d[INITPERM[p]]
  BY SelectINITPERM
<1>2. Output(r, l) = Select(s, OUTPERM)
  <2>1. Swapped(r, l) = l \o r
    BY ONLY HalvesJoin
  <2>2. Swapped(r, l) = s
    BY ONLY <1>1, <2>1
  <2> QED  BY ONLY <2>2 DEF Output
<1>3. /\ Select(s, OUTPERM) \in Bits(64)
      /\ \A p \in 1 .. 64 : Select(s, OUTPERM)[p] = s[OUTPERM[p]]
  BY SelectOUTPERM
<1>4. ASSUME NEW p \in 1 .. 64 PROVE Select(s, OUTPERM)[p] = d[p]
  <2>1. PICK q \in 1 .. 64 : q = OUTPERM[p] /\ INITPERM[q] = p
    BY ONLY InputInverse
  <2>2. s[q] = d[p]
    BY ONLY <1>1, <2>1
  <2> QED  BY ONLY <1>3, <2>1, <2>2
<1> QED  BY <1>2, <1>3, <1>4, BitsEqual

LEMMA SixteenSteps ==
  ASSUME NEW A, 0 \in A, \A m \in 0 .. 15 : m \in A => m + 1 \in A
  PROVE  16 \in A
<1>1. 1 \in A /\ 2 \in A /\ 3 \in A /\ 4 \in A
  OBVIOUS
<1>2. 5 \in A /\ 6 \in A /\ 7 \in A /\ 8 \in A
  BY <1>1
<1>3. 9 \in A /\ 10 \in A /\ 11 \in A /\ 12 \in A
  BY <1>2
<1>4. 13 \in A /\ 14 \in A /\ 15 \in A
  BY <1>3
<1> QED  BY <1>4

\* h are the blocks that follow from each other by the rounds of Unrounds().
Follow(subkeys, block, h) ==
  h = [r \in 0 .. 16 |->
         IF r = 0 THEN block ELSE Round(subkeys[17 - r], h[r - 1])]

LEMMA UnroundsAre ==
  ASSUME NEW subkeys, NEW block, NEW g, Follow(subkeys, block, g)
  PROVE  Unrounds(subkeys, block)[16] = g[16]
<1> DEFINE Runs(h) == Follow(subkeys, block, h)
<1> USE DEF Follow
<1>1. PICK h : h = Unrounds(subkeys, block)
  OBVIOUS
<1>2. h = CHOOSE x : Runs(x)
  BY <1>1 DEF Unrounds
<1>3. Runs(g)
  OBVIOUS
<1> HIDE DEF Runs
<1>4. Runs(h)
  BY <1>2, <1>3
<1>5. h[0] = g[0]
  BY <1>3, <1>4 DEF Runs
<1>6. ASSUME NEW m \in 0 .. 15, h[m] = g[m]
      PROVE  h[m + 1] = g[m + 1]
  <2>1. m + 1 \in 0 .. 16 /\ m + 1 # 0 /\ (m + 1) - 1 = m
    OBVIOUS
  <2>2. h[m + 1] = Round(subkeys[17 - (m + 1)], h[m])
    BY ONLY <1>4, <2>1 DEF Runs
  <2>3. g[m + 1] = Round(subkeys[17 - (m + 1)], g[m])
    BY ONLY <1>3, <2>1 DEF Runs
  <2> QED  BY ONLY <1>6, <2>2, <2>3
<1> DEFINE A == {m \in 0 .. 16 : h[m] = g[m]}
<1>7. 0 \in A
  BY <1>5
<1>8. \A m \in 0 .. 15 : m \in A => m + 1 \in A
  BY <1>6
<1> HIDE DEF A
<1>9. 16 \in A
  BY <1>7, <1>8, SixteenSteps
<1> QED  BY <1>1, <1>9 DEF A

\* The blocks of an encryption, from the permuted data on.
Encryptions(k, d, h) ==
  /\ h \in [0 .. 16 -> Bits(64)]
  /\ h[0] = Select(d, INITPERM)
  /\ \A m \in 1 .. 16 : h[m] = Round(Schedule(k)[m], h[m - 1])

\* What sixteen rounds with the subkeys of k make of a block, and Output() of
\* the last, is decrypted to the block.
LEMMA RoundsDecrypted ==
  ASSUME NEW k, NEW d \in Bits(64), NEW h, Encryptions(k, d, h),
         NEW l \in Bits(32), NEW r \in Bits(32), h[16] = l \o r
  PROVE  Decrypted(k, Output(l, r)) = d
<1>0. /\ h \in [0 .. 16 -> Bits(64)]
      /\ h[0] = Select(d, INITPERM)
      /\ \A m \in 1 .. 16 : h[m] = Round(Schedule(k)[m], h[m - 1])
  BY DEF Encryptions
<1> DEFINE g == [m \in 0 .. 16 |-> Turned(h[16 - m])]
           start == Select(Output(l, r), INITPERM)
<1>1. start = Turned(h[16])
  <2>1. start = Swapped(l, r)
    BY OutputType
  <2>2. Swapped(l, r) = r \o l
    BY ONLY HalvesJoin
  <2>3. Turned(h[16]) = r \o l
    BY TurnedJoin
  <2> QED  BY ONLY <2>1, <2>2, <2>3
<1>2. ASSUME NEW m \in 1 .. 16
      PROVE  Turned(h[16 - m]) = Round(Schedule(k)[17 - m], Turned(h[16 - (m - 1)]))
  <2>1. PICK j \in 1 .. 16 : j = 17 - m /\ 16 - m = j - 1 /\ 16 - (m - 1) = j
    OBVIOUS
  <2>2. h[j - 1] \in Bits(64) /\ h[j] = Round(Schedule(k)[j], h[j - 1])
    <3>1. j - 1 \in 0 .. 16
      OBVIOUS
    <3> QED  BY <1>0, <3>1
  <2>3. Round(Schedule(k)[j], Turned(h[j])) = Turned(h[j - 1])
    BY ONLY <2>2, RoundUndone
  <2> QED  BY ONLY <2>1, <2>3
<1>3. Follow(Schedule(k), start, g)
  <2>1. ASSUME NEW m \in 0 .. 16
        PROVE  g[m] = IF m = 0 THEN start
                      ELSE Round(Schedule(k)[17 - m], g[m - 1])
    <3>1. CASE m = 0
      <4>1. 16 - m = 16
        BY <3>1
      <4> QED  BY <1>1, <3>1, <4>1
    <3>2. CASE m # 0
      <4>1. m \in 1 .. 16 /\ m - 1 \in 0 .. 16
        BY <3>2
      <4>2. g[m - 1] = Turned(h[16 - (m - 1)])
        BY <4>1
      <4> QED  BY <1>2, <3>2, <4>1, <4>2
    <3> QED  BY <3>1, <3>2
  <2>2. g = [m \in 0 .. 16 |-> g[m]]
    OBVIOUS
  <2> HIDE DEF g, start
  <2> QED  BY <2>1, <2>2 DEF Follow
<1>4. Unrounds(Schedule(k), start)[16] = g[16]
  <2> HIDE DEF g, start
  <2> QED  BY <1>3, UnroundsAre
<1>5. PICK x \in Bits(32), y \in Bits(32) : h[0] = x \o y
  <2>1. PICK b \in Bits(64) : b = h[0]
    BY <1>0
  <2>2. /\ SubSeq(b, 1, 32) \in Bits(32) /\ SubSeq(b, 33, 64) \in Bits(32)
        /\ b = SubSeq(b, 1, 32) \o SubSeq(b, 33, 64)
    BY BlockSplits
  <2> QED  BY ONLY <2>1, <2>2
<1>6. g[16] = y \o x
  <2>1. g[16] = Turned(h[0])
    OBVIOUS
  <2> QED  BY <1>5, <2>1, TurnedJoin
<1>7. Output(y, x) = d
  BY <1>0, <1>5, OutputRestores
<1>8. /\ SubSeq(y \o x, 1, 32) = y /\ SubSeq(y \o x, 33, 64) = x
  BY HalvesJoin
<1> HIDE DEF g
<1>9. Unrounds(Schedule(k), Select(Output(l, r), INITPERM))[16] = y \o x
  BY <1>4, <1>6
<1> QED  BY ONLY <1>7, <1>8, <1>9 DEF Decrypted

\* The subkeys derived so far are the standard's.
SubkeysFit ==
  des \in {"keys", "rounds"} =>
    \A m \in 1 .. Len(keys) : keys[m] = Schedule(key)[m]

\* The blocks so far, from the permuted data to the halves.
Trace(h) ==
  /\ h \in [0 .. 16 -> Bits(64)]
  /\ h[0] = Select(data, INITPERM)
  /\ \A m \in 1 .. n : h[m] = Round(keys[m], h[m - 1])
  /\ h[n] = Ln \o Rn
RoundsTraced == des = "rounds" => Len(keys) = 16 /\ \E h : Trace(h)

Traced == SubkeysFit /\ RoundsTraced /\ Decrypts

LEMMA EncryptTraces ==
  ASSUME NEW k, NEW d, Encrypt(k, d)
  PROVE  Traced'
BY DEF Encrypt, Traced, SubkeysFit, RoundsTraced, Decrypts

LEMMA DeriveKeyTraces ==
  DESTypeOK /\ Traced /\ DeriveKey /\ HalvesRotate' => Traced'
<1> SUFFICES ASSUME DESTypeOK, Traced, DeriveKey, HalvesRotate' PROVE Traced'
  OBVIOUS
<1>1. PICK m \in Nat : m = Len(keys)
  BY DEF DESTypeOK
<1>2. PICK k : k = Select(Cn', PC2)
  OBVIOUS
<1>3. /\ des = "keys" /\ des' = "keys" /\ m \in 0 .. 15 /\ key' = key
      /\ keys' = Append(keys, k) /\ keys \in Seq(Bits(48)) /\ Cn' \in Bits(56)
  <2>1. /\ des = "keys" /\ des' = "keys" /\ m < 16 /\ key' = key
        /\ keys' = Append(keys, k)
    BY <1>1, <1>2 DEF DeriveKey
  <2>2. keys \in Seq(Bits(48)) /\ Cn \in Bits(56)
    BY DEF DESTypeOK
  <2>3. Cn' \in Bits(56)
    <3>1. Shifts(Len(keys) + 1) \in Nat
      BY DEF Shifts
    <3> QED  BY <2>2, <3>1, ShiftType DEF DeriveKey
  <2> QED  BY <2>1, <2>2, <2>3
<1>4. /\ Len(keys') = m + 1 /\ keys' # <<>> /\ keys'[m + 1] = k
      /\ \A j \in 1 .. m : keys'[j] = keys[j]
  <2>1. k \in Bits(48)
    BY <1>2, <1>3, SelectPC2
  <2>2. /\ keys' # <<>> /\ Len(keys') = Len(keys) + 1
        /\ keys'[Len(keys) + 1] = k
        /\ \A j \in 1 .. Len(keys) : keys'[j] = keys[j]
    BY ONLY <1>3, <2>1, AppendProperties
  <2> QED  BY ONLY <1>1, <2>2
<1>5. k = Schedule(key)[m + 1]
  <2>1. Cn' = LShift(Select(key, PC1), TotalShifts[m + 1])
    BY <1>3, <1>4 DEF HalvesRotate
  <2>2. m + 1 \in 1 .. 16
    BY ONLY <1>3
  <2> QED  BY ONLY <1>2, <2>1, <2>2 DEF Schedule
<1>6. SubkeysFit'
  <2>1. \A j \in 1 .. m : keys[j] = Schedule(key)[j]
    BY <1>1, <1>3 DEF Traced, SubkeysFit
  <2>2. ASSUME NEW j \in 1 .. m + 1
        PROVE  keys'[j] = Schedule(key)[j]
    <3>1. j \in 1 .. m \/ j = m + 1
      BY <1>1
    <3> QED  BY ONLY <1>4, <1>5, <2>1, <3>1
  <2>3. Schedule(key') = Schedule(key)
    BY <1>3
  <2> QED  BY ONLY <1>4, <2>2, <2>3 DEF SubkeysFit
<1> QED  BY <1>3, <1>6 DEF Traced, RoundsTraced, Decrypts

LEMMA PermuteTraces == DESTypeOK /\ Traced /\ Permute => Traced'
<1> SUFFICES ASSUME DESTypeOK, Traced, Permute PROVE Traced'
  OBVIOUS
<1>1. /\ des = "keys" /\ des' = "rounds" /\ Len(keys) = 16 /\ n' = 0
      /\ UNCHANGED <<key, data, keys>>
  BY DEF Permute
<1>2. PICK s \in Bits(64) :
        /\ s = Select(data, INITPERM)
        /\ \A p \in 1 .. 64 : s[p] = data[INITPERM[p]]
  BY SelectINITPERM DEF DESTypeOK, Block
<1>3. /\ Ln' = [p \in 1 .. 32 |-> s[p]]
      /\ Rn' = [p \in 1 .. 32 |-> s[p + 32]]
  <2>1. /\ Ln' = [p \in 1 .. 32 |-> data[INITPERM[p]]]
        /\ Rn' = [p \in 1 .. 32 |-> data[INITPERM[p + 32]]]
    BY DEF Permute
  <2>2. /\ \A p \in 1 .. 32 : data[INITPERM[p]] = s[p]
        /\ \A p \in 1 .. 32 : data[INITPERM[p + 32]] = s[p + 32]
    BY ONLY <1>2
  <2> QED  BY ONLY <2>1, <2>2
<1>4. s = Ln' \o Rn'
  <2>1. PICK l \in Bits(32), r \in Bits(32) :
          /\ l \o r = s
          /\ \A p \in 1 .. 32 : l[p] = s[p]
          /\ \A p \in 1 .. 32 : r[p] = s[p + 32]
    BY BlockSplits
  <2>2. l = [p \in 1 .. 32 |-> s[p]] /\ r = [p \in 1 .. 32 |-> s[p + 32]]
    BY ONLY <2>1 DEF Bits
  <2> QED  BY ONLY <1>3, <2>1, <2>2
<1>5. \E h : Trace(h)'
  <2>1. PICK h \in [0 .. 16 -> Bits(64)] : h[0] = s
    <3>1. /\ [m \in 0 .. 16 |-> s] \in [0 .. 16 -> Bits(64)]
          /\ [m \in 0 .. 16 |-> s][0] = s
      OBVIOUS
    <3> QED  BY ONLY <3>1
  <2>2. h[n'] = Ln' \o Rn' /\ h[0] = Select(data', INITPERM)
    BY ONLY <1>1, <1>2, <1>4, <2>1
  <2>3. \A m \in 1 .. n' : FALSE
    BY ONLY <1>1
  <2>4. Trace(h)'
    BY ONLY <2>1, <2>2, <2>3 DEF Trace
  <2> QED  BY <2>4
<1>6. SubkeysFit'
  BY <1>1 DEF Traced, SubkeysFit
<1> QED  BY <1>1, <1>5, <1>6 DEF Traced, RoundsTraced, Decrypts

LEMMA CipherTraces == DESTypeOK /\ Traced /\ Cipher => Traced'
<1> SUFFICES ASSUME DESTypeOK, Traced, Cipher PROVE Traced'
  OBVIOUS
<1>1. /\ des = "rounds" /\ des' = "rounds" /\ Len(keys) = 16
      /\ UNCHANGED <<key, data, keys>>
  BY DEF Cipher, Traced, RoundsTraced
<1>2. PICK m \in 0 .. 15 : m = n /\ n' = m + 1
  BY DEF Cipher, DESTypeOK
<1>3. PICK h : Trace(h)
  BY <1>1 DEF Traced, RoundsTraced
<1>4. /\ Ln' \o Rn' = Round(keys[m + 1], h[m])
      /\ Ln' \o Rn' \in Bits(64)
  <2>1. Ln \in Bits(32) /\ Rn \in Bits(32)
    BY DEF DESTypeOK
  <2>2. /\ Ln' = CipherHalves(keys[m + 1], Ln, Rn)[1]
        /\ Rn' = CipherHalves(keys[m + 1], Ln, Rn)[2]
    BY <1>2 DEF Cipher
  <2>3. SubSeq(Ln \o Rn, 1, 32) = Ln /\ SubSeq(Ln \o Rn, 33, 64) = Rn
    BY <2>1, HalvesJoin
  <2>4. h[m] = Ln \o Rn
    BY <1>2, <1>3 DEF Trace
  <2>5. Ln' \o Rn' = Round(keys[m + 1], h[m])
    BY ONLY <2>2, <2>3, <2>4 DEF Round
  <2>6. Ln' \in Bits(32) /\ Rn' \in Bits(32)
    BY ONLY <2>1, <2>2, HalvesType
  <2>7. Ln' \o Rn' \in Bits(64)
    BY ONLY <2>6, HalvesJoin
  <2> QED  BY <2>5, <2>7
<1>5. \E g : Trace(g)'
  <2>1. PICK g \in [0 .. 16 -> Bits(64)] :
          g[m + 1] = Ln' \o Rn' /\ \A j \in 0 .. m : g[j] = h[j]
    <3>1. PICK b \in Bits(64) : b = Ln' \o Rn'
      BY <1>4
    <3>2. h \in [0 .. 16 -> Bits(64)]
      BY <1>3 DEF Trace
    <3>3. /\ [h EXCEPT ![m + 1] = b] \in [0 .. 16 -> Bits(64)]
          /\ [h EXCEPT ![m + 1] = b][m + 1] = b
          /\ \A j \in 0 .. m : [h EXCEPT ![m + 1] = b][j] = h[j]
      BY ONLY <3>2
    <3> QED  BY ONLY <3>1, <3>3
  <2>2. /\ h[0] = Select(data, INITPERM)
        /\ \A j \in 1 .. m : h[j] = Round(keys[j], h[j - 1])
    BY ONLY <1>2, <1>3 DEF Trace
  <2>3. ASSUME NEW j \in 1 .. m + 1
        PROVE  g[j] = Round(keys[j], g[j - 1])
    <3>1. CASE j = m + 1
      <4>1. j - 1 = m /\ m \in 0 .. m
        BY <3>1
      <4> QED  BY ONLY <1>4, <2>1, <3>1, <4>1
    <3>2. CASE j # m + 1
      <4>1. j \in 1 .. m /\ j \in 0 .. m /\ j - 1 \in 0 .. m
        BY <3>2
      <4> QED  BY ONLY <2>1, <2>2, <4>1
    <3> QED  BY <3>1, <3>2
  <2>4. g[0] = Select(data, INITPERM)
    BY ONLY <2>1, <2>2
  <2>5. Trace(g)'
    BY ONLY <1>1, <1>2, <2>1, <2>3, <2>4 DEF Trace
  <2> QED  BY <2>5
<1>6. SubkeysFit'
  BY <1>1 DEF Traced, SubkeysFit
<1> QED  BY <1>1, <1>5, <1>6 DEF Traced, RoundsTraced, Decrypts

LEMMA CompressTraces == DESTypeOK /\ Traced /\ Compress => Traced'
<1> SUFFICES ASSUME DESTypeOK, Traced, Compress PROVE Traced'
  OBVIOUS
<1>1. /\ des = "rounds" /\ des' = "done" /\ n = 16 /\ Len(keys) = 16
      /\ UNCHANGED <<key, data>> /\ encData' = Output(Ln, Rn)
  BY DEF Compress, Traced, RoundsTraced
<1>2. PICK h : Trace(h)
  BY <1>1 DEF Traced, RoundsTraced
<1>3. \A m \in 1 .. 16 : h[m] = Round(Schedule(key)[m], h[m - 1])
  <2>1. \A m \in 1 .. 16 : keys[m] = Schedule(key)[m]
    BY <1>1 DEF Traced, SubkeysFit
  <2>2. \A m \in 1 .. 16 : h[m] = Round(keys[m], h[m - 1])
    BY ONLY <1>1, <1>2 DEF Trace
  <2> QED  BY ONLY <2>1, <2>2
<1>4. Encryptions(key, data, h) /\ h[16] = Ln \o Rn
  BY ONLY <1>1, <1>2, <1>3 DEF Trace, Encryptions
<1>5. data \in Bits(64) /\ Ln \in Bits(32) /\ Rn \in Bits(32)
  BY DEF DESTypeOK, Block
<1>6. Decrypted(key, Output(Ln, Rn)) = data
  BY ONLY <1>4, <1>5, RoundsDecrypted
<1> QED  BY <1>1, <1>6 DEF Traced, SubkeysFit, RoundsTraced, Decrypts

LEMMA NextTraces ==
  TypeOK /\ Traced /\ [Next]_vars /\ HalvesRotate' => Traced'
<1> SUFFICES ASSUME TypeOK, Traced, [Next]_vars, HalvesRotate' PROVE Traced'
  OBVIOUS
<1>1. CASE BeginToken  BY <1>1, EncryptTraces DEF BeginToken
<1>2. CASE SecondToken  BY <1>2, EncryptTraces DEF SecondToken
<1>3. CASE FirstData  BY <1>3, EncryptTraces DEF FirstData
<1>4. CASE Chain
  <2>1. PICK k \in 1 .. 4 : Encrypt(token, NextData(Links[k + 1]))
    BY <1>4 DEF Chain
  <2> QED  BY <2>1, EncryptTraces
<1>5. CASE Encryption
  BY <1>5, DeriveKeyTraces, PermuteTraces, CipherTraces, CompressTraces
     DEF Encryption, DESStep, TypeOK
<1>6. CASE TokenDone \/ AddByte \/ Return \/ UNCHANGED vars
  <2>1. UNCHANGED desVars
    BY <1>6 DEF TokenDone, AddByte, Return, vars
  <2> QED
    BY <2>1 DEF desVars, Traced, SubkeysFit, RoundsTraced, Trace, Decrypts
<1> QED  BY <1>1, <1>2, <1>3, <1>4, <1>5, <1>6 DEF Next

\* The standard's decryption leads from every result back to the data.
THEOREM AlwaysDecrypts == Spec => []Decrypts
<1>1. Init => Traced
  BY DEF Init, Idle, Traced, SubkeysFit, RoundsTraced, Decrypts
<1>2. Traced => Decrypts
  BY DEF Traced
<1> QED  BY <1>1, <1>2, TypeCorrect, KeyHalvesRotate, NextTraces, PTL DEF Spec

-----------------------------------------------------------------------------
(* The sum of sequence number and seed *)

\* While it adds: with a carry, all bytes behind i have wrapped; without one,
\* they are those of the successor of the seed.
Summed ==
  /\ step \in {"begin", "half", "token"} => i = 8
  /\ i = 8 => carryBit = 0
  /\ step \notin {"begin", "half", "token", "add"} => i = 0
  /\ carryBit = 1 =>
       \A j \in i + 1 .. 8 : serverSeed[j] = 255 /\ RDrSEQ[j] = 0
  /\ carryBit = 0 /\ i < 8 =>
       \E k \in i + 1 .. 8 :
         /\ serverSeed[k] < 255 /\ RDrSEQ[k] = serverSeed[k] + 1
         /\ \A j \in i + 1 .. k - 1 : RDrSEQ[j] = serverSeed[j]
         /\ \A j \in k + 1 .. 8 : serverSeed[j] = 255 /\ RDrSEQ[j] = 0

LEMMA AddByteSums == TypeOK /\ Summed /\ AddByte => Summed'
<1> SUFFICES ASSUME TypeOK, Summed, AddByte PROVE Summed'
  OBVIOUS
<1>1. /\ step = "add" /\ step' = step /\ i \in 1 .. 8 /\ i' = i - 1
      /\ serverSeed' = serverSeed /\ carryBit \in 0 .. 1
      /\ serverSeed[i] \in 0 .. 255
  BY SMTT(30) DEF AddByte, TypeOK, inputs, Buffer, Byte
<1>2. PICK temp \in Nat :
        /\ temp = (IF i = 8 THEN 1 ELSE 0) + serverSeed[i] + carryBit
        /\ carryBit' = temp \div 256
        /\ RDrSEQ' = [RDrSEQ EXCEPT ![i] = temp % 256]
  <2>1. Sequence[i] = IF i = 8 THEN 1 ELSE 0
    BY <1>1 DEF Sequence
  <2>2. (IF i = 8 THEN 1 ELSE 0) + serverSeed[i] + carryBit \in Nat
    BY <1>1
  <2> QED  BY <2>1, <2>2 DEF AddByte, Carry, StoreByte
<1>3. /\ RDrSEQ'[i] = temp % 256
      /\ \A j \in 1 .. 8 : j # i => RDrSEQ'[j] = RDrSEQ[j]
  BY <1>1, <1>2 DEF TypeOK, Buffer
\* What is added to this byte: 1 if all behind it have wrapped, or 0.
<1>4. CASE i = 8 \/ carryBit = 1
  <2>1. temp = serverSeed[i] + 1
    BY <1>1, <1>2, <1>4 DEF Summed
  <2>2. \A j \in i + 1 .. 8 : serverSeed[j] = 255 /\ RDrSEQ'[j] = 0
    BY <1>1, <1>3, <1>4 DEF Summed
  <2>3. CASE serverSeed[i] = 255
    <3>1. carryBit' = 1 /\ RDrSEQ'[i] = 0
      BY <1>2, <1>3, <2>1, <2>3
    <3> QED  BY <1>1, <2>2, <2>3, <3>1 DEF Summed
  <2>4. CASE serverSeed[i] < 255
    <3>1. carryBit' = 0 /\ RDrSEQ'[i] = serverSeed[i] + 1
      BY <1>1, <1>2, <1>3, <2>1, <2>4
    <3> QED  BY <1>1, <2>2, <2>4, <3>1 DEF Summed
  <2> QED  BY <1>1, <2>3, <2>4
<1>5. CASE i < 8 /\ carryBit = 0
  <2>1. temp = serverSeed[i]
    BY <1>1, <1>2, <1>5
  <2>2. carryBit' = 0 /\ RDrSEQ'[i] = serverSeed[i]
    BY SMTT(30), <1>1, <1>2, <1>3, <2>1
  <2>3. PICK k \in i + 1 .. 8 :
          /\ serverSeed[k] < 255 /\ RDrSEQ[k] = serverSeed[k] + 1
          /\ \A j \in i + 1 .. k - 1 : RDrSEQ[j] = serverSeed[j]
          /\ \A j \in k + 1 .. 8 : serverSeed[j] = 255 /\ RDrSEQ[j] = 0
    BY <1>1, <1>5 DEF Summed
  <2>4. /\ k \in i' + 1 .. 8
        /\ serverSeed[k] < 255 /\ RDrSEQ'[k] = serverSeed[k] + 1
        /\ \A j \in i' + 1 .. k - 1 : RDrSEQ'[j] = serverSeed[j]
        /\ \A j \in k + 1 .. 8 : serverSeed[j] = 255 /\ RDrSEQ'[j] = 0
    BY <1>1, <1>3, <2>2, <2>3
  <2> QED  BY <1>1, <2>2, <2>4 DEF Summed
<1> QED  BY <1>1, <1>4, <1>5

LEMMA NextSums == TypeOK /\ Summed /\ [Next]_vars => Summed'
<1> SUFFICES ASSUME TypeOK, Summed, [Next]_vars PROVE Summed'
  OBVIOUS
<1>1. CASE AddByte
  BY <1>1, AddByteSums
<1>2. CASE ~AddByte
  <2>1. UNCHANGED <<i, carryBit, RDrSEQ, serverSeed>>
    BY <1>2 DEF Next, BeginToken, SecondToken, TokenDone, FirstData, Chain,
                Return, Encryption, inputs, adding, vars
  <2>2. /\ step' \in {"begin", "half", "token"} =>
             step \in {"begin", "half", "token"}
        /\ step' \notin {"begin", "half", "token", "add"} =>
             i = 0 \/ step \notin {"begin", "half", "token", "add"}
    BY <1>2 DEF Next, BeginToken, SecondToken, TokenDone, FirstData, Chain,
                Links, Return, Encryption, vars
  <2> QED  BY <2>1, <2>2 DEF Summed
<1> QED  BY <1>1, <1>2

\* What is encrypted first is the number after the server's seed.
THEOREM SeedAlwaysCounted == Spec => []SeedIsCounted
<1>1. Init => Summed
  BY DEF Init, Summed
<1>2. TypeOK /\ Summed => SeedIsCounted
  <2> SUFFICES ASSUME TypeOK, Summed,
                      step \in {"first", "second", "third", "fourth", "fifth",
                                "done"}
               PROVE  Successor(serverSeed, RDrSEQ)
    BY DEF SeedIsCounted
  <2>1. i = 0 /\ carryBit \in {0, 1}
    BY DEF Summed, TypeOK
  <2>2. CASE carryBit = 1
    BY <2>1, <2>2 DEF Summed, Successor
  <2>3. CASE carryBit = 0
    BY <2>1, <2>3 DEF Summed, Successor
  <2> QED  BY <2>1, <2>2, <2>3
<1> QED  BY <1>1, <1>2, TypeCorrect, NextSums, PTL DEF Spec

-----------------------------------------------------------------------------
(* What is told of names and passwords *)

\* EBCDICStringLength() of a name is the number of its characters.
LEMMA NameLength ==
  ASSUME NEW b \in Name
  PROVE  /\ EBCDICStringLength(b) \in 1 .. 10
         /\ Padded(b, EBCDICStringLength(b))
<1> DEFINE Ends(k) == /\ \A j \in 1 .. k : b[j] \notin {Blank, 0}
                      /\ k < 10 => b[k + 1] \in {Blank, 0}
<1>1. PICK len \in 1 .. 10 : Padded(b, len)
  BY DEF Name
<1>2. \A j \in 1 .. len : b[j] \in Alphabet /\ b[j] \notin {Blank, 0}
  BY <1>1, AlphabetAssumption DEF Padded
<1>3. len < 10 => b[len + 1] = Blank
  BY <1>1 DEF Padded
<1>4. Ends(len)
  BY <1>2, <1>3
<1>5. \A k \in 0 .. 10 : Ends(k) => k = len
  <2> SUFFICES ASSUME NEW k \in 0 .. 10, Ends(k), k # len PROVE FALSE
    OBVIOUS
  <2>1. CASE k < len
    <3>1. b[k + 1] \in {Blank, 0} /\ k + 1 \in 1 .. len
      BY <2>1
    <3> QED  BY <1>2, <3>1
  <2>2. CASE k > len
    <3>1. len + 1 \in 1 .. k /\ len < 10
      BY <2>2
    <3> QED  BY <1>3, <3>1
  <2> QED  BY <2>1, <2>2
<1>6. EBCDICStringLength(b) = CHOOSE k \in 0 .. 10 : Ends(k)
  BY DEF EBCDICStringLength
<1> HIDE DEF Ends
<1>7. EBCDICStringLength(b) = len
  BY <1>4, <1>5, <1>6
<1> QED  BY <1>1, <1>7

\* A byte is told by its bits, and its low seven bits by the last seven.
LEMMA ByteByBits ==
  ASSUME NEW a \in Byte, NEW b \in Byte
  PROVE  /\ (\A t \in 2 .. 8 : BitOf(a, t) = BitOf(b, t)) => a % 128 = b % 128
         /\ (\A t \in 1 .. 8 : BitOf(a, t) = BitOf(b, t)) => a = b
<1>1. /\ Masks[1] = 128 /\ Masks[2] = 64 /\ Masks[3] = 32 /\ Masks[4] = 16
      /\ Masks[5] = 8 /\ Masks[6] = 4 /\ Masks[7] = 2 /\ Masks[8] = 1
  BY DEF Masks
<1> DEFINE Digit(v, m) == (v \div m) % 2
<1>2. ASSUME NEW v \in Byte
      PROVE  /\ BitOf(v, 1) = Digit(v, 128) /\ BitOf(v, 2) = Digit(v, 64)
             /\ BitOf(v, 3) = Digit(v, 32) /\ BitOf(v, 4) = Digit(v, 16)
             /\ BitOf(v, 5) = Digit(v, 8) /\ BitOf(v, 6) = Digit(v, 4)
             /\ BitOf(v, 7) = Digit(v, 2) /\ BitOf(v, 8) = Digit(v, 1)
  <2>1. \A m \in {1, 2, 4, 8, 16, 32, 64, 128} : Digit(v, m) \in 0 .. 1
    BY DEF Byte
  <2> HIDE DEF Digit
  <2>2. \A t \in 1 .. 8 : BitOf(v, t) = IF Digit(v, Masks[t]) # 0 THEN 1 ELSE 0
    BY DEF BitOf, Digit
  <2> QED  BY <1>1, <2>1, <2>2
<1>3. ASSUME NEW v \in Byte
      PROVE  /\ v % 128 = 64 * Digit(v, 64) + 32 * Digit(v, 32)
                          + 16 * Digit(v, 16) + 8 * Digit(v, 8)
                          + 4 * Digit(v, 4) + 2 * Digit(v, 2) + Digit(v, 1)
             /\ v = 128 * Digit(v, 128) + (v % 128)
  BY SMTT(60) DEF Byte
<1> HIDE DEF Digit
<1>4. (\A t \in 2 .. 8 : BitOf(a, t) = BitOf(b, t)) => a % 128 = b % 128
  BY <1>2, <1>3
<1>5. (\A t \in 1 .. 8 : BitOf(a, t) = BitOf(b, t)) => Digit(a, 128) = Digit(b, 128)
  BY <1>2
<1> QED  BY <1>3, <1>4, <1>5

\* Two blocks of characters that make the same key are the same.
LEMMA KeyTellsCharacters ==
  ASSUME NEW a, NEW b,
         \A m \in 1 .. 8 : a[m] \in Alphabet \cup {Blank}
                           /\ b[m] \in Alphabet \cup {Blank},
         Select(Xor55AndLshift(a), PC1) = Select(Xor55AndLshift(b), PC1)
  PROVE  \A m \in 1 .. 8 : a[m] = b[m]
<1>1. \A c : /\ XorWith55(c) \in Bits(64) /\ Xor55AndLshift(c) \in Bits(64)
             /\ BitsOf(c, 8) \in Bits(64)
             /\ \A p \in 1 .. 63 : Xor55AndLshift(c)[p] = XorWith55(c)[p + 1]
             /\ \A p \in 1 .. 64 :
                  XorWith55(c)[p] = Xor(BitsOf(c, 8)[p], Xor55[p])
  <2> TAKE c
  <2>1. /\ XorWith55(c) \in Bits(64)
        /\ \A p \in 1 .. 64 :
                  XorWith55(c)[p] = Xor(BitsOf(c, 8)[p], Xor55[p])
    BY XorType DEF XorWith55, XorBlocks
  <2>2. /\ Xor55AndLshift(c) \in Bits(64)
        /\ \A p \in 1 .. 63 : Xor55AndLshift(c)[p] = XorWith55(c)[p + 1]
    BY <2>1 DEF Xor55AndLshift, Bits, Bit
  <2> QED  BY <2>1, <2>2, BitsOfType DEF Block
<1>2. \A p \in 1 .. 63 : p % 8 # 0 => XorWith55(a)[p + 1] = XorWith55(b)[p + 1]
  <2> SUFFICES ASSUME NEW p \in 1 .. 63, p % 8 # 0
               PROVE  Xor55AndLshift(a)[p] = Xor55AndLshift(b)[p]
    BY <1>1
  <2>0. p \in 1 .. 64
    OBVIOUS
  <2>1. PICK q \in 1 .. 56 : PC1[q] = p
    BY <2>0, KeyBits
  <2>2. /\ Select(Xor55AndLshift(a), PC1)[q] = Xor55AndLshift(a)[PC1[q]]
        /\ Select(Xor55AndLshift(b), PC1)[q] = Xor55AndLshift(b)[PC1[q]]
    BY <1>1, SelectPC1
  <2> QED  BY <2>1, <2>2
<1>3. ASSUME NEW x \in Bit, NEW y \in Bit, NEW z \in Bit, Xor(x, z) = Xor(y, z)
      PROVE  x = y
  BY <1>3 DEF Xor, Bit
<1>4. \A p \in 1 .. 64 : Xor55[p] \in Bit
  BY DEF Xor55, Bit
<1>5. \A p \in 2 .. 64 : (p - 1) % 8 # 0 => BitsOf(a, 8)[p] = BitsOf(b, 8)[p]
  <2> SUFFICES ASSUME NEW p \in 2 .. 64, (p - 1) % 8 # 0
               PROVE  BitsOf(a, 8)[p] = BitsOf(b, 8)[p]
    OBVIOUS
  <2>1. XorWith55(a)[p] = XorWith55(b)[p]
    <3>1. p - 1 \in 1 .. 63 /\ (p - 1) + 1 = p
      OBVIOUS
    <3> QED  BY <1>2, <3>1
  <2>2. BitsOf(a, 8)[p] \in Bit /\ BitsOf(b, 8)[p] \in Bit
    BY <1>1 DEF Bits
  <2>3. Xor(BitsOf(a, 8)[p], Xor55[p]) = Xor(BitsOf(b, 8)[p], Xor55[p])
    BY <1>1, <2>1
  <2>4. Xor55[p] \in Bit
    BY <1>4
  <2> QED  BY <1>3, <2>2, <2>3, <2>4
<1> SUFFICES ASSUME NEW m \in 1 .. 8 PROVE a[m] = b[m]
  OBVIOUS
<1>6. \A t \in 2 .. 8 : BitOf(a[m], t) = BitOf(b[m], t)
  <2> SUFFICES ASSUME NEW t \in 2 .. 8
               PROVE  BitOf(a[m], t) = BitOf(b[m], t)
    OBVIOUS
  <2>1. PICK p \in 2 .. 64 : p = 8 * (m - 1) + t
    OBVIOUS
  <2>2. (p - 1) % 8 = t - 1 /\ (p - 1) \div 8 = m - 1
    BY <2>1
  <2>3. BitsOf(a, 8)[p] = BitOf(a[m], t) /\ BitsOf(b, 8)[p] = BitOf(b[m], t)
    BY <2>2 DEF BitsOf
  <2> QED  BY <1>5, <2>2, <2>3
<1>7. a[m] \in Byte /\ b[m] \in Byte
  <2>1. Alphabet \subseteq Byte /\ Blank \in Byte
    BY AlphabetAssumption DEF Blank, Byte
  <2>2. a[m] \in Alphabet \cup {Blank} /\ b[m] \in Alphabet \cup {Blank}
    OBVIOUS
  <2> QED  BY <2>1, <2>2
<1>8. a[m] % 128 = b[m] % 128
  BY <1>6, <1>7, ByteByBits
<1> QED  BY <1>8, AlphabetAssumption

\* The halves of a password hold its characters.
LEMMA PasswordHalves ==
  ASSUME NEW p \in Name
  PROVE  /\ \A m \in 1 .. 10 : p[m] \in Alphabet \cup {Blank}
         /\ \A m \in 1 .. 8 : FirstHalf(p)[m] = p[m]
         /\ Long(p) => /\ SecondHalf(p)[1] = p[9] /\ SecondHalf(p)[2] = p[10]
                       /\ \A m \in 3 .. 8 : SecondHalf(p)[m] = Blank
         /\ ~Long(p) => p[9] = Blank /\ p[10] = Blank
<1>1. PICK len \in 1 .. 10 : len = EBCDICStringLength(p)
  BY NameLength
<1>2. /\ \A m \in 1 .. len : p[m] \in Alphabet
      /\ \A m \in len + 1 .. 10 : p[m] = Blank
  BY <1>1, NameLength DEF Padded
<1>3. \A m \in 1 .. 8 : FirstHalf(p)[m] = p[m]
  BY <1>1, <1>2 DEF FirstHalf
<1>4. \A m \in 1 .. 8 :
        SecondHalf(p)[m] = IF m + 8 <= len THEN p[m + 8] ELSE Blank
  BY <1>1 DEF SecondHalf
<1>5. len > 8 => /\ SecondHalf(p)[1] = p[9] /\ SecondHalf(p)[2] = p[10]
                 /\ \A m \in 3 .. 8 : SecondHalf(p)[m] = Blank
  BY <1>2, <1>4
<1>6. len <= 8 => p[9] = Blank /\ p[10] = Blank
  BY <1>2
<1> QED  BY <1>1, <1>2, <1>3, <1>5, <1>6 DEF Long

LEMMA KeysTell ==
  ASSUME NEW p \in Name, NEW q \in Name, Long(p) = Long(q),
         \A k \in 1 .. Len(KeysOf(p)) :
           Select(KeysOf(p)[k], PC1) = Select(KeysOf(q)[k], PC1)
  PROVE  p = q
<1> DEFINE Key(b) == Select(Xor55AndLshift(b), PC1)
<1>1. Key(FirstHalf(p)) = Key(FirstHalf(q))
  <2>1. 1 \in 1 .. Len(KeysOf(p))
    BY DEF KeysOf
  <2>2. Select(KeysOf(p)[1], PC1) = Select(KeysOf(q)[1], PC1)
    BY <2>1
  <2> QED  BY <2>2 DEF KeysOf
<1>2. Long(p) => Key(SecondHalf(p)) = Key(SecondHalf(q))
  <2> SUFFICES ASSUME Long(p) PROVE Key(SecondHalf(p)) = Key(SecondHalf(q))
    OBVIOUS
  <2>1. 2 \in 1 .. Len(KeysOf(p))
    BY DEF KeysOf
  <2>2. Select(KeysOf(p)[2], PC1) = Select(KeysOf(q)[2], PC1)
    BY <2>1
  <2> QED  BY <2>2 DEF KeysOf
<1>3. \A m \in 1 .. 8 : /\ FirstHalf(p)[m] \in Alphabet \cup {Blank}
                        /\ FirstHalf(q)[m] \in Alphabet \cup {Blank}
  BY PasswordHalves
<1>4. \A m \in 1 .. 8 : p[m] = q[m]
  <2>1. \A m \in 1 .. 8 : FirstHalf(p)[m] = FirstHalf(q)[m]
    BY <1>1, <1>3, KeyTellsCharacters
  <2> QED  BY <2>1, PasswordHalves
<1>5. p[9] = q[9] /\ p[10] = q[10]
  <2>1. CASE Long(p)
    <3>1. \A m \in 1 .. 8 : /\ SecondHalf(p)[m] \in Alphabet \cup {Blank}
                            /\ SecondHalf(q)[m] \in Alphabet \cup {Blank}
      <4> SUFFICES ASSUME NEW m \in 1 .. 8
                   PROVE  /\ SecondHalf(p)[m] \in Alphabet \cup {Blank}
                          /\ SecondHalf(q)[m] \in Alphabet \cup {Blank}
        OBVIOUS
      <4>1. Long(q) /\ (m = 1 \/ m = 2 \/ m \in 3 .. 8)
        BY <2>1
      <4> QED  BY <2>1, <4>1, PasswordHalves
    <3>2. \A m \in 1 .. 8 : SecondHalf(p)[m] = SecondHalf(q)[m]
      BY <1>2, <2>1, <3>1, KeyTellsCharacters
    <3>3. SecondHalf(p)[1] = p[9] /\ SecondHalf(p)[2] = p[10]
      BY <2>1, PasswordHalves
    <3>4. SecondHalf(q)[1] = q[9] /\ SecondHalf(q)[2] = q[10]
      BY <2>1, PasswordHalves
    <3>5. 1 \in 1 .. 8 /\ 2 \in 1 .. 8
      OBVIOUS
    <3> QED  BY ONLY <3>2, <3>3, <3>4, <3>5
  <2>2. CASE ~Long(p)
    BY <2>2, PasswordHalves
  <2> QED  BY <2>1, <2>2
<1> QED  BY <1>4, <1>5 DEF Name, Buffer

\* No two passwords have the same keys.
THEOREM KeysAlwaysTell == Spec => []KeysTellPasswords
<1>1. TypeOK => KeysTellPasswords
  BY KeysTell, InputsAssumption DEF TypeOK, KeysTellPasswords
<1> QED  BY <1>1, TypeCorrect, PTL

\* Bit t of characters 9 and 10 goes to this one: two to each character.
Place(t) == 8 * ((t - 1) \div 2) + ((t - 1) % 2) + 1

LEMMA FoldedBits ==
  ASSUME NEW b \in Name, NEW t \in 1 .. 16
  PROVE  /\ Place(t) \in 1 .. 64
         /\ Folded(b)[Place(t)] =
              IF Long(b) THEN Xor(BitsOf(b, 10)[Place(t)], BitsOf(b, 10)[64 + t])
              ELSE BitsOf(b, 10)[Place(t)]
<1>1. PICK p \in 1 .. 64 : p = Place(t)
  BY DEF Place
<1>2. /\ (p - 1) % 8 < 2
      /\ 64 + 2 * ((p - 1) \div 8) + ((p - 1) % 8) + 1 = 64 + t
  BY <1>1 DEF Place
<1>3. Folds(b, p) <=> Long(b)
  BY <1>2 DEF Folds, Long
<1>4. Folded(b)[p] =
        IF Folds(b, p)
        THEN Xor(BitsOf(b, 10)[p],
                 BitsOf(b, 10)[64 + 2 * ((p - 1) \div 8) + ((p - 1) % 8) + 1])
        ELSE BitsOf(b, 10)[p]
  BY DEF Folded
<1> QED  BY <1>1, <1>2, <1>3, <1>4

\* The bits of characters 9 and 10.
LEMMA LastBits ==
  ASSUME NEW b, NEW t \in 1 .. 8
  PROVE  /\ BitsOf(b, 10)[64 + t] = BitOf(b[9], t)
         /\ BitsOf(b, 10)[72 + t] = BitOf(b[10], t)
<1>1. /\ (64 + t - 1) \div 8 = 8 /\ (64 + t - 1) % 8 = t - 1
      /\ (72 + t - 1) \div 8 = 9 /\ (72 + t - 1) % 8 = t - 1
  OBVIOUS
<1> QED  BY <1>1 DEF BitsOf

\* A name of up to eight characters is not folded to the block of a longer one.
LEMMA ShortAndLong ==
  ASSUME NEW p \in Name, NEW q \in Name, Long(p), ~Long(q),
         \A x \in 1 .. 64 : BitsOf(p, 10)[x] = BitsOf(q, 10)[x]
  PROVE  Folded(p) # Folded(q)
<1> SUFFICES ASSUME Folded(p) = Folded(q) PROVE FALSE
  OBVIOUS
<1>1. ASSUME NEW t \in 1 .. 8
      PROVE  BitOf(p[9], t) = 0
  <2> DEFINE x == BitsOf(p, 10)[Place(t)]
             y == BitsOf(p, 10)[64 + t]
  <2>1. t \in 1 .. 16 /\ Place(t) \in 1 .. 64
    BY FoldedBits
  <2>2. Xor(x, y) = x
    BY <2>1, FoldedBits
  <2>3. x \in Bit /\ y \in Bit
    BY <2>1, BitsOfType DEF Bits
  <2>4. y = 0
    BY <2>2, <2>3 DEF Xor, Bit
  <2> QED  BY <2>4, LastBits
<1>2. p[9] \in Alphabet
  BY NameLength DEF Padded, Long
<1>3. p[9] \in Byte /\ p[9] # 0 /\ 0 \in Byte
  <2>1. Alphabet \subseteq Byte \ {0, Blank}
    BY AlphabetAssumption
  <2>2. 0 \in Byte
    BY DEF Byte
  <2> QED  BY ONLY <1>2, <2>1, <2>2
<1>4. \A t \in 1 .. 8 : BitOf(0, t) = 0
  BY DEF BitOf, Masks
<1> QED  BY <1>1, <1>3, <1>4, ByteByBits

LEMMA FoldTells ==
  ASSUME NEW p \in Name, NEW q \in Name,
         \A j \in 1 .. 8 : p[j] = q[j],
         Folded(p) = Folded(q)
  PROVE  p = q
<1>1. \A x \in 1 .. 64 : BitsOf(p, 10)[x] = BitsOf(q, 10)[x]
  <2> SUFFICES ASSUME NEW x \in 1 .. 64
               PROVE  BitsOf(p, 10)[x] = BitsOf(q, 10)[x]
    OBVIOUS
  <2>1. ((x - 1) \div 8) + 1 \in 1 .. 8
    OBVIOUS
  <2>2. p[((x - 1) \div 8) + 1] = q[((x - 1) \div 8) + 1]
    BY <2>1
  <2> QED  BY <2>2 DEF BitsOf
<1>2. Long(p) <=> Long(q)
  BY <1>1, ShortAndLong
<1>3. p[9] = q[9] /\ p[10] = q[10]
  <2>1. CASE Long(p)
    <3>1. ASSUME NEW t \in 1 .. 16
          PROVE  BitsOf(p, 10)[64 + t] = BitsOf(q, 10)[64 + t]
      <4> DEFINE x == BitsOf(p, 10)[Place(t)]
                 y == BitsOf(p, 10)[64 + t]
                 z == BitsOf(q, 10)[64 + t]
      <4>1. Xor(x, y) = Xor(x, z)
        <5>1. Folded(p)[Place(t)] = Xor(x, y)
          BY <2>1, FoldedBits
        <5>2. Folded(q)[Place(t)] = Xor(BitsOf(q, 10)[Place(t)], z)
          BY <1>2, <2>1, FoldedBits
        <5>3. BitsOf(q, 10)[Place(t)] = x
          BY <1>1, FoldedBits
        <5> QED  BY ONLY <5>1, <5>2, <5>3, Folded(p) = Folded(q)
      <4>2. x \in Bit /\ y \in Bit /\ z \in Bit
        BY FoldedBits, BitsOfType DEF Bits
      <4> QED  BY <4>1, <4>2 DEF Xor, Bit
    <3>2. \A t \in 1 .. 8 : BitOf(p[9], t) = BitOf(q[9], t)
      BY <3>1, LastBits
    <3>3. \A t \in 1 .. 8 : BitOf(p[10], t) = BitOf(q[10], t)
      <4> SUFFICES ASSUME NEW t \in 1 .. 8
                   PROVE  BitOf(p[10], t) = BitOf(q[10], t)
        OBVIOUS
      <4>1. 8 + t \in 1 .. 16 /\ 64 + (8 + t) = 72 + t
        OBVIOUS
      <4> QED  BY <3>1, <4>1, LastBits
    <3>4. \A j \in 9 .. 10 : p[j] \in Byte /\ q[j] \in Byte
      BY DEF Name, Buffer
    <3> QED  BY <3>2, <3>3, <3>4, ByteByBits
  <2>2. CASE ~Long(p)
    BY <1>2, <2>2, PasswordHalves
  <2> QED  BY <2>1, <2>2
<1> QED  BY <1>3 DEF Name, Buffer

\* No two names with the same beginning are folded to the same block.
THEOREM FoldAlwaysTells == Spec => []FoldTellsUsers
<1>1. TypeOK => FoldTellsUsers
  BY FoldTells, InputsAssumption DEF TypeOK, FoldTellsUsers
<1> QED  BY <1>1, TypeCorrect, PTL

-----------------------------------------------------------------------------
(* The chain of the substitute *)

\* What the data of each link is combined with, and the first of them.
Count == BitsOf(RDrSEQ, 8)
Others(link) ==
  CASE link = "second" -> BitsOf(clientSeed, 8)
    [] link = "third" -> XorBlocks(BitsOf(user, 8), Count)
    [] link = "fourth" -> XorBlocks(BitsOf(RestOfUser, 8), Count)
    [] link = "fifth" -> BitsOf(Sequence, 8)

\* Back from the data of a link to what was encrypted first.
Undone(block) == Decrypted(token, block)
FromSecond(block) == Undone(XorBlocks(block, Others("second")))
FromThird(block) == FromSecond(Undone(XorBlocks(block, Others("third"))))
FromFourth(block) == FromThird(Undone(XorBlocks(block, Others("fourth"))))
FromFifth(block) == FromFourth(Undone(XorBlocks(block, Others("fifth"))))

\* At every link the key is the token, and the data leads back to the count.
Unwound ==
  /\ step \in {"first", "second", "third", "fourth", "fifth"} => key = token
  /\ step = "first" => data = Count
  /\ step = "second" => FromSecond(data) = Count
  /\ step = "third" => FromThird(data) = Count
  /\ step = "fourth" => FromFourth(data) = Count
  /\ step = "fifth" => FromFifth(data) = Count
  /\ step = "done" => FromFifth(Undone(substitute)) = Count

LEMMA XorSwap ==
  ASSUME NEW a, NEW b
  PROVE  XorBlocks(a, b) = XorBlocks(b, a)
BY DEF XorBlocks, XorBits, Xor

LEMMA XorBlocksTwice ==
  ASSUME NEW a \in Block, NEW b \in Block
  PROVE  XorBlocks(XorBlocks(a, b), b) = a
BY XorTwice DEF XorBlocks, Block

\* The code combines a link's data with the others of the link, in any order.
LEMMA NextDataIs ==
  ASSUME NEW k \in 1 .. 4
  PROVE  /\ NextData(Links[k + 1]) = XorBlocks(encData, Others(Links[k + 1]))
         /\ Others(Links[k + 1]) \in Block
<1>1. NextData("second") = XorBlocks(encData, Others("second"))
      /\ Others("second") \in Block
  BY BitsOfType DEF NextData, Others
<1>2. NextData("third") = XorBlocks(encData, Others("third"))
      /\ Others("third") \in Block
  BY BlocksType, XorSwap DEF NextData, Others, Count
<1>3. NextData("fourth") = XorBlocks(encData, Others("fourth"))
      /\ Others("fourth") \in Block
  BY BlocksType, XorSwap DEF NextData, Others, Count
<1>4. NextData("fifth") = XorBlocks(encData, Others("fifth"))
      /\ Others("fifth") \in Block
  BY BitsOfType, XorSwap DEF NextData, Others
<1>5. /\ k = 1 => Links[k + 1] = "second"
      /\ k = 2 => Links[k + 1] = "third"
      /\ k = 3 => Links[k + 1] = "fourth"
      /\ k = 4 => Links[k + 1] = "fifth"
  BY DEF Links
<1>6. k = 1 \/ k = 2 \/ k = 3 \/ k = 4
  OBVIOUS
<1> QED  BY ONLY <1>1, <1>2, <1>3, <1>4, <1>5, <1>6

\* What a link encrypts leads back to the data of the one before it.
LEMMA ChainUnwinds == TypeOK /\ Decrypts /\ Unwound /\ Chain => Unwound'
<1> SUFFICES ASSUME TypeOK, Decrypts, Unwound, Chain PROVE Unwound'
  OBVIOUS
<1>1. PICK k \in 1 .. 4 :
        /\ step = Links[k] /\ des = "done"
        /\ Encrypt(token, NextData(Links[k + 1]))
        /\ step' = Links[k + 1]
        /\ UNCHANGED <<inputs, adding, firstToken, token, substitute>>
  BY DEF Chain
<1>2. PICK d : d = NextData(Links[k + 1])
  OBVIOUS
<1>3. key' = token /\ data' = d /\ des' = "keys" /\ token' = token
  BY <1>1, <1>2 DEF Encrypt
<1>4. d \in Block
  BY <1>2, NextDataType
<1>5. XorBlocks(d, Others(Links[k + 1])) = encData
  <2>1. encData \in Block
    BY DEF TypeOK, DESTypeOK
  <2> QED  BY <1>2, <2>1, NextDataIs, XorBlocksTwice
<1>6. step \in {"first", "second", "third", "fourth"}
  BY <1>1 DEF Links
<1>7. Undone(encData) = data
  BY <1>1, <1>6 DEF Decrypts, Unwound, Undone
<1>8. /\ Count' = Count
      /\ \A link \in {"second", "third", "fourth", "fifth"} :
           Others(link)' = Others(link)
  BY <1>1 DEF inputs, adding, Count, Others, RestOfUser
<1>9. \A block : /\ Undone(block)' = Undone(block)
                 /\ FromSecond(block)' = FromSecond(block)
                 /\ FromThird(block)' = FromThird(block)
                 /\ FromFourth(block)' = FromFourth(block)
                 /\ FromFifth(block)' = FromFifth(block)
  BY <1>3, <1>8 DEF Undone, FromSecond, FromThird, FromFourth, FromFifth
<1>10. CASE k = 1
  <2>1. step = "first" /\ step' = "second"
    BY <1>1, <1>10 DEF Links
  <2>2. FromSecond(d) = Count
    BY <1>1, <1>5, <1>7, <2>1 DEF Unwound, FromSecond
  <2> QED  BY <1>3, <1>4, <1>8, <1>9, <2>1, <2>2 DEF Unwound
<1>11. CASE k = 2
  <2>1. step = "second" /\ step' = "third"
    BY <1>1, <1>11 DEF Links
  <2>2. FromThird(d) = Count
    BY <1>1, <1>5, <1>7, <2>1 DEF Unwound, FromThird
  <2> QED  BY <1>3, <1>4, <1>8, <1>9, <2>1, <2>2 DEF Unwound
<1>12. CASE k = 3
  <2>1. step = "third" /\ step' = "fourth"
    BY <1>1, <1>12 DEF Links
  <2>2. FromFourth(d) = Count
    BY <1>1, <1>5, <1>7, <2>1 DEF Unwound, FromFourth
  <2> QED  BY <1>3, <1>4, <1>8, <1>9, <2>1, <2>2 DEF Unwound
<1>13. CASE k = 4
  <2>1. step = "fourth" /\ step' = "fifth"
    BY <1>1, <1>13 DEF Links
  <2>2. FromFifth(d) = Count
    BY <1>1, <1>5, <1>7, <2>1 DEF Unwound, FromFifth
  <2> QED  BY <1>3, <1>4, <1>8, <1>9, <2>1, <2>2 DEF Unwound
<1> QED  BY <1>10, <1>11, <1>12, <1>13

\* The other actions change none of what a link leads back from.
LEMMA NextUnwinds == TypeOK /\ Decrypts /\ Unwound /\ [Next]_vars => Unwound'
<1> SUFFICES ASSUME TypeOK, Decrypts, Unwound, [Next]_vars PROVE Unwound'
  OBVIOUS
<1>1. CASE BeginToken \/ SecondToken \/ TokenDone \/ AddByte
  <2>1. step' \in {"half", "token", "add"}
    BY <1>1 DEF BeginToken, SecondToken, TokenDone, AddByte
  <2> QED  BY <2>1 DEF Unwound
<1>2. CASE FirstData
  BY <1>2 DEF FirstData, Encrypt, Unwound, adding, Count
<1>3. CASE Chain  BY <1>3, ChainUnwinds
<1>4. ASSUME UNCHANGED <<inputs, adding, token>>
      PROVE  /\ Count' = Count
             /\ \A block : /\ Undone(block)' = Undone(block)
                           /\ FromSecond(block)' = FromSecond(block)
                           /\ FromThird(block)' = FromThird(block)
                           /\ FromFourth(block)' = FromFourth(block)
                           /\ FromFifth(block)' = FromFifth(block)
  <2>1. /\ Count' = Count /\ token' = token
        /\ \A link \in {"second", "third", "fourth", "fifth"} :
             Others(link)' = Others(link)
    BY <1>4 DEF inputs, adding, Count, Others, RestOfUser
  <2> QED
    BY <2>1 DEF Undone, FromSecond, FromThird, FromFourth, FromFifth
<1>5. CASE Return
  <2>1. /\ step = "fifth" /\ des = "done" /\ step' = "done"
        /\ substitute' = encData
    BY <1>5 DEF Return
  <2>2. Undone(encData) = data /\ FromFifth(data) = Count
    BY <2>1 DEF Decrypts, Unwound, Undone
  <2>3. FromFifth(Undone(encData)) = Count
    BY <2>2
  <2>4. UNCHANGED <<inputs, adding, token>>
    BY <1>5 DEF Return
  <2> QED  BY <1>4, <2>1, <2>3, <2>4 DEF Unwound
<1>6. CASE Encryption \/ UNCHANGED vars
  <2>1. UNCHANGED <<inputs, step, adding, token, substitute, key, data>>
    BY <1>6 DEF Encryption, DESStep, DeriveKey, Permute, Cipher, Compress,
                vars, desVars
  <2> QED  BY <1>4, <2>1 DEF Unwound
<1> QED  BY <1>1, <1>2, <1>3, <1>5, <1>6 DEF Next

\* The substitute leads back through its five links to the count.
THEOREM SubstituteAlwaysUnwinds == Spec => []SubstituteUnwinds
<1>1. Init => Unwound
  BY DEF Init, Unwound
<1>2. Unwound => SubstituteUnwinds
  <2> SUFFICES ASSUME Unwound, step = "done" PROVE SubstituteUnwinds
    BY DEF SubstituteUnwinds
  <2>1. Others("fifth") = BitsOf([j \in 1 .. 8 |-> IF j < 8 THEN 0 ELSE 1], 8)
    <3>1. Sequence = [j \in 1 .. 8 |-> IF j < 8 THEN 0 ELSE 1]
      BY DEF Sequence
    <3> QED  BY <3>1 DEF Others
  <2>2. Others("fourth") =
          XorBlocks(BitsOf([j \in 1 .. 8 |-> IF j > 2 THEN Blank
                                              ELSE user[j + 8]], 8), Count)
    <3>1. RestOfUser = [j \in 1 .. 8 |-> IF j > 2 THEN Blank ELSE user[j + 8]]
      BY DEF RestOfUser
    <3> QED  BY <3>1 DEF Others
  <2>3. Others("third") =
          XorBlocks(BitsOf([j \in 1 .. 8 |-> user[j]], 8), Count)
    <3>1. BitsOf([j \in 1 .. 8 |-> user[j]], 8) = BitsOf(user, 8)
      <4>1. \A j \in 1 .. 8 * 8 : ((j - 1) \div 8) + 1 \in 1 .. 8
        OBVIOUS
      <4> QED  BY <4>1 DEF BitsOf
    <3> QED  BY <3>1 DEF Others
  <2>4. Others("second") = BitsOf(clientSeed, 8)
    BY DEF Others
  <2>5. FromFifth(Undone(substitute)) = Count
    BY DEF Unwound
  <2> QED
    BY <2>1, <2>2, <2>3, <2>4, <2>5
       DEF SubstituteUnwinds, FromFifth, FromFourth, FromThird, FromSecond,
           Undone, Count
<1> QED  BY <1>1, <1>2, TypeCorrect, AlwaysDecrypts, NextUnwinds, PTL DEF Spec

=============================================================================
