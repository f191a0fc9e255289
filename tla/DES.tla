-------------------------------- MODULE DES --------------------------------
(***************************************************************************)
(* DES.encrypt(key, data), one block.  A call runs in two loops that the   *)
(* code unrolls: sixteen subkeys are derived from the key, each of them    *)
(* after a rotation of the two halves of Cn, and then cipher() runs        *)
(* sixteen times.  A step of the module is one round of either.            *)
(*                                                                         *)
(* The code expands bytes to one byte a bit, '0' or '1', and counts bits   *)
(* from 1.  A block is here the function from these indices to 0 or 1.     *)
(*                                                                         *)
(* Callers start a call with Encrypt(k, d), when the last one is over, and *)
(* find its result in encData when des is "done".                          *)
(*                                                                         *)
(* A faulty form that nothing uses stands before some operators (see the   *)
(* "mutants" of PROJECT.json).                                             *)
(***************************************************************************)
EXTENDS Integers, Sequences

VARIABLES
  des,      \* "idle", "keys", "rounds" or "done"
  key,      \* the arguments of the call
  data,
  Cn,       \* both halves of the key, rotated so far
  keys,     \* the subkeys derived so far, key1 to key16
  n,        \* rounds of cipher() so far
  Ln,       \* the halves of the block
  Rn,
  encData   \* the result of the last call that is over

desVars == <<des, key, data, Cn, keys, n, Ln, Rn, encData>>

Bit == {0, 1}
Bits(k) == [1 .. k -> Bit]
Block == Bits(64)
Zeros(k) == [i \in 1 .. k |-> 0]

Xor(a, b) == IF a = b THEN 0 ELSE 1
XorBits(k, a, b) == [i \in 1 .. k |-> Xor(a[i], b[i])]

-----------------------------------------------------------------------------
(* Tables *)

PC1 ==
  <<57, 49, 41, 33, 25, 17,  9,  1, 58, 50, 42, 34, 26, 18,
    10,  2, 59, 51, 43, 35, 27, 19, 11,  3, 60, 52, 44, 36,
    63, 55, 47, 39, 31, 23, 15,  7, 62, 54, 46, 38, 30, 22,
    14,  6, 61, 53, 45, 37, 29, 21, 13,  5, 28, 20, 12,  4>>

PC2 ==
  <<14, 17, 11, 24,  1,  5,  3, 28, 15,  6, 21, 10,
    23, 19, 12,  4, 26,  8, 16,  7, 27, 20, 13,  2,
    41, 52, 31, 37, 47, 55, 30, 40, 51, 45, 33, 48,
    44, 49, 39, 56, 34, 53, 46, 42, 50, 36, 29, 32>>

INITPERM ==
  <<58, 50, 42, 34, 26, 18, 10,  2, 60, 52, 44, 36, 28, 20, 12,  4,
    62, 54, 46, 38, 30, 22, 14,  6, 64, 56, 48, 40, 32, 24, 16,  8,
    57, 49, 41, 33, 25, 17,  9,  1, 59, 51, 43, 35, 27, 19, 11,  3,
    61, 53, 45, 37, 29, 21, 13,  5, 63, 55, 47, 39, 31, 23, 15,  7>>

EPERM ==
  <<32,  1,  2,  3,  4,  5,  4,  5,  6,  7,  8,  9,
     8,  9, 10, 11, 12, 13, 12, 13, 14, 15, 16, 17,
    16, 17, 18, 19, 20, 21, 20, 21, 22, 23, 24, 25,
    24, 25, 26, 27, 28, 29, 28, 29, 30, 31, 32,  1>>

OUTPERM ==
  <<40,  8, 48, 16, 56, 24, 64, 32, 39,  7, 47, 15, 55, 23, 63, 31,
    38,  6, 46, 14, 54, 22, 62, 30, 37,  5, 45, 13, 53, 21, 61, 29,
    36,  4, 44, 12, 52, 20, 60, 28, 35,  3, 43, 11, 51, 19, 59, 27,
    34,  2, 42, 10, 50, 18, 58, 26, 33,  1, 41,  9, 49, 17, 57, 25>>

PPERM ==
  <<16,  7, 20, 21, 29, 12, 28, 17,  1, 15, 23, 26,  5, 18, 31, 10,
     2,  8, 24, 14, 32, 27,  3,  9, 19, 13, 30,  6, 22, 11,  4, 25>>

\* S[b] is the table of the b-th S box.
S ==
  <<<<14,  4, 13,  1,  2, 15, 11,  8,  3, 10,  6, 12,  5,  9,  0,  7,
      0, 15,  7,  4, 14,  2, 13,  1, 10,  6, 12, 11,  9,  5,  3,  8,
      4,  1, 14,  8, 13,  6,  2, 11, 15, 12,  9,  7,  3, 10,  5,  0,
     15, 12,  8,  2,  4,  9,  1,  7,  5, 11,  3, 14, 10,  0,  6, 13>>,
    <<15,  1,  8, 14,  6, 11,  3,  4,  9,  7,  2, 13, 12,  0,  5, 10,
      3, 13,  4,  7, 15,  2,  8, 14, 12,  0,  1, 10,  6,  9, 11,  5,
      0, 14,  7, 11, 10,  4, 13,  1,  5,  8, 12,  6,  9,  3,  2, 15,
     13,  8, 10,  1,  3, 15,  4,  2, 11,  6,  7, 12,  0,  5, 14,  9>>,
    <<10,  0,  9, 14,  6,  3, 15,  5,  1, 13, 12,  7, 11,  4,  2,  8,
     13,  7,  0,  9,  3,  4,  6, 10,  2,  8,  5, 14, 12, 11, 15,  1,
     13,  6,  4,  9,  8, 15,  3,  0, 11,  1,  2, 12,  5, 10, 14,  7,
      1, 10, 13,  0,  6,  9,  8,  7,  4, 15, 14,  3, 11,  5,  2, 12>>,
    << 7, 13, 14,  3,  0,  6,  9, 10,  1,  2,  8,  5, 11, 12,  4, 15,
     13,  8, 11,  5,  6, 15,  0,  3,  4,  7,  2, 12,  1, 10, 14,  9,
     10,  6,  9,  0, 12, 11,  7, 13, 15,  1,  3, 14,  5,  2,  8,  4,
      3, 15,  0,  6, 10,  1, 13,  8,  9,  4,  5, 11, 12,  7,  2, 14>>,
    << 2, 12,  4,  1,  7, 10, 11,  6,  8,  5,  3, 15, 13,  0, 14,  9,
     14, 11,  2, 12,  4,  7, 13,  1,  5,  0, 15, 10,  3,  9,  8,  6,
      4,  2,  1, 11, 10, 13,  7,  8, 15,  9, 12,  5,  6,  3,  0, 14,
     11,  8, 12,  7,  1, 14,  2, 13,  6, 15,  0,  9, 10,  4,  5,  3>>,
    <<12,  1, 10, 15,  9,  2,  6,  8,  0, 13,  3,  4, 14,  7,  5, 11,
     10, 15,  4,  2,  7, 12,  9,  5,  6,  1, 13, 14,  0, 11,  3,  8,
      9, 14, 15,  5,  2,  8, 12,  3,  7,  0,  4, 10,  1, 13, 11,  6,
      4,  3,  2, 12,  9,  5, 15, 10, 11, 14,  1,  7,  6,  0,  8, 13>>,
    << 4, 11,  2, 14, 15,  0,  8, 13,  3, 12,  9,  7,  5, 10,  6,  1,
     13,  0, 11,  7,  4,  9,  1, 10, 14,  3,  5, 12,  2, 15,  8,  6,
      1,  4, 11, 13, 12,  3,  7, 14, 10, 15,  6,  8,  0,  5,  9,  2,
      6, 11, 13,  8,  1,  4, 10,  7,  9,  5,  0, 15, 14,  2,  3, 12>>,
    <<13,  2,  8,  4,  6, 15, 11,  1, 10,  9,  3, 14,  5,  0, 12,  7,
      1, 15, 13,  8, 10,  3,  7,  4, 12,  5,  6, 11,  0, 14,  9,  2,
      7, 11,  4,  1,  9, 12, 14,  2,  0,  6, 10, 13, 15,  3,  5,  8,
      2,  1, 14,  7,  4, 10,  8, 13, 15, 12,  9,  0,  3,  5,  6, 11>>>>

-----------------------------------------------------------------------------
(* The two loops *)

\* The bits of the block, in the order of the table.
Select(block, table) == [i \in 1 .. Len(table) |-> block[table[i]]]

\* lshift1() and lshift2() rotate both halves of 28 bits.
LShift(c, by) ==
  [i \in 1 .. 56 |-> IF i <= 28 THEN c[((i - 1 + by) % 28) + 1]
                     ELSE c[((i - 29 + by) % 28) + 29]]

\* Rounds 1, 2, 9 and 16 rotate once.
ShiftsTwiceInNine(round) == IF round \in {1, 2, 16} THEN 1 ELSE 2
Shifts(round) == IF round \in {1, 2, 9, 16} THEN 1 ELSE 2

\* The six bits of S box b: the row from the outer two, the column from the
\* others.  The tables are laid out row by row.
SBox(b, six) ==
  LET bit(i) == six[6 * b - 6 + i]
  IN S[b][32 * bit(1) + 16 * bit(6) + 8 * bit(2) + 4 * bit(3) + 2 * bit(4)
          + bit(5) + 1]

\* Bit b of a number of 8 bits, counted from the left.
Masks == <<128, 64, 32, 16, 8, 4, 2, 1>>
BitOf(v, b) == IF (v \div Masks[b]) % 2 # 0 THEN 1 ELSE 0

\* f(k, n) of cipher().
F(subkey, r) ==
  LET six == XorBits(48, Select(r, EPERM), subkey)
      so == [b \in 1 .. 8 |-> SBox(b, six)]
      temp3 == [i \in 1 .. 32 |->
                  BitOf(so[((i - 1) \div 4) + 1], ((i - 1) % 4) + 5)]
  IN Select(temp3, PPERM)

\* cipher() of the halves <<Ln, Rn>>.
HalvesMixed(subkey, l, r) == XorBits(32, l, F(subkey, r))
CipherUnsaved(subkey, l, r) ==
  <<HalvesMixed(subkey, l, r), HalvesMixed(subkey, l, r)>>
CipherHalves(subkey, l, r) == <<r, HalvesMixed(subkey, l, r)>>

\* preout holds R16 before L16.
Swapped(l, r) == [i \in 1 .. 64 |-> IF i <= 32 THEN r[i] ELSE l[i - 32]]
Output(l, r) == Select(Swapped(l, r), OUTPERM)

Idle ==
  /\ des = "idle"
  /\ key = Zeros(64) /\ data = Zeros(64)
  /\ Cn = Zeros(56) /\ keys = <<>>
  /\ n = 0
  /\ Ln = Zeros(32) /\ Rn = Zeros(32)
  /\ encData = Zeros(64)

\* A call.
Encrypt(k, d) ==
  /\ des \in {"idle", "done"}
  /\ des' = "keys"
  /\ key' = k /\ data' = d
  /\ Cn' = Select(k, PC1)
  /\ keys' = <<>>
  /\ UNCHANGED <<n, Ln, Rn, encData>>

DeriveKey ==
  /\ des = "keys" /\ Len(keys) < 16
  /\ Cn' = LShift(Cn, Shifts(Len(keys) + 1))
  /\ keys' = Append(keys, Select(Cn', PC2))
  /\ UNCHANGED <<des, key, data, n, Ln, Rn, encData>>

Permute ==
  /\ des = "keys" /\ Len(keys) = 16
  /\ des' = "rounds"
  /\ n' = 0
  /\ Ln' = [i \in 1 .. 32 |-> data[INITPERM[i]]]
  /\ Rn' = [i \in 1 .. 32 |-> data[INITPERM[i + 32]]]
  /\ UNCHANGED <<key, data, Cn, keys, encData>>

Cipher ==
  /\ des = "rounds" /\ n < 16
  /\ LET halves == CipherHalves(keys[n + 1], Ln, Rn)
     IN Ln' = halves[1] /\ Rn' = halves[2]
  /\ n' = n + 1
  /\ UNCHANGED <<des, key, data, Cn, keys, encData>>

Compress ==
  /\ des = "rounds" /\ n = 16
  /\ des' = "done"
  /\ encData' = Output(Ln, Rn)
  /\ UNCHANGED <<key, data, Cn, keys, n, Ln, Rn>>

DESStep == DeriveKey \/ Permute \/ Cipher \/ Compress

-----------------------------------------------------------------------------
(* Properties *)

DESTypeOK ==
  /\ des \in {"idle", "keys", "rounds", "done"}
  /\ key \in Block /\ data \in Block /\ encData \in Block
  /\ Cn \in Bits(56)
  /\ keys \in Seq(Bits(48)) /\ Len(keys) <= 16
  /\ n \in 0 .. 16
  /\ Ln \in Bits(32) /\ Rn \in Bits(32)

\* The rotation of each half after so many rounds, as the standard gives it.
TotalShifts ==
  <<1, 2, 4, 6, 8, 10, 12, 14, 15, 17, 19, 21, 23, 25, 27, 28>>

\* The key schedule (DES.js:57): each half of Cn is that of the key rotated
\* as the standard says, and after the last round where it began.
HalvesRotate ==
  des \in {"keys", "rounds"} =>
    Cn = IF keys = <<>> THEN Select(key, PC1)
         ELSE LShift(Select(key, PC1), TotalShifts[Len(keys)])

\* The sixteen subkeys of a key, as the standard gives them.
Schedule(k) ==
  [r \in 1 .. 16 |-> Select(LShift(Select(k, PC1), TotalShifts[r]), PC2)]

\* A round of cipher() on a block, the one half behind the other.
Round(subkey, block) ==
  LET halves == CipherHalves(subkey, SubSeq(block, 1, 32), SubSeq(block, 33, 64))
  IN halves[1] \o halves[2]

\* The block after each of the sixteen rounds with these subkeys, the last
\* subkey first.
Unrounds(subkeys, block) ==
  LET after[r \in 0 .. 16] ==
        IF r = 0 THEN block ELSE Round(subkeys[17 - r], after[r - 1])
  IN after

\* Decryption as the standard has it.
Decrypted(k, block) ==
  LET last == Unrounds(Schedule(k), Select(block, INITPERM))[16]
  IN Output(SubSeq(last, 1, 32), SubSeq(last, 33, 64))

\* The standard's decryption of the result, under the key of the call, is the
\* data of the call (DES.js:56, DES.js:217): each of the unrolled rounds takes
\* its own subkey, in the order of the schedule, and the permutations fit.
Decrypts == des = "done" => Decrypted(key, encData) = data

=============================================================================
