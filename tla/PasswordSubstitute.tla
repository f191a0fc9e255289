------------------------- MODULE PasswordSubstitute -------------------------
(***************************************************************************)
(* EncryptPassword.encryptDES(): the password substitute of a login at     *)
(* password levels 0 and 1, from the user name and password, already in    *)
(* EBCDIC and padded with blanks, and the seeds of client and server.      *)
(*                                                                         *)
(* The token is the user name encrypted under the password, or two tokens  *)
(* combined if the password has more than 8 characters.  The substitute is *)
(* a chain of five encryptions under the token.  Each of them is a call of *)
(* DES, whose rounds are steps of this module too.                         *)
(*                                                                         *)
(* Buffers are functions of bytes as in the code where it counts or adds,  *)
(* and of bits (see DES) where it combines them.                           *)
(*                                                                         *)
(* Before some operators stands a faulty form (see the "mutants" of        *)
(* PROJECT.json).                                                          *)
(***************************************************************************)
EXTENDS DES

CONSTANTS
  Alphabet,     \* EBCDIC characters of user names and passwords
  Users,        \* user names, 10 characters with blanks behind
  Passwords,    \* passwords, likewise
  ClientSeeds,
  ServerSeeds

Blank == 64
Byte == 0 .. 255
Buffer(k) == [1 .. k -> Byte]

\* Names of 1 to 10 characters, padded.
Padded(b, len) ==
  /\ \A i \in 1 .. len : b[i] \in Alphabet
  /\ \A i \in len + 1 .. 10 : b[i] = Blank
Name == {b \in Buffer(10) : \E len \in 1 .. 10 : Padded(b, len)}

\* Neither 0 nor a blank is a character of a name, and the low seven bits
\* tell its characters and the blank apart.
ASSUME AlphabetAssumption ==
  /\ Alphabet \subseteq Byte \ {0, Blank}
  /\ \A c, d \in Alphabet \cup {Blank} : c % 128 = d % 128 => c = d
ASSUME InputsAssumption ==
  /\ Users \subseteq Name /\ Passwords \subseteq Name
  /\ ClientSeeds \subseteq Buffer(8) /\ ServerSeeds \subseteq Buffer(8)

VARIABLES
  user, password, clientSeed, serverSeed,  \* the arguments (fixed)
  step,        \* the stage of the computation
  i,           \* index of the loop of addBuffer()
  carryBit,
  RDrSEQ,      \* sequence number and server seed added
  firstToken,  \* of a long password
  token,
  substitute   \* the result

inputs == <<user, password, clientSeed, serverSeed>>
adding == <<i, carryBit, RDrSEQ>>
vars == <<desVars, inputs, step, adding, firstToken, token, substitute>>

-----------------------------------------------------------------------------
(* Buffers *)

\* Conv.EBCDICStringLength(): the place of the first blank or 0.
EBCDICStringLength(b) ==
  CHOOSE len \in 0 .. 10 :
    /\ \A j \in 1 .. len : b[j] \notin {Blank, 0}
    /\ len < 10 => b[len + 1] \in {Blank, 0}

\* The bits of the first k bytes of a buffer.
BitsOf(b, k) ==
  [j \in 1 .. 8 * k |-> BitOf(b[((j - 1) \div 8) + 1], ((j - 1) % 8) + 1)]

XorBlocks(a, b) == XorBits(64, a, b)

\* xor55AndLshift(): the bits of 0x55 are 0, 1, 0, 1, ..., and each bit takes
\* the place of the one before it.
Xor55 == [j \in 1 .. 64 |-> IF j % 2 = 0 THEN 1 ELSE 0]
XorWith55(b) == XorBlocks(BitsOf(b, 8), Xor55)
Xor55AndLshift(b) ==
  LET bits == XorWith55(b)
  IN [j \in 1 .. 64 |-> IF j < 64 THEN bits[j + 1] ELSE 0]

\* Two bits of the ninth and tenth character go to each of the first eight.
FoldsTenth(b, j) == EBCDICStringLength(b) > 9 /\ (j - 1) % 8 < 2
Folds(b, j) == EBCDICStringLength(b) > 8 /\ (j - 1) % 8 < 2
Folded(b) ==
  LET bits == BitsOf(b, 10)
  IN [j \in 1 .. 64 |->
        IF Folds(b, j)
        THEN Xor(bits[j], bits[64 + 2 * ((j - 1) \div 8) + ((j - 1) % 8) + 1])
        ELSE bits[j]]

\* The working buffers of the password.
Long(p) == EBCDICStringLength(p) > 8
FirstHalf(p) ==
  [j \in 1 .. 8 |-> IF j <= EBCDICStringLength(p) THEN p[j] ELSE Blank]
SecondHalf(p) ==
  [j \in 1 .. 8 |-> IF j + 8 <= EBCDICStringLength(p) THEN p[j + 8]
                    ELSE Blank]

\* The DES keys a password stands for.
KeysOf(p) ==
  IF Long(p) THEN <<Xor55AndLshift(FirstHalf(p)), Xor55AndLshift(SecondHalf(p))>>
  ELSE <<Xor55AndLshift(FirstHalf(p))>>

Sequence == [j \in 1 .. 8 |-> IF j = 8 THEN 1 ELSE 0]

\* The second half of the user name, left justified.
RestOfUserZeroed == [j \in 1 .. 8 |-> IF j <= 2 THEN user[8 + j] ELSE 0]
RestOfUser == [j \in 1 .. 8 |-> IF j <= 2 THEN user[8 + j] ELSE Blank]

-----------------------------------------------------------------------------
(* encryptDES() *)

Init ==
  /\ Idle
  /\ user \in Users /\ password \in Passwords
  /\ clientSeed \in ClientSeeds /\ serverSeed \in ServerSeeds
  /\ step = "begin"
  /\ i = 8 /\ carryBit = 0
  /\ RDrSEQ = Zeros(8)
  /\ firstToken = Zeros(64) /\ token = Zeros(64) /\ substitute = Zeros(64)

\* generatePasswordToken(): the first 8 characters, and then the others.
BeginToken ==
  /\ step = "begin"
  /\ Encrypt(KeysOf(password)[1], Folded(user))
  /\ step' = IF Long(password) THEN "half" ELSE "token"
  /\ UNCHANGED <<inputs, adding, firstToken, token, substitute>>

SecondToken ==
  /\ step = "half" /\ des = "done"
  /\ Encrypt(KeysOf(password)[2], Folded(user))
  /\ firstToken' = encData
  /\ step' = "token"
  /\ UNCHANGED <<inputs, adding, token, substitute>>

TokenDone ==
  /\ step = "token" /\ des = "done"
  /\ token' = IF Long(password) THEN XorBlocks(firstToken, encData)
              ELSE encData
  /\ step' = "add"
  /\ UNCHANGED <<desVars, inputs, adding, firstToken, substitute>>

\* addBuffer(sequence, serverSeed, RDrSEQ, 8), one pass.  A buffer takes a
\* number modulo 256.
StoreByteWide(value) == value
StoreByte(value) == value % 256
CarryDropped(temp) == 0
Carry(temp) == temp \div 256

AddByte ==
  /\ step = "add" /\ i > 0
  /\ LET temp == Sequence[i] + serverSeed[i] + carryBit
     IN /\ carryBit' = Carry(temp)
        /\ RDrSEQ' = [RDrSEQ EXCEPT ![i] = StoreByte(temp)]
  /\ i' = i - 1
  /\ UNCHANGED <<desVars, inputs, step, firstToken, token, substitute>>

\* generatePasswordSubstitute(): the five links of the chain.
FirstData ==
  /\ step = "add" /\ i = 0
  /\ Encrypt(token, BitsOf(RDrSEQ, 8))
  /\ step' = "first"
  /\ UNCHANGED <<inputs, adding, firstToken, token, substitute>>

Links == <<"first", "second", "third", "fourth", "fifth">>
NextData(link) ==
  CASE link = "second" -> XorBlocks(encData, BitsOf(clientSeed, 8))
    [] link = "third" ->
         XorBlocks(XorBlocks(BitsOf(user, 8), BitsOf(RDrSEQ, 8)), encData)
    [] link = "fourth" ->
         XorBlocks(XorBlocks(BitsOf(RDrSEQ, 8), BitsOf(RestOfUser, 8)), encData)
    [] link = "fifth" -> XorBlocks(BitsOf(Sequence, 8), encData)

Chain ==
  \E k \in 1 .. 4 :
    /\ step = Links[k] /\ des = "done"
    /\ Encrypt(token, NextData(Links[k + 1]))
    /\ step' = Links[k + 1]
    /\ UNCHANGED <<inputs, adding, firstToken, token, substitute>>

Return ==
  /\ step = "fifth" /\ des = "done"
  /\ substitute' = encData
  /\ step' = "done"
  /\ UNCHANGED <<desVars, inputs, adding, firstToken, token>>

Encryption ==
  /\ DESStep
  /\ UNCHANGED <<inputs, step, adding, firstToken, token, substitute>>

Next ==
  \/ BeginToken \/ SecondToken \/ TokenDone
  \/ AddByte
  \/ FirstData \/ Chain \/ Return
  \/ Encryption

Spec == Init /\ [][Next]_vars

-----------------------------------------------------------------------------
(* Properties *)

TypeOK ==
  /\ DESTypeOK
  /\ user \in Name /\ password \in Name
  /\ clientSeed \in Buffer(8) /\ serverSeed \in Buffer(8)
  /\ step \in {"begin", "half", "token", "add", "first", "second", "third",
               "fourth", "fifth", "done"}
  /\ i \in 0 .. 8 /\ carryBit \in 0 .. 1
  /\ RDrSEQ \in Buffer(8)
  /\ firstToken \in Block /\ token \in Block /\ substitute \in Block

\* b is a + 1 modulo 2^64: the last byte that is not 255 is one more, the ones
\* behind it are 0, those before it are the same.
Successor(a, b) ==
  \/ \A j \in 1 .. 8 : a[j] = 255 /\ b[j] = 0
  \/ \E k \in 1 .. 8 :
       /\ a[k] < 255 /\ b[k] = a[k] + 1
       /\ \A j \in 1 .. k - 1 : b[j] = a[j]
       /\ \A j \in k + 1 .. 8 : a[j] = 255 /\ b[j] = 0

\* "RDrSEQ = password sequence + host seed" (EncryptPassword.js:163): what is
\* encrypted first is the number after the server's seed, with every carry.
SeedIsCounted ==
  step \in {"first", "second", "third", "fourth", "fifth", "done"} =>
    Successor(serverSeed, RDrSEQ)

\* The substitute can be taken apart, as a server does that knows the token: it
\* leads back through the five links, each of them undone with what their
\* comments say it was combined with (EncryptPassword.js:166-207), to the number
\* that was encrypted first.
SubstituteUnwinds ==
  step = "done" =>
    LET Undone(block) == Decrypted(token, block)
        sequence == BitsOf([j \in 1 .. 8 |-> IF j < 8 THEN 0 ELSE 1], 8)
        firstOfUser == BitsOf([j \in 1 .. 8 |-> user[j]], 8)
        restOfUser ==
          BitsOf([j \in 1 .. 8 |-> IF j > 2 THEN Blank ELSE user[j + 8]], 8)
        count == BitsOf(RDrSEQ, 8)
        fourth == XorBlocks(Undone(substitute), sequence)
        third == XorBlocks(Undone(fourth), XorBlocks(restOfUser, count))
        second == XorBlocks(Undone(third), XorBlocks(firstOfUser, count))
        first == XorBlocks(Undone(second), BitsOf(clientSeed, 8))
    IN Undone(first) = count

\* No other password has the keys of this one, in the bits that DES takes
\* from a key: xor55AndLshift() loses one bit of each character, DES another,
\* and no password has the keys of one that is longer or shorter.
KeysTellPasswords ==
  step = "begin" =>
    \A p \in Passwords :
      /\ Long(p) = Long(password)
      /\ \A k \in 1 .. Len(KeysOf(p)) :
           Select(KeysOf(p)[k], PC1) = Select(KeysOf(password)[k], PC1)
      => p = password

\* No other user name with the same beginning is folded to the same block.
FoldTellsUsers ==
  step = "begin" =>
    \A u \in Users :
      /\ \A j \in 1 .. 8 : u[j] = user[j]
      /\ Folded(u) = Folded(user)
      => u = user

=============================================================================
