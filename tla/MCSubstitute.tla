---------------------------- MODULE MCSubstitute ----------------------------
(***************************************************************************)
(* PasswordSubstitute for TLC: names in EBCDIC, and substitutes that were  *)
(* computed with another implementation of DES (OpenSSL) and arithmetic on *)
(* 64-bit numbers.                                                         *)
(***************************************************************************)
EXTENDS PasswordSubstitute

\* Letters, digits, and # @ $ _ in EBCDIC.
EBCDICAlphabet ==
  (193 .. 201) \cup (209 .. 217) \cup (226 .. 233) \cup (240 .. 249)
    \cup {123, 124, 91, 109}

Pad(s) == [j \in 1 .. 10 |-> IF j <= Len(s) THEN s[j] ELSE Blank]

QUSER == Pad(<<216, 228, 226, 197, 217>>)
LIAMALLA == <<211, 201, 193, 212, 193, 211, 211, 193>>
LIAMALLAN == Pad(LIAMALLA \o <<213>>)
LIAMALLAN1 == Pad(LIAMALLA \o <<213, 241>>)
MCUsers == {QUSER, LIAMALLAN, LIAMALLAN1, Pad(LIAMALLA \o <<212>>)}

ABCDEFGH == <<193, 194, 195, 196, 197, 198, 199, 200>>
ABCDEFGHIJ == Pad(ABCDEFGH \o <<201, 209>>)
SECRET == <<226, 197, 195, 217, 197, 227, 123>>
SECRET1 == Pad(SECRET \o <<241>>)
MCPasswords == {QUSER, ABCDEFGHIJ, SECRET1, Pad(SECRET \o <<240>>)}

Counting == <<1, 2, 3, 4, 5, 6, 7, 8>>
MCClientSeeds == {Counting}
AllOnes == [j \in 1 .. 8 |-> 255]
LastOnes == <<0, 0, 0, 0, 0, 0, 0, 255>>
SomeSeed == <<18, 52, 86, 120, 154, 188, 222, 240>>
MCServerSeeds == {AllOnes, LastOnes, SomeSeed}

\* Inputs and their substitutes.
Vectors == {
  <<QUSER, QUSER, Counting, LastOnes,
    <<86, 101, 74, 71, 211, 121, 197, 169>>>>,
  <<LIAMALLAN, ABCDEFGHIJ, Counting, AllOnes,
    <<2, 145, 122, 153, 156, 244, 164, 105>>>>,
  <<LIAMALLAN1, SECRET1, Counting, SomeSeed,
    <<109, 237, 82, 24, 41, 66, 228, 165>>>>}

\* The substitute is the one that standard DES gives for these inputs, with
\* a short and a long password, with names that are folded and one that is not,
\* and with seeds that carry ("this is the encrypted password",
\* EncryptPassword.js:207).
KnownSubstitutes ==
  step = "done" =>
    \A v \in Vectors :
      v[1] = user /\ v[2] = password /\ v[3] = clientSeed /\ v[4] = serverSeed
        => substitute = BitsOf(v[5], 8)

=============================================================================
