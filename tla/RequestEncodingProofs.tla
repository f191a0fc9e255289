----------------------- MODULE RequestEncodingProofs -----------------------
(***************************************************************************)
(* The lengths of requests, for texts of any length, any number of         *)
(* attributes and any number of requests.                                  *)
(***************************************************************************)
EXTENDS RequestEncoding, TLAPS

-----------------------------------------------------------------------------
(* One parameter *)

\* The three lengths of a parameter, kind by kind.
LEMMA LengthTable ==
  ASSUME NEW kind \in Kinds, NEW n \in Nat
  PROVE  /\ kind \in {"short", "identifier", "absolute"} =>
              LL(kind, n) = 8 /\ Writes(kind, n) = 8
         /\ kind = "byte" => LL(kind, n) = 7 /\ Writes(kind, n) = 7
         /\ kind = "int" => LL(kind, n) = 10 /\ Writes(kind, n) = 10
         /\ kind = "text" => LL(kind, n) = 10 + n /\ Writes(kind, n) = 10 + n
         /\ kind = "feature" =>
              LL(kind, n) = 12 /\ Writes(kind, n) = 8 + Padded(n, 10)
         /\ kind = "level" =>
              LL(kind, n) = 18 /\ Writes(kind, n) = 8 + Padded(n, 10)
         /\ kind = "language" =>
              LL(kind, n) = 13 /\ Writes(kind, n) = 10 + Padded(n, 3)
         /\ kind = "tables" =>
              LL(kind, n) = 14 + n /\ Writes(kind, n) = 14 + n
         /\ kind = "decimals" => LL(kind, n) = 12 /\ Writes(kind, n) = 12
         /\ kind = "relative" => LL(kind, n) = 12 /\ Writes(kind, n) = 12
<1> USE DEF LL, Writes, Prefix, Int4, Int2, Int1
<1>1. CASE kind \in {"short", "identifier", "absolute"}
  BY <1>1
<1>2. CASE kind = "byte"
  BY <1>2
<1>3. CASE kind = "int"
  BY <1>3
<1>4. CASE kind = "text"
  BY <1>4 DEF Padded
<1>5. CASE kind = "feature"
  BY <1>5 DEF Padded
<1>6. CASE kind = "level"
  BY <1>6 DEF Padded
<1>7. CASE kind = "language"
  BY <1>7 DEF Padded
<1>8. CASE kind = "tables"
  BY <1>8
<1>9. CASE kind = "decimals"
  BY <1>9
<1>10. CASE kind = "relative"
  BY <1>10
<1> QED
  BY ONLY kind \in Kinds, <1>1, <1>2, <1>3, <1>4, <1>5, <1>6, <1>7, <1>8, <1>9, <1>10
     DEF Kinds, ServerKinds, RequestKinds

\* The lengths of a parameter are natural numbers.
LEMMA LengthsAreNat ==
  ASSUME NEW kind \in Kinds, NEW n \in Nat
  PROVE  /\ LL(kind, n) \in Nat
         /\ Declares(kind, n) \in Nat
         /\ Writes(kind, n) \in Nat
  BY LengthTable DEF Kinds, ServerKinds, RequestKinds, Declares, Padded

\* No parameter is shorter than the header is told, and it is longer exactly
\* when it is misdeclared.
LEMMA DeclaredAtMostWritten ==
  ASSUME NEW kind \in Kinds, NEW n \in Nat
  PROVE  /\ Declares(kind, n) <= Writes(kind, n)
         /\ Declares(kind, n) = Writes(kind, n) <=> ~Misdeclares(kind, n)
  BY LengthTable
     DEF Kinds, ServerKinds, RequestKinds, Declares, Padded, Misdeclares

\* No parameter is shorter than its own length tells, and it is longer exactly
\* when it is misdeclared and not a relative scroll option.
LEMMA LLAtMostWritten ==
  ASSUME NEW kind \in Kinds, NEW n \in Nat
  PROVE  /\ LL(kind, n) <= Writes(kind, n)
         /\ LL(kind, n) = Writes(kind, n)
              <=> ~Misdeclares(kind, n) \/ kind = "relative"
  BY LengthTable
     DEF Kinds, ServerKinds, RequestKinds, Padded, Misdeclares

-----------------------------------------------------------------------------
(* The invariant *)

\* The lengths of the request that is being encoded, and of all that was sent:
\* what is declared never exceeds what is written.
HeaderInv ==
  /\ length <= buffered
  /\ length = buffered <=> misdeclared = {}
WalkInv == walked <= buffered /\ ParametersWalkable
StreamInv == skew >= 0 /\ InStep
IInv == TypeOK /\ HeaderInv /\ WalkInv /\ StreamInv

\* The attribute of a kind that only one attribute has.
LEMMA AttributeOfKind ==
  ASSUME NEW kind \in Kinds, kind \notin Common
  PROVE  Attribute(kind) \in Attributes
  BY DEF Kinds, ServerKinds, RequestKinds, Common, Attribute, Attributes

LEMMA Initially == Init => IInv
  BY DEF Init, IInv, TypeOK, HeaderInv, WalkInv, StreamInv,
         ParametersWalkable, InStep

\* One more parameter keeps the lengths in order.
LEMMA EncodeKeeps ==
  ASSUME IInv, NEW kind \in Kinds, NEW n \in TextSizes, Encode(kind, n)
  PROVE  IInv'
<1>1. n \in Nat
  BY SizesAssumption
<1>2. /\ LL(kind, n) \in Nat
      /\ Declares(kind, n) \in Nat
      /\ Writes(kind, n) \in Nat
  BY <1>1, LengthsAreNat
<1>3. /\ length \in Nat /\ walked \in Nat /\ buffered \in Nat
      /\ length' = length + Declares(kind, n)
      /\ walked' = walked + LL(kind, n)
      /\ buffered' = buffered + Writes(kind, n)
  BY DEF IInv, TypeOK, Encode
<1>4. /\ Misdeclares(kind, n) => misdeclared' = misdeclared \cup {kind}
      /\ ~Misdeclares(kind, n) => misdeclared' = misdeclared
  BY DEF Encode
<1>5. TypeOK'
  <2>1. seen' \subseteq Attributes
    <3>1. CASE kind \in Common
      BY <3>1 DEF IInv, TypeOK, Encode
    <3>2. CASE kind \notin Common
      BY <3>2, AttributeOfKind DEF IInv, TypeOK, Encode
    <3> QED
      BY <3>1, <3>2
  <2>2. misdeclared' \subseteq Kinds
    BY <1>4 DEF IInv, TypeOK
  <2>3. parms' \in Nat
    BY DEF IInv, TypeOK, Encode
  <2>4. length' \in Nat /\ walked' \in Nat /\ buffered' \in Nat
    BY <1>2, <1>3
  <2>5. UNCHANGED <<encoder, requests, skew, offenders>>
    BY DEF Encode
  <2> QED
    BY <2>1, <2>2, <2>3, <2>4, <2>5 DEF IInv, TypeOK
<1>6. HeaderInv'
  <2>1. /\ length <= buffered
        /\ length = buffered <=> misdeclared = {}
    BY DEF IInv, HeaderInv
  <2>2. /\ Declares(kind, n) <= Writes(kind, n)
        /\ Declares(kind, n) = Writes(kind, n) <=> ~Misdeclares(kind, n)
    BY <1>1, DeclaredAtMostWritten
  <2>3. length' <= buffered'
    BY <1>2, <1>3, <2>1, <2>2
  <2>4. length' = buffered'
          <=> length = buffered /\ Declares(kind, n) = Writes(kind, n)
    BY <1>2, <1>3, <2>1, <2>2
  <2>5. misdeclared' = {} <=> misdeclared = {} /\ ~Misdeclares(kind, n)
    BY <1>4
  <2> QED
    BY <2>1, <2>2, <2>3, <2>4, <2>5 DEF HeaderInv
<1>7. WalkInv'
  <2>1. /\ walked <= buffered
        /\ walked = buffered <=> misdeclared \subseteq {"relative"}
    BY DEF IInv, WalkInv, ParametersWalkable
  <2>2. /\ LL(kind, n) <= Writes(kind, n)
        /\ LL(kind, n) = Writes(kind, n)
             <=> ~Misdeclares(kind, n) \/ kind = "relative"
    BY <1>1, LLAtMostWritten
  <2>3. walked' <= buffered'
    BY <1>2, <1>3, <2>1, <2>2
  <2>4. walked' = buffered'
          <=> walked = buffered /\ LL(kind, n) = Writes(kind, n)
    BY <1>2, <1>3, <2>1, <2>2
  <2>5. misdeclared' \subseteq {"relative"}
          <=> /\ misdeclared \subseteq {"relative"}
              /\ ~Misdeclares(kind, n) \/ kind = "relative"
    BY <1>4
  <2> QED
    BY <2>1, <2>2, <2>3, <2>4, <2>5 DEF WalkInv, ParametersWalkable
<1>8. StreamInv'
  BY DEF IInv, StreamInv, InStep, Encode
<1> QED
  BY <1>5, <1>6, <1>7, <1>8 DEF IInv

\* A request adds to the skew exactly when a parameter of it is misdeclared.
LEMMA SendKeeps ==
  ASSUME IInv, SendRequest
  PROVE  IInv'
<1>1. /\ skew \in Int /\ skew >= 0
      /\ length \in Nat /\ buffered \in Nat /\ length <= buffered
      /\ length = buffered <=> misdeclared = {}
      /\ skew = 0 <=> offenders = {}
  BY DEF IInv, TypeOK, HeaderInv, StreamInv, InStep
<1>2. /\ skew' = skew + (buffered - length)
      /\ offenders' = offenders \cup misdeclared
      /\ UNCHANGED <<seen, parms, length, walked, buffered, misdeclared,
                     requests>>
      /\ encoder' = "none"
  BY DEF SendRequest
<1>3. skew' \in Int /\ skew' >= 0
  BY <1>1, <1>2
<1>4. skew' = 0 <=> skew = 0 /\ length = buffered
  BY <1>1, <1>2
<1>5. offenders' = {} <=> offenders = {} /\ misdeclared = {}
  BY <1>2
<1>6. StreamInv'
  BY <1>1, <1>3, <1>4, <1>5 DEF StreamInv, InStep
<1>7. TypeOK'
  BY <1>2, <1>3 DEF IInv, TypeOK
<1>8. HeaderInv' /\ WalkInv'
  BY <1>2 DEF IInv, HeaderInv, WalkInv, ParametersWalkable
<1> QED
  BY <1>6, <1>7, <1>8 DEF IInv

LEMMA Inductive == IInv /\ [Next]_vars => IInv'
<1> SUFFICES ASSUME IInv, [Next]_vars
             PROVE  IInv'
  OBVIOUS
<1>1. ASSUME NEW e \in Encoders, BeginRequest(e)
      PROVE  IInv'
  BY <1>1 DEF BeginRequest, IInv, TypeOK, HeaderInv, WalkInv, StreamInv,
              ParametersWalkable, InStep
<1>2. ASSUME NEW kind \in Kinds, NEW n \in TextSizes, Encode(kind, n)
      PROVE  IInv'
  BY <1>2, EncodeKeeps
<1>3. CASE EncodeThrows
  BY <1>3 DEF EncodeThrows, IInv, TypeOK, HeaderInv, WalkInv, StreamInv,
              ParametersWalkable, InStep
<1>4. CASE SendRequest
  BY <1>4, SendKeeps
<1>5. CASE UNCHANGED vars
  BY <1>5 DEF vars, encoding, IInv, TypeOK, HeaderInv, WalkInv, StreamInv,
              ParametersWalkable, InStep
<1> QED
  BY <1>1, <1>2, <1>3, <1>4, <1>5 DEF Next

\* The invariant holds throughout.
THEOREM Invariance == Spec => []IInv
  BY Initially, Inductive, PTL DEF Spec

-----------------------------------------------------------------------------
(* Results *)

\* Every variable of the encoder keeps its type.
THEOREM TypeCorrect == Spec => []TypeOK
<1>1. IInv => TypeOK
  BY DEF IInv
<1> QED
  BY <1>1, Invariance, PTL

\* The server stays at request boundaries exactly as long as no misdeclared
\* parameter is sent, whatever the lengths and however many requests.
THEOREM AlwaysInStep == Spec => []InStep
<1>1. IInv => InStep
  BY DEF IInv, StreamInv
<1> QED
  BY <1>1, Invariance, PTL

\* The lengths of the parameters lead through the whole buffer exactly as long
\* as none of them is misdeclared.
THEOREM AlwaysWalkable == Spec => []ParametersWalkable
<1>1. IInv => ParametersWalkable
  BY DEF IInv, WalkInv
<1> QED
  BY <1>1, Invariance, PTL
=============================================================================
