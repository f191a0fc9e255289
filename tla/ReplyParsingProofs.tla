------------------------- MODULE ReplyParsingProofs -------------------------
(***************************************************************************)
(* Theorems about ReplyParsing, for replies of any size.  The invariant    *)
(* relates the count of a reader to the bytes it has taken: getInfo()      *)
(* counts less by the padding it skipped, initialConnect() four more once  *)
(* it has the job name, and the others count what they took.  The buffer   *)
(* of setServerAttributes() holds, byte by byte, what came last.           *)
(***************************************************************************)
EXTENDS ReplyParsing, SequenceTheorems, TLAPS

Ahead == IF reader = "startServer" /\ "jobName" \in seen THEN 4 ELSE 0
Behind == IF reader \in InfoReaders THEN padding ELSE 0

\* What is fixed about a reply.
ReplyInv ==
  /\ have <= length
  /\ length = Header(reader) \/ Header(reader) + 6 <= length
  /\ reader = "error" => ~accepted
  /\ reader = "attributes" => accepted

\* Where a reader is in its loop.
LoopInv ==
  /\ Header(reader) <= read /\ read <= length
  /\ read = length \/ read + 6 <= length
  /\ count = read + Ahead - Behind
  /\ torn = {} \/ read > have
  /\ accepted \/ reader = "error"
  /\ reader = "attributes" => (seen = {} /\ read = 40) \/
                              (seen = {"attributes"} /\ read > 40)

\* What is read is what the reader knows; a value is torn once.
SeenInv ==
  /\ seen \subseteq Known(reader) \cup {"other"}
  /\ \E cp \in CodePoints : torn \subseteq {cp}
  /\ reader \in {"signonInfo", "attributes"} => torn = {}

\* The part of OnlyLastTorn that is about the other readers.
LastTorn ==
  outcome = "resolved" /\ torn # {} =>
    /\ ~Whole /\ Leftover = 0
    /\ \/ unparsed <= 0
       \/ reader = "startServer" /\ unparsed <= 14

\* The reasons for which getInfo() ends otherwise.
InfoInv ==
  /\ reader \in InfoReaders =>
       outcome \notin {"TypeError", "ReferenceError", "FormatError"}
  /\ reader \in InfoReaders /\ outcome = "ServerError" => ~accepted
  /\ reader \in InfoReaders /\ outcome = "RangeError" /\ Whole =>
       padding # 0
  /\ reader \in InfoReaders /\ outcome = "resolved" => padding = 0

\* What a byte of the buffer holds when text k is taken, which may be behind
\* the end of the text.
Held(k, i) ==
  \/ texts[k][i] = 0 /\ \A j \in 1 .. k : ~Arrived(j, i)
  \/ \E j \in 1 .. k :
       /\ Arrived(j, i) /\ \A later \in j + 1 .. k : ~Arrived(later, i)
       /\ texts[k][i] = Place(j, i)

Taken == Len(texts)
TextsInv ==
  /\ Taken <= 8
  /\ texts # <<>> => 40 + BlockLength <= length
  /\ \A k \in 1 .. Taken : \A i \in 1 .. 32 : Held(k, i)

\* Where setServerAttributes() is in its parameter.
BlockInv ==
  /\ reader = "attributes" /\ seen = {} /\ count = 40 /\ torn = {}
  /\ BlockLength <= block
  /\ 40 + block = length \/ 40 + block + 6 <= length
  /\ read = 40 + TextPlaces[Taken + 1]

IInv ==
  /\ TypeOK
  /\ ReplyInv
  /\ SeenInv
  /\ InfoInv
  /\ outcome = "header" => read = 0 /\ padding = 0 /\ torn = {} /\ seen = {}
  /\ outcome = "parameters" => LoopInv
  /\ outcome = "texts" => BlockInv
  /\ TextsInv
  /\ NothingMissed
  /\ NothingLeft
  /\ LastTorn

-----------------------------------------------------------------------------
(* Facts about the tables *)

LEMMA HeaderSize == \A r \in Readers : Header(r) \in {24, 40}
  BY DEF Header

LEMMA NumbersNat == \A cp \in CodePoints : Numbers(cp) \in Nat
  BY DEF Numbers

LEMMA KnownCodePoints ==
  ASSUME NEW r \in Readers, NEW cp \in Known(r) \cup {"other"}
  PROVE  cp \in CodePoints
  BY DEF CodePoints

LEMMA Lengths6 ==
  ASSUME NEW cp \in CodePoints
  PROVE  /\ MinLength(cp) \in Nat /\ MinLength(cp) >= 6
         /\ cp # "attributes" => MinLength(cp) >= 6 + Numbers(cp)
  BY DEF MinLength, Numbers

LEMMA SizesNat ==
  ASSUME NEW r, NEW n \in Sizes(r) PROVE n \in Nat /\ (n = 0 \/ n >= 6)
  BY SizesAssumption DEF Sizes

\* Where the loop goes on, reader by reader.
LEMMA LoopTable ==
  /\ reader \in InfoReaders => (Continues <=> count < length)
  /\ reader = "signonInfo" =>
       (Continues <=> count < length /\ "CCSID" \notin seen)
  /\ reader = "startServer" => (Continues <=> length - count > 10)
  /\ reader = "attributes" => (Continues <=> length > 46 /\ count = 40)
  /\ reader = "error" => (Continues <=> count < length)
<1>1. ~({"version", "level", "passwordLevel"} \subseteq Flags(reader))
  BY DEF Flags
<1>2. CASE reader \in InfoReaders
  BY <1>1, <1>2 DEF Continues, InfoReaders
<1>3. CASE reader = "signonInfo"
  BY <1>3 DEF Continues, InfoReaders
<1>4. CASE reader = "startServer"
  BY <1>4 DEF Continues, InfoReaders
<1>5. CASE reader = "attributes"
  BY <1>5 DEF Continues, InfoReaders
<1>6. CASE reader = "error"
  BY <1>6 DEF Continues, InfoReaders
<1> QED
  BY <1>2, <1>3, <1>4, <1>5, <1>6

\* The texts follow one another up to the end of the block.
LEMMA TextTable ==
  /\ Len(TextWidths) = 8 /\ TextPlaces[1] = 31 /\ TextPlaces[9] = BlockLength
  /\ \A k \in 1 .. 8 : /\ TextWidths[k] \in 1 .. 32 /\ TextPlaces[k] \in Nat
                       /\ TextPlaces[k + 1] = TextPlaces[k] + TextWidths[k]
<1>1. /\ Len(TextWidths) = 8 /\ TextPlaces[1] = 31
      /\ TextPlaces[9] = BlockLength
  BY DEF TextWidths, TextPlaces, BlockLength
<1>2. ASSUME NEW k \in 1 .. 8
      PROVE  /\ TextWidths[k] \in 1 .. 32 /\ TextPlaces[k] \in Nat
             /\ TextPlaces[k + 1] = TextPlaces[k] + TextWidths[k]
  <2>1. k = 1 \/ k = 2 \/ k = 3 \/ k = 4 \/ k = 5 \/ k = 6 \/ k = 7 \/ k = 8
    OBVIOUS
  <2>2. CASE k = 1  BY <2>2 DEF TextWidths, TextPlaces
  <2>3. CASE k = 2  BY <2>3 DEF TextWidths, TextPlaces
  <2>4. CASE k = 3  BY <2>4 DEF TextWidths, TextPlaces
  <2>5. CASE k = 4  BY <2>5 DEF TextWidths, TextPlaces
  <2>6. CASE k = 5  BY <2>6 DEF TextWidths, TextPlaces
  <2>7. CASE k = 6  BY <2>7 DEF TextWidths, TextPlaces
  <2>8. CASE k = 7  BY <2>8 DEF TextWidths, TextPlaces
  <2>9. CASE k = 8  BY <2>9 DEF TextWidths, TextPlaces
  <2> QED  BY <2>1, <2>2, <2>3, <2>4, <2>5, <2>6, <2>7, <2>8, <2>9
<1> QED  BY <1>1, <1>2

LEMMA PlaceIs == \A k, i : Place(k, i) = 40 + TextPlaces[k] + i
  BY DEF Place, Header

LEMMA TextsType ==
  ASSUME TypeOK, TextsInv
  PROVE  /\ texts \in Seq(TextBuffers) /\ Taken \in 0 .. 8 /\ Taken = Len(texts)
         /\ \A k \in 1 .. Taken : k \in 1 .. 8 /\ texts[k] \in TextBuffers
         /\ texts = <<>> <=> Taken = 0
         /\ have \in Nat /\ length \in Nat
         /\ texts # <<>> => 162 <= length
<1>1. texts \in Seq(TextBuffers) /\ have \in Nat /\ length \in Nat
  BY DEF TypeOK
<1>2. Taken \in Nat /\ (texts = <<>> <=> Taken = 0)
  BY <1>1, LenProperties, EmptySeq DEF Taken
<1>3. Taken <= 8 /\ (texts # <<>> => 162 <= length)
  BY <1>1 DEF TextsInv, BlockLength
<1>4. \A k \in 1 .. Taken : texts[k] \in TextBuffers
  BY <1>1, ElementOfSeq DEF Taken
<1>5. Taken \in 0 .. 8 /\ \A k \in 1 .. Taken : k \in 1 .. 8
  BY <1>2, <1>3
<1> QED  BY <1>1, <1>2, <1>3, <1>4, <1>5 DEF Taken

-----------------------------------------------------------------------------
(* The steps *)

\* The invariant of the buffer is about nothing else that changes.
LEMMA TextsKept ==
  ASSUME TextsInv, UNCHANGED <<texts, have, length>> PROVE TextsInv'
<1>1. \A k, i : Arrived(k, i)' <=> Arrived(k, i)
  BY DEF Arrived, Place
<1> QED  BY <1>1 DEF TextsInv, Held, Place, Taken

LEMMA InitInv == Init => IInv
<1> SUFFICES ASSUME Init PROVE IInv
  OBVIOUS
<1>1. /\ Header(reader) \in {24, 40}
      /\ \E n \in Nat : length = Header(reader) + n /\ (n = 0 \/ n >= 6)
  BY HeaderSize, SizesNat DEF Init
<1>2. TypeOK /\ ReplyInv
  BY <1>1 DEF Init, TypeOK, ReplyInv
<1>3. \E cp \in CodePoints : torn \subseteq {cp}
  BY DEF Init, CodePoints
<1>4. SeenInv /\ InfoInv /\ NothingMissed /\ NothingLeft /\ LastTorn
  BY <1>3 DEF Init, SeenInv, InfoInv, NothingMissed, NothingLeft, LastTorn
<1>5. TextsInv
  BY DEF Init, TextsInv, Taken
<1> QED
  BY <1>2, <1>4, <1>5 DEF IInv, Init

LEMMA HeaderStep == IInv /\ (ReadHeader \/ HeaderTorn \/ Refused) => IInv'
<1> SUFFICES ASSUME IInv, ReadHeader \/ HeaderTorn \/ Refused PROVE IInv'
  OBVIOUS
<1> USE DEF IInv
<1>1. Header(reader) \in {24, 40}
  BY HeaderSize DEF TypeOK
<1>0. TextsInv'
  BY TextsKept DEF ReadHeader, HeaderTorn, Refused, Throws, reply, copying
<1>2. CASE ReadHeader
  <2> USE <1>2 DEF ReadHeader, reply, copying
  <2>1. TypeOK' /\ ReplyInv' /\ SeenInv'
    BY <1>1 DEF TypeOK, ReplyInv, SeenInv
  <2>2. InfoInv' /\ NothingMissed' /\ NothingLeft' /\ LastTorn'
    BY DEF InfoInv, NothingMissed, NothingLeft, LastTorn, SeenInv
  <2>3. LoopInv'
    BY <1>1 DEF LoopInv, TypeOK, ReplyInv, Ahead, Behind, Header
  <2> QED
    BY <1>0, <2>1, <2>2, <2>3
<1>3. CASE HeaderTorn
  <2> USE <1>3 DEF HeaderTorn, Throws, reply, copying
  <2>1. TypeOK' /\ ReplyInv' /\ SeenInv'
    BY <1>1 DEF TypeOK, ReplyInv, SeenInv
  <2>2. InfoInv'
    BY <1>1 DEF InfoInv, ReplyInv, Whole, TypeOK
  <2>3. NothingMissed' /\ NothingLeft' /\ LastTorn'
    BY DEF NothingMissed, NothingLeft, LastTorn, SeenInv
  <2> QED
    BY <1>0, <2>1, <2>2, <2>3
<1>4. CASE Refused
  <2> USE <1>4 DEF Refused, Throws, reply, copying
  <2>1. TypeOK' /\ ReplyInv' /\ SeenInv'
    BY <1>1 DEF TypeOK, ReplyInv, SeenInv
  <2>2. InfoInv' /\ NothingMissed' /\ NothingLeft' /\ LastTorn'
    BY DEF InfoInv, InfoReaders, NothingMissed, NothingLeft, LastTorn,
           SeenInv
  <2> QED
    BY <1>0, <2>1, <2>2
<1> QED
  BY <1>2, <1>3, <1>4

\* What an action that throws keeps, if getInfo() has a reason for it.
LEMMA ThrowInv ==
  ASSUME IInv, NEW error, Throws(error),
         read' \in Nat,
         error \in {"RangeError", "TypeError", "ReferenceError",
                    "ServerError", "FormatError"},
         reader \in InfoReaders =>
           error = "RangeError" /\ (Whole => padding # 0)
  PROVE  IInv'
<1> USE DEF IInv, Throws, reply, copying
<1>1. TypeOK' /\ ReplyInv' /\ SeenInv'
  BY DEF TypeOK, ReplyInv, SeenInv
<1>2. InfoInv'
  BY DEF InfoInv, Whole
<1>3. NothingMissed' /\ NothingLeft' /\ LastTorn'
  BY DEF NothingMissed, NothingLeft, LastTorn, SeenInv
<1>4. TextsInv'
  BY TextsKept
<1> QED
  BY <1>1, <1>2, <1>3, <1>4

LEMMA TornStep == IInv /\ ParameterTorn => IInv'
<1> SUFFICES ASSUME IInv, ParameterTorn PROVE IInv'
  OBVIOUS
<1> USE DEF IInv, ParameterTorn
<1>1. read' \in Nat
  BY DEF TypeOK
<1>2. ASSUME reader \in InfoReaders, Whole PROVE padding # 0
  BY <1>2, LoopTable DEF LoopInv, TypeOK, Available, Whole, Ahead, Behind,
     InfoReaders
<1> QED
  BY <1>1, <1>2, ThrowInv

\* Facts about the next parameter of the reply.
LEMMA ParameterFacts ==
  ASSUME IInv, NEW cp \in Known(reader) \cup {"other"}, NEW ll \in Lengths(cp),
         Parameter(cp, ll)
  PROVE  /\ cp \in CodePoints
         /\ ll \in Nat /\ ll >= 6 /\ Numbers(cp) \in Nat
         /\ ~Unexpected(cp, ll) => ll >= 6 + Numbers(cp)
         /\ read + ll = length \/ read + ll + 6 <= length
         /\ read + 6 <= have
         /\ LoopInv
<1> USE DEF IInv, Parameter
<1>1. cp \in CodePoints
  BY KnownCodePoints DEF TypeOK
<1>2. /\ Numbers(cp) \in Nat /\ MinLength(cp) \in Nat
      /\ MinLength(cp) >= 6
      /\ cp # "attributes" => MinLength(cp) >= 6 + Numbers(cp)
  BY <1>1, NumbersNat, Lengths6
<1>3. ll \in Int
  <2>1. /\ length - read \in Int /\ BlockLength - 1 \in Int
        /\ \A x \in Extras : MinLength(cp) + x \in Int /\ BlockLength + x \in Int
    BY <1>2, SizesAssumption DEF TypeOK, BlockLength
  <2> QED  BY <2>1 DEF Lengths
<1>4. LoopInv /\ read + 6 <= have
  BY DEF Available
<1>5. ASSUME cp = "attributes", ~Unexpected(cp, ll) PROVE ll >= 6 + Numbers(cp)
  <2>1. reader = "attributes" /\ Numbers(cp) = 25
    BY <1>5 DEF Known, InfoReaders, Readers, TypeOK, Numbers
  <2> QED  BY <1>3, <1>5, <2>1 DEF Unexpected, BlockLength
<1> QED
  BY <1>1, <1>2, <1>3, <1>4, <1>5

LEMMA BadParameterStep ==
  ASSUME IInv, NEW cp \in Known(reader) \cup {"other"}, NEW ll \in Lengths(cp),
         \/ NumbersTorn(cp, ll) \/ UnexpectedParameter(cp, ll)
         \/ cp = "SQLCA" /\ BadSQLCA(ll)
  PROVE  IInv'
<1>1. CASE NumbersTorn(cp, ll)
  <2> USE <1>1 DEF NumbersTorn
  <2>1. ll \in Nat /\ ll >= 6 + Numbers(cp) /\ Numbers(cp) \in Nat
        /\ read + ll <= length
    BY ParameterFacts DEF IInv, TypeOK
  <2>2. ~Whole /\ read' \in Nat
    BY <2>1 DEF Available, Whole, IInv, TypeOK
  <2> QED
    BY <2>2, ThrowInv
<1>2. CASE UnexpectedParameter(cp, ll)
  <2> USE <1>2 DEF UnexpectedParameter
  <2>1. read' \in Nat /\ reader \notin InfoReaders
    BY DEF IInv, TypeOK, InfoReaders, Unexpected
  <2> QED
    BY <2>1, ThrowInv
<1>3. CASE cp = "SQLCA" /\ BadSQLCA(ll)
  <2> USE <1>3 DEF BadSQLCA
  <2>1. read' \in Nat
    BY ParameterFacts DEF IInv, TypeOK
  <2>2. reader \notin InfoReaders
    BY DEF InfoReaders, Known
  <2> QED
    BY <2>1, <2>2, ThrowInv
<1> QED
  BY <1>1, <1>2, <1>3

LEMMA ParameterStep ==
  ASSUME IInv, NEW cp \in Known(reader) \cup {"other"}, NEW ll \in Lengths(cp),
         ReadParameter(cp, ll)
  PROVE  IInv'
<1> USE DEF IInv
<1>1. /\ cp \in CodePoints
      /\ ll \in Nat /\ ll >= 6 + Numbers(cp) /\ Numbers(cp) \in Nat
      /\ read + ll = length \/ read + ll + 6 <= length
      /\ read + 6 <= have
      /\ LoopInv
  BY ParameterFacts DEF ReadParameter, Unexpected
<1>2. torn = {}
  BY <1>1 DEF LoopInv, TypeOK
<1>3. torn' = {} \/ (torn' = {cp} /\ read' > have')
  BY <1>1, <1>2 DEF ReadParameter, Available, reply, TypeOK
<1>4. /\ outcome = "parameters" /\ outcome' = outcome
      /\ read' = read + ll /\ seen' = seen \cup {cp}
      /\ cp = "other" \/ cp \notin seen
      /\ reader' = reader /\ accepted' = accepted
      /\ length' = length /\ have' = have
      /\ unparsed' = unparsed /\ block' = block /\ texts' = texts
      /\ reader # "attributes"
  BY DEF ReadParameter, Parameter, reply, copying
<1>5. /\ count' = count + Counted(reader, cp, ll)
      /\ padding' = IF cp \in FixedSize THEN padding + ll - 6 - Numbers(cp)
                    ELSE padding
  BY DEF ReadParameter
<1>6. TypeOK' /\ ReplyInv'
  <2>1. count' \in Nat /\ padding' \in Nat
    BY <1>1, <1>5 DEF TypeOK, Counted
  <2> QED
    BY <1>1, <1>3, <1>4, <2>1 DEF TypeOK, ReplyInv
<1>7. SeenInv'
  <2>1. reader \in {"signonInfo", "attributes"} => torn' = {}
    BY <1>2 DEF ReadParameter, Copies, Known, FixedSize, InfoReaders
  <2>2. \E c \in CodePoints' : torn' \subseteq {c}
    BY <1>1, <1>3 DEF CodePoints
  <2> QED
    BY <1>4, <2>1, <2>2 DEF SeenInv
<1>8. InfoInv' /\ NothingMissed' /\ NothingLeft' /\ LastTorn'
  BY <1>4, <1>7 DEF InfoInv, NothingMissed, NothingLeft, LastTorn, SeenInv
<1>9. LoopInv'
  <2>1. count' = read' + Ahead' - Behind'
    <3>1. count = read + Ahead - Behind
      BY <1>1 DEF LoopInv
    <3>0. /\ count \in Int /\ read \in Int /\ padding \in Int
          /\ ll \in Int /\ Numbers(cp) \in Int
      BY <1>1 DEF TypeOK
    <3>2. CASE reader \in InfoReaders
      <4>1. /\ reader # "startServer"
            /\ Ahead = 0 /\ Ahead' = 0
            /\ Behind = padding /\ Behind' = padding'
        BY ONLY <1>4, <3>2 DEF Ahead, Behind, InfoReaders
      <4>2. CASE cp \in FixedSize
        <5>1. Counted(reader, cp, ll) = 6 + Numbers(cp)
          BY ONLY <3>2, <4>2 DEF Counted
        <5> QED  BY ONLY <1>4, <1>5, <3>0, <3>1, <4>1, <4>2, <5>1
      <4>3. CASE cp \notin FixedSize
        <5>1. Counted(reader, cp, ll) = ll
          BY ONLY <4>1, <4>3 DEF Counted
        <5> QED  BY ONLY <1>4, <1>5, <3>0, <3>1, <4>1, <4>3, <5>1
      <4> QED  BY <4>2, <4>3
    <3>3. CASE reader = "startServer"
      <4>1. /\ Behind = 0 /\ Behind' = 0
            /\ cp = "jobName" => Ahead = 0 /\ Ahead' = 4
            /\ cp # "jobName" => Ahead' = Ahead /\ Ahead \in Int
        BY ONLY <1>4, <3>3 DEF Ahead, Behind, InfoReaders
      <4>2. Counted(reader, cp, ll) = IF cp = "jobName" THEN ll + 4 ELSE ll
        BY ONLY <3>3 DEF Counted, InfoReaders
      <4> QED  BY ONLY <1>4, <1>5, <3>0, <3>1, <4>1, <4>2
    <3>4. CASE reader \notin InfoReaders \cup {"startServer"}
      <4>1. Ahead = 0 /\ Ahead' = 0 /\ Behind = 0 /\ Behind' = 0
        BY ONLY <1>4, <3>4 DEF Ahead, Behind
      <4>2. Counted(reader, cp, ll) = ll
        BY ONLY <3>4 DEF Counted
      <4> QED  BY ONLY <1>4, <1>5, <3>0, <3>1, <4>1, <4>2
    <3> QED
      BY <3>2, <3>3, <3>4
  <2>3. Header(reader) <= read' /\ Header(reader) \in {24, 40}
    BY <1>1, <1>4, HeaderSize DEF LoopInv, TypeOK
  <2> QED
    BY <1>1, <1>3, <1>4, <2>1, <2>3 DEF LoopInv, TypeOK, Header
<1>10. TextsInv'
  BY <1>4, TextsKept
<1> QED
  BY <1>4, <1>6, <1>7, <1>8, <1>9, <1>10

\* From the numbers to the texts.
LEMMA BeginTextsStep ==
  ASSUME IInv, NEW ll \in Lengths("attributes"), BeginTexts(ll)
  PROVE  IInv'
<1> USE DEF IInv
<1>1. /\ ll \in Nat /\ (read + ll = length \/ read + ll + 6 <= length)
      /\ LoopInv /\ outcome = "parameters" /\ reader = "attributes"
      /\ "attributes" \notin seen /\ BlockLength <= ll
      /\ read + 31 <= have
  <2>1. "attributes" \in Known(reader) \cup {"other"}
    BY DEF BeginTexts, Parameter, Known
  <2>2. Parameter("attributes", ll)
    BY DEF BeginTexts
  <2>3. ll \in Nat /\ (read + ll = length \/ read + ll + 6 <= length) /\ LoopInv
    BY <2>1, <2>2, ParameterFacts
  <2>4. Numbers("attributes") = 25
    BY DEF Numbers
  <2> QED
    BY <2>2, <2>3, <2>4
       DEF BeginTexts, Parameter, Unexpected, BlockLength, Available, TypeOK
<1>2. /\ seen = {} /\ read = 40 /\ count = 40 /\ torn = {}
  BY <1>1 DEF LoopInv, Ahead, Behind, InfoReaders, SeenInv, TypeOK
<1>3. /\ outcome' = "texts" /\ read' = 71 /\ block' = ll /\ texts' = <<>>
      /\ UNCHANGED <<reply, count, seen, torn, padding, unparsed>>
  BY <1>2 DEF BeginTexts, Numbers
<1>4. TypeOK' /\ ReplyInv' /\ SeenInv'
  <2>1. texts' \in Seq(TextBuffers) /\ read' \in Nat
    BY <1>3, EmptySeq
  <2> QED  BY <1>1, <1>3, <2>1 DEF TypeOK, ReplyInv, SeenInv, reply
<1>5. InfoInv' /\ NothingMissed' /\ NothingLeft' /\ LastTorn'
  BY <1>1, <1>3 DEF InfoInv, NothingMissed, NothingLeft, LastTorn, reply,
                    InfoReaders
<1>6. TextsInv' /\ Taken' = 0
  BY <1>3 DEF TextsInv, Taken
<1>7. BlockInv'
  <2>1. read' = 40 + TextPlaces[Taken' + 1]
    BY <1>3, <1>6, TextTable
  <2> QED  BY <1>1, <1>2, <1>3, <2>1 DEF BlockInv, reply
<1> QED
  BY <1>3, <1>4, <1>5, <1>6, <1>7

\* The buffer is that of the last text.
LEMMA BufferHeld ==
  ASSUME TypeOK, TextsInv, NEW i \in 1 .. 32
  PROVE  /\ Buffer \in TextBuffers
         /\ texts = <<>> => Buffer[i] = 0
         /\ texts # <<>> =>
              /\ Taken \in 1 .. 8 /\ Buffer[i] = texts[Taken][i]
              /\ Held(Taken, i)
<1>1. CASE texts = <<>>
  BY <1>1 DEF Buffer, TextBuffers
<1>2. CASE texts # <<>>
  <2>1. Taken \in 1 .. 8 /\ texts[Taken] \in TextBuffers /\ Held(Taken, i)
    <3>1. Taken \in 1 .. 8 /\ Taken \in 1 .. Taken
      BY <1>2, TextsType
    <3> QED  BY <3>1, TextsType DEF TextsInv
  <2>2. Buffer = texts[Taken]
    BY <1>2 DEF Buffer, Taken
  <2> QED  BY <1>2, <2>1, <2>2
<1> QED  BY <1>1, <1>2

LEMMA CopyTextStep == IInv /\ CopyText => IInv'
<1> SUFFICES ASSUME IInv, CopyText PROVE IInv'
  OBVIOUS
<1> USE DEF IInv
<1>0. PICK n \in 1 .. 8 : n = Taken + 1 /\ Taken \in 0 .. 7
  <2>1. Taken \in 0 .. 8
    BY TextsType
  <2>2. Taken < 8
    BY TextTable DEF CopyText, Taken
  <2>3. Taken + 1 \in 1 .. 8 /\ Taken \in 0 .. 7
    BY <2>1, <2>2
  <2> QED  BY <2>3
<1> DEFINE copied == [i \in 1 .. 32 |->
                         IF i <= TextWidths[n] /\ Available(i) THEN read + i
                                                              ELSE Buffer[i]]
<1>1. /\ texts \in Seq(TextBuffers) /\ n \in 1 .. 8 /\ BlockInv
      /\ Taken \in 0 .. 7 /\ TextWidths[n] \in 1 .. 32
  <2>1. texts \in Seq(TextBuffers) /\ BlockInv
    BY TextsType DEF CopyText
  <2>2. TextWidths[n] \in 1 .. 32
    BY TextTable
  <2> QED  BY <1>0, <2>1, <2>2
<1>2. /\ texts' = Append(texts, copied) /\ read' = read + TextWidths[n]
      /\ outcome = "texts"
      /\ UNCHANGED <<reply, outcome, count, seen, torn, padding, unparsed, block>>
  BY <1>0 DEF CopyText, Taken
<1>3. read \in Nat /\ have \in Nat /\ read = Place(n, 0) /\ TextPlaces[n] \in Nat
      /\ \A i : Place(n, i) = 40 + TextPlaces[n] + i
  <2>1. TextPlaces[n] \in Nat
    BY <1>1, TextTable
  <2>2. read = 40 + TextPlaces[n] /\ have \in Nat
    BY <1>0, <1>1 DEF BlockInv, TypeOK
  <2> QED  BY <2>1, <2>2, PlaceIs
<1>4. copied \in TextBuffers
  <2> SUFFICES ASSUME NEW i \in 1 .. 32 PROVE copied[i] \in Nat
    BY DEF TextBuffers
  <2>1. Buffer[i] \in Nat
    BY BufferHeld DEF TextBuffers
  <2> QED  BY <1>3, <2>1
<1> HIDE DEF copied
<1>5. /\ texts' \in Seq(TextBuffers) /\ Taken' = n
      /\ texts'[n] = copied
      /\ \A k \in 1 .. Taken : texts'[k] = texts[k]
  BY <1>0, <1>1, <1>2, <1>4, AppendProperties DEF Taken
<1>6. TypeOK' /\ ReplyInv' /\ SeenInv'
  <2>1. read' \in Nat
    <3>1. read \in Nat /\ TextWidths[n] \in 1 .. 32
      BY <1>1, <1>3
    <3>2. read' = read + TextWidths[n]
      BY <1>2
    <3> QED  BY ONLY <3>1, <3>2
  <2> QED  BY <1>2, <1>5, <2>1 DEF TypeOK, ReplyInv, SeenInv, reply
<1>7. InfoInv' /\ NothingMissed' /\ NothingLeft' /\ LastTorn'
  BY <1>1, <1>2 DEF InfoInv, NothingMissed, NothingLeft, LastTorn, reply,
                    BlockInv, InfoReaders
<1>8. BlockInv'
  <2>1. read' = 40 + TextPlaces[n + 1]
    <3>1. TextPlaces[n + 1] = TextPlaces[n] + TextWidths[n]
      BY <1>1, TextTable
    <3>2. read = 40 + TextPlaces[n]
      BY <1>0, <1>1 DEF BlockInv
    <3>3. read' = read + TextWidths[n]
      BY <1>2
    <3>4. TextPlaces[n] \in Nat /\ TextWidths[n] \in 1 .. 32
      BY TextTable
    <3> QED  BY ONLY <3>1, <3>2, <3>3, <3>4
  <2> QED  BY <1>1, <1>2, <1>5, <2>1 DEF BlockInv, reply
<1>9. \A k, i : Arrived(k, i)' <=> Arrived(k, i)
  BY <1>2 DEF Arrived, Place, reply
<1>10. ASSUME NEW k \in 1 .. Taken, NEW i \in 1 .. 32 PROVE Held(k, i)'
  <2>1. Held(k, i) /\ texts'[k] = texts[k]
    BY <1>5 DEF TextsInv
  <2> QED  BY <1>9, <2>1 DEF Held, Place
<1>11. ASSUME NEW i \in 1 .. 32 PROVE Held(n, i)'
  <2>1. Arrived(n, i) <=> i <= TextWidths[n] /\ Available(i)
    BY <1>1, <1>3 DEF Arrived, Available
  <2>2. CASE Arrived(n, i)
    <3>1. texts'[n][i] = Place(n, i)
      BY <1>1, <1>3, <1>5, <2>1, <2>2 DEF copied
    <3>2. n \in 1 .. n /\ \A later \in n + 1 .. n : FALSE
      BY <1>1
    <3>3. texts'[n][i] = Place(n, i)'
      BY <3>1 DEF Place
    <3> QED  BY <1>9, <2>2, <3>2, <3>3 DEF Held
  <2>3. CASE ~Arrived(n, i)
    <3>1. texts'[n][i] = Buffer[i]
      BY <1>5, <2>1, <2>3 DEF copied
    <3>2. CASE texts = <<>>
      <4>1. n = 1 /\ Buffer[i] = 0
        <5>1. Taken = 0
          BY <3>2, TextsType
        <5>2. n = 1
          BY <1>0, <5>1
        <5>3. Buffer[i] = 0
          BY <3>2, BufferHeld
        <5> QED  BY <5>2, <5>3
      <4>2. \A j \in 1 .. n : ~Arrived(j, i)'
        <5>1. \A j \in 1 .. n : j = n
          BY <4>1
        <5> QED  BY <1>9, <2>3, <5>1
      <4> QED  BY <3>1, <4>1, <4>2 DEF Held
    <3>3. CASE texts # <<>>
      <4>1. Buffer[i] = texts[Taken][i] /\ Held(Taken, i)
        BY <3>3, BufferHeld
      <4>2. CASE texts[Taken][i] = 0 /\ \A j \in 1 .. Taken : ~Arrived(j, i)
        <5>1. \A j \in 1 .. n : j \in 1 .. Taken \/ j = n
          BY <1>0
        <5>2. \A j \in 1 .. n : ~Arrived(j, i)'
          BY <1>9, <2>3, <4>2, <5>1
        <5> QED  BY <3>1, <4>1, <4>2, <5>2 DEF Held
      <4>3. CASE \E j \in 1 .. Taken :
                   /\ Arrived(j, i)
                   /\ \A later \in j + 1 .. Taken : ~Arrived(later, i)
                   /\ texts[Taken][i] = Place(j, i)
        <5>1. PICK j \in 1 .. Taken :
                /\ Arrived(j, i)
                /\ \A later \in j + 1 .. Taken : ~Arrived(later, i)
                /\ texts[Taken][i] = Place(j, i)
          BY <4>3
        <5>2. \A later \in j + 1 .. n : later \in j + 1 .. Taken \/ later = n
          BY <1>0
        <5>3. \A later \in j + 1 .. n : ~Arrived(later, i)'
          BY <1>9, <2>3, <5>1, <5>2
        <5>4. j \in 1 .. n /\ texts'[n][i] = Place(j, i)'
          BY <1>0, <3>1, <4>1, <5>1 DEF Place
        <5> QED  BY <1>9, <5>1, <5>3, <5>4 DEF Held
      <4> QED  BY <4>1, <4>2, <4>3 DEF Held
    <3> QED  BY <3>2, <3>3
  <2> QED  BY <2>2, <2>3
<1>12. TextsInv'
  <2>1. n <= 8
    BY <1>1
  <2>2. (40 + BlockLength <= length)'
    BY <1>1, <1>2 DEF BlockInv, BlockLength, TypeOK, reply
  <2>3. ASSUME NEW k \in 1 .. n, NEW i \in 1 .. 32 PROVE Held(k, i)'
    <3>1. k \in 1 .. Taken \/ k = n
      BY <1>0
    <3> QED  BY <3>1, <1>10, <1>11
  <2> QED  BY <1>5, <2>1, <2>2, <2>3 DEF TextsInv
<1> QED
  BY <1>2, <1>6, <1>7, <1>8, <1>12

LEMMA EndTextsStep == IInv /\ EndTexts => IInv'
<1> SUFFICES ASSUME IInv, EndTexts PROVE IInv'
  OBVIOUS
<1> USE DEF IInv
<1>1. BlockInv /\ Taken = 8
  BY TextTable DEF EndTexts, Taken
<1>2. /\ read = 162 /\ block \in Nat /\ block >= 122 /\ have \in Nat
      /\ length \in Nat
  BY <1>1, TextTable DEF BlockInv, BlockLength, TypeOK
<1>3. /\ outcome' = "parameters" /\ read' = 40 + block /\ count' = 40 + block
      /\ seen' = {"attributes"} /\ outcome = "texts"
      /\ UNCHANGED <<reply, torn, padding, unparsed, copying>>
  BY <1>1, <1>2 DEF EndTexts, SkipBytes, Counted, InfoReaders, BlockInv,
                    BlockLength
<1>4. TypeOK' /\ ReplyInv' /\ SeenInv'
  BY <1>1, <1>2, <1>3
     DEF TypeOK, ReplyInv, SeenInv, BlockInv, reply, copying, Known, CodePoints,
         Readers
<1>5. InfoInv' /\ NothingMissed' /\ NothingLeft' /\ LastTorn'
  BY <1>1, <1>3 DEF InfoInv, NothingMissed, NothingLeft, LastTorn, reply,
                    BlockInv, InfoReaders
<1>6. LoopInv'
  BY <1>1, <1>2, <1>3 DEF LoopInv, BlockInv, reply, Header, Ahead, Behind,
                          InfoReaders, ReplyInv
<1>7. TextsInv'
  BY <1>3, TextsKept DEF reply, copying
<1> QED
  BY <1>3, <1>4, <1>5, <1>6, <1>7

\* What follows the loop, reader by reader.
LEMMA FinishTable ==
  ASSUME IInv, Finish
  PROVE  /\ reader \in InfoReaders =>
              read = length /\ count = length /\ padding = 0
         /\ reader = "signonInfo" =>
              /\ count = read
              /\ read = length \/ "CCSID" \in seen
         /\ reader = "startServer" =>
              /\ count = read + Ahead /\ length - count <= 10
         /\ reader = "attributes" =>
              /\ count = read
              /\ "attributes" \in seen \/ length <= 46
<1> USE DEF IInv, Finish
<1>1. LoopInv /\ ~Continues
  OBVIOUS
<1>2. CASE reader \in InfoReaders
  <2>1. count = read - padding /\ ~(count < length)
    BY <1>1, <1>2, LoopTable DEF LoopInv, Ahead, Behind, InfoReaders, TypeOK
  <2>2. read \in Nat /\ length \in Nat /\ padding \in Nat /\ read <= length
    BY <1>1 DEF LoopInv, TypeOK
  <2>3. read = length /\ count = length /\ padding = 0
    BY ONLY <2>1, <2>2
  <2> QED
    BY <1>2, <2>3 DEF InfoReaders
<1>3. CASE reader = "signonInfo"
  BY <1>1, <1>3, LoopTable DEF LoopInv, Ahead, Behind, InfoReaders, TypeOK
<1>4. CASE reader = "startServer"
  BY <1>1, <1>4, LoopTable DEF LoopInv, Ahead, Behind, InfoReaders, TypeOK
<1>5. CASE reader = "attributes"
  BY <1>1, <1>5, LoopTable DEF LoopInv, Ahead, Behind, InfoReaders, TypeOK
<1> QED
  BY <1>2, <1>3, <1>4, <1>5 DEF InfoReaders

\* The last skipBytes().
LEMMA LastSkip ==
  ASSUME IInv, Finish, reader # "error"
  PROVE  /\ read' \in Nat /\ unparsed' \in Int
         /\ unparsed' = length - read /\ read <= length
         /\ torn # {} => read' > have
         /\ Whole => Leftover' =
              IF Ahead = 4 /\ unparsed' > 0 THEN 4 ELSE 0
<1> USE DEF IInv, Finish, reply
<1>1. /\ LoopInv
      /\ read' = SkipBytes(read, length - count)
      /\ unparsed' = length - read
      /\ have' = have /\ length' = length
  OBVIOUS
<1>2. /\ count = read + Ahead /\ Ahead \in {0, 4}
      /\ read \in Nat /\ length \in Nat /\ have \in Nat /\ read <= length
      /\ have <= length
      /\ read = length \/ read + 6 <= length
      /\ torn = {} \/ read > have
  BY <1>1, FinishTable DEF LoopInv, TypeOK, Readers, Ahead, InfoReaders,
                           ReplyInv
<1>3. read' \in Nat
  BY <1>1, <1>2 DEF SkipBytes
<1>4. torn # {} => read' > have
  BY <1>1, <1>2 DEF SkipBytes
<1>5. Whole => Leftover' = IF Ahead = 4 /\ unparsed' > 0 THEN 4 ELSE 0
  BY <1>1, <1>2 DEF SkipBytes, Leftover, Whole
<1> QED
  BY <1>1, <1>2, <1>3, <1>4, <1>5

LEMMA FinishStep == IInv /\ Finish => IInv'
<1> SUFFICES ASSUME IInv, Finish PROVE IInv'
  OBVIOUS
<1> USE DEF IInv
<1>1. /\ outcome' = IF reader = "error" THEN "ServerError" ELSE "resolved"
      /\ reader' = reader /\ accepted' = accepted /\ length' = length
      /\ have' = have /\ seen' = seen /\ torn' = torn /\ padding' = padding
      /\ count' = count
      /\ unparsed' = length - read
      /\ block' = block /\ texts' = texts
      /\ LoopInv
  BY DEF Finish, reply, copying
<1>0. TextsInv'
  BY <1>1, TextsKept
<1>2. TypeOK' /\ ReplyInv' /\ SeenInv'
  <2>1. read' \in Nat
    <3>1. CASE reader = "error"
      <4>1. count = read
        BY <1>1, <3>1 DEF LoopInv, Ahead, Behind, InfoReaders, TypeOK
      <4> QED
        BY <1>1, <4>1 DEF Finish, SkipBytes, LoopInv, TypeOK
    <3> QED
      BY <3>1, LastSkip
  <2> QED
    BY <1>1, <2>1 DEF TypeOK, ReplyInv, SeenInv
<1>3. CASE reader = "error"
  BY <1>0, <1>1, <1>2, <1>3 DEF InfoInv, InfoReaders, NothingMissed,
                              NothingLeft, LastTorn, SeenInv
<1>4. CASE reader # "error"
  <2>1. outcome' = "resolved"
    BY <1>1, <1>4
  <2>2. InfoInv'
    BY <1>1, <2>1, FinishTable DEF InfoInv
  <2>3. NothingMissed'
    BY <1>1, <1>4, FinishTable DEF NothingMissed, Ahead, TypeOK, Readers,
       InfoReaders, LoopInv, Header
  <2>4. NothingLeft'
    BY <1>1, <1>4, LastSkip DEF NothingLeft, Whole, Ahead
  <2>5. LastTorn'
    <3>1. \E cp \in CodePoints : torn' \subseteq {cp}
      BY <1>1 DEF SeenInv
    <3>2. ASSUME torn' # {}
          PROVE  /\ ~Whole' /\ Leftover' = 0
                 /\ \/ unparsed' <= 0
                    \/ reader' = "startServer" /\ unparsed' <= 14
      <4> torn # {}
        BY <1>1, <3>2
      <4>1. /\ read' > have' /\ read > have /\ read <= length
            /\ read \in Nat /\ read' \in Nat
        <5>1. read' > have /\ read' \in Nat
          BY <1>4, LastSkip
        <5> QED
          BY <1>1, <5>1 DEF LoopInv, TypeOK
      <4>2. ~Whole' /\ Leftover' = 0
        <5>1. have' \in Nat /\ have' = have /\ length' = length
              /\ length \in Nat
          BY <1>1 DEF TypeOK
        <5>2. ~(have' > read') /\ have' # length'
          BY ONLY <4>1, <5>1
        <5> QED
          BY ONLY <5>2 DEF Whole, Leftover
      <4>3. reader \notin {"signonInfo", "attributes"}
        BY <1>1, <3>2 DEF SeenInv
      <4>4. \/ unparsed' <= 0
            \/ reader' = "startServer" /\ unparsed' <= 14
        BY <1>1, <1>4, <4>3, FinishTable DEF Ahead, TypeOK, Readers,
           InfoReaders
      <4> QED
        BY <4>2, <4>4
    <3> QED
      BY <3>1, <3>2 DEF LastTorn
  <2> QED
    BY <1>0, <1>1, <1>2, <2>1, <2>2, <2>3, <2>4, <2>5
<1> QED
  BY <1>3, <1>4

LEMMA Inductive == IInv /\ [Next]_vars => IInv'
<1> SUFFICES ASSUME IInv, [Next]_vars PROVE IInv'
  OBVIOUS
<1>1. CASE ReadHeader \/ HeaderTorn \/ Refused
  BY <1>1, HeaderStep
<1>2. CASE ParameterTorn
  BY <1>2, TornStep
<1>3. CASE ReadOne
  BY <1>3, BadParameterStep, ParameterStep, BeginTextsStep DEF ReadOne
<1>4. CASE Finish
  BY <1>4, FinishStep
<1>5. CASE UNCHANGED vars
  <2>1. TextsInv'
    BY <1>5, TextsKept DEF IInv, vars, reply, copying
  <2>2. (BlockInv => BlockInv') /\ (LoopInv => LoopInv')
    BY <1>5 DEF vars, reply, progress, copying, BlockInv, LoopInv, Ahead,
                Behind, Taken
  <2>3. (TypeOK /\ ReplyInv /\ SeenInv /\ InfoInv)'
    BY <1>5 DEF vars, reply, progress, copying, IInv, TypeOK, ReplyInv, SeenInv,
                InfoInv, Whole
  <2>4. (NothingMissed /\ NothingLeft /\ LastTorn)'
    BY <1>5 DEF vars, reply, progress, IInv, NothingMissed, NothingLeft,
                LastTorn, Whole, Leftover
  <2> QED
    BY <1>5, <2>1, <2>2, <2>3, <2>4 DEF vars, reply, progress, IInv
<1>6. CASE CopyText
  BY <1>6, CopyTextStep
<1>7. CASE EndTexts
  BY <1>7, EndTextsStep
<1> QED
  BY <1>1, <1>2, <1>3, <1>4, <1>5, <1>6, <1>7 DEF Next

LEMMA Invariance == Spec => []IInv
  BY InitInv, Inductive, PTL DEF Spec

-----------------------------------------------------------------------------
\* Every variable of the model keeps its type, for replies of any size.
THEOREM TypeCorrect == Spec => []TypeOK
<1>1. IInv => TypeOK
  BY DEF IInv
<1> QED
  BY <1>1, Invariance, PTL

\* No reader that resolves has passed over a parameter it looks for, for
\* replies of any size with their parameters in any order.
THEOREM NothingIsMissed == Spec => []NothingMissed
<1>1. IInv => NothingMissed
  BY DEF IInv
<1> QED
  BY <1>1, Invariance, PTL

\* A reader that resolves has consumed the whole reply, up to the four bytes
\* of initialConnect().
THEOREM NothingIsLeft == Spec => []NothingLeft
<1>1. IInv => NothingLeft
  BY DEF IInv
<1> QED
  BY <1>1, Invariance, PTL

\* getInfo() takes a whole reply exactly if it has no padding: otherwise its
\* count stays behind, and it reads past the end.
THEOREM PaddingAlwaysRejects == Spec => []PaddingRejects
<1>1. IInv => PaddingRejects
  <2> SUFFICES ASSUME IInv, reader \in InfoReaders, accepted, Whole, Settled
               PROVE  outcome = "resolved" <=> padding = 0
    BY DEF PaddingRejects
  <2> QED
    BY DEF IInv, InfoInv, Settled, TypeOK
<1> QED
  BY <1>1, Invariance, PTL

\* What a byte holds has arrived, and is no byte behind it.
LEMMA HeldHasArrived ==
  ASSUME IInv, NEW k \in 1 .. Taken, NEW i \in 1 .. TextWidths[k]
  PROVE  /\ k \in 1 .. 8 /\ i \in 1 .. 32 /\ Place(k, i) \in Nat
         /\ texts[k][i] <= have /\ texts[k][i] \in Nat
         /\ Place(k, i) <= have => texts[k][i] = Place(k, i)
<1>0. /\ k \in 1 .. 8 /\ texts[k] \in TextBuffers /\ have \in Nat
  BY TextsType DEF IInv
<1>1. k \in 1 .. 8 /\ i \in 1 .. 32 /\ Place(k, i) \in Nat
  <2>1. TextWidths[k] \in 1 .. 32 /\ TextPlaces[k] \in Nat
    BY <1>0, TextTable
  <2> QED  BY <1>0, <2>1, PlaceIs
<1>2. texts[k] \in TextBuffers /\ have \in Nat
  BY <1>0
<1>3. Held(k, i)
  BY <1>1 DEF IInv, TextsInv
<1>4. texts[k][i] <= have
  BY <1>2, <1>3 DEF Held, Arrived
<1>5. ASSUME Place(k, i) <= have PROVE texts[k][i] = Place(k, i)
  <2>1. Arrived(k, i)
    BY <1>1, <1>5 DEF Arrived
  <2>2. PICK j \in 1 .. k :
          /\ Arrived(j, i) /\ \A later \in j + 1 .. k : ~Arrived(later, i)
          /\ texts[k][i] = Place(j, i)
    BY <1>1, <1>3, <2>1 DEF Held
  <2>3. j = k
    BY <1>1, <2>1, <2>2
  <2> QED  BY <2>2, <2>3
<1> QED  BY <1>1, <1>2, <1>4, <1>5, TextsType DEF IInv, TextBuffers

\* The places of a text are behind those of the texts before it.
LEMMA PlacesFollow ==
  ASSUME NEW j \in 1 .. 8, NEW k \in 1 .. 8, j < k,
         NEW a \in 1 .. TextWidths[j], NEW b \in 1 .. TextWidths[k]
  PROVE  Place(j, a) < Place(k, b)
<1> DEFINE P(m) == TextPlaces[m] + TextWidths[m] <= TextPlaces[m + 1]
<1>1. /\ TextWidths[j] \in 1 .. 32 /\ TextWidths[k] \in 1 .. 32
      /\ TextPlaces[j] \in Nat /\ TextPlaces[k] \in Nat
      /\ TextPlaces[j] + TextWidths[j] <= TextPlaces[k]
  <2>1. \A m \in 1 .. 8 : /\ TextWidths[m] \in 1 .. 32 /\ TextPlaces[m] \in Nat
                          /\ TextPlaces[m + 1] = TextPlaces[m] + TextWidths[m]
    BY TextTable
  <2>2. TextPlaces[j + 1] <= TextPlaces[k]
    BY DEF TextPlaces
  <2> QED  BY <2>1, <2>2
<1> QED  BY <1>1 DEF Place, Header

LEMMA PlaceInBlock ==
  ASSUME NEW k \in 1 .. 8, NEW i \in 1 .. TextWidths[k]
  PROVE  Place(k, i) <= 40 + BlockLength
<1>1. /\ TextWidths[k] \in 1 .. 32 /\ TextPlaces[k] \in Nat
      /\ TextPlaces[k + 1] = TextPlaces[k] + TextWidths[k]
  BY TextTable
<1>2. TextPlaces[k + 1] <= BlockLength
  BY DEF TextPlaces, BlockLength
<1> QED  BY <1>1, <1>2, PlaceIs DEF BlockLength

\* However a reply is cut, what is whole was read before anything that is
\* torn: one value at most but for the texts of setServerAttributes(), of which
\* those behind a torn one have no byte of their own.
THEOREM OnlyTheLastIsTorn == Spec => []OnlyLastTorn
<1>1. IInv => OnlyLastTorn
  <2> SUFFICES ASSUME IInv, NEW j \in 1 .. Taken, NEW k \in 1 .. Taken,
                      j < k, IsTorn(j)
               PROVE  /\ ~Whole
                      /\ \A i \in 1 .. TextWidths[k] : texts[k][i] # Place(k, i)
    BY DEF OnlyLastTorn, IInv, SeenInv, LastTorn, Taken
  <2>1. PICK a \in 1 .. TextWidths[j] : texts[j][a] # Place(j, a)
    BY DEF IsTorn
  <2>2. have < Place(j, a) /\ Place(j, a) \in Nat /\ have \in Nat
    BY <2>1, HeldHasArrived, TextsType DEF IInv
  <2>3. ASSUME NEW i \in 1 .. TextWidths[k] PROVE texts[k][i] # Place(k, i)
    <3>1. Place(j, a) < Place(k, i)
      BY PlacesFollow, HeldHasArrived
    <3> QED  BY <2>2, <3>1, HeldHasArrived
  <2>4. ~Whole
    <3>1. Place(j, a) <= 162
      BY PlaceInBlock, HeldHasArrived DEF BlockLength
    <3>2. 162 <= length /\ length \in Nat
      BY TextsType DEF IInv
    <3> QED  BY <2>2, <3>1, <3>2 DEF Whole
  <2> QED  BY <2>3, <2>4
<1> QED
  BY <1>1, Invariance, PTL

\* Each byte of a text is its own, or else one of an earlier text that has
\* arrived, or zero, for replies of any size and wherever they are cut.
THEOREM TextsAlwaysInPlace == Spec => []TextsInPlace
<1>1. IInv => TextsInPlace
  <2> SUFFICES ASSUME IInv, NEW k \in 1 .. Taken, NEW i \in 1 .. TextWidths[k]
               PROVE  Held(k, i)
    BY DEF TextsInPlace, Held, Taken
  <2> QED  BY HeldHasArrived DEF IInv, TextsInv
<1> QED
  BY <1>1, Invariance, PTL

=============================================================================
