---------------------------- MODULE ReplyParsing ----------------------------
(***************************************************************************)
(* One reply, as one of the six readers of the client takes it apart.      *)
(*                                                                         *)
(* A reply is a header and parameters, each of which starts with its       *)
(* length ll and its code point.  A reader keeps a count of its own of the *)
(* bytes it has behind it, and loops as long as this count tells it to.    *)
(* What the buffer has lost is "read", and "count" is what the code        *)
(* believes: every case of a switch adds to it what it thinks it took.     *)
(*                                                                         *)
(* A reader runs without giving way, so that the buffer holds what had     *)
(* arrived when it was woken: the first "have" bytes of the reply.         *)
(* readInt(), readShort() and readSingle() throw where the buffer is       *)
(* short; skipBytes() and readFully() do not notice.                       *)
(*                                                                         *)
(* The parameters are chosen as they are read: any order, any length that  *)
(* leaves room for the rest, each code point that a reader knows at most   *)
(* once.  Text and numbers themselves are left out.                        *)
(*                                                                         *)
(* setServerAttributes() has one buffer for all the texts of its parameter *)
(* and never clears it.  What stands in a byte of it is therefore modelled *)
(* by the place in the reply it was copied from, 0 for none.               *)
(*                                                                         *)
(* A faulty form that nothing uses stands before some operators (see the   *)
(* "mutants" of PROJECT.json).                                             *)
(***************************************************************************)
EXTENDS Integers, Sequences

CONSTANTS
  Payloads,  \* bound: sizes of what follows the header of a reply
  Extras     \* bound: bytes a parameter may have beyond the least

\* A parameter has at least a length and a code point.
ASSUME SizesAssumption ==
  Payloads \subseteq {n \in Nat : n = 0 \/ n >= 6} /\ Extras \subseteq Nat

VARIABLES
  reader,    \* the loop that runs (fixed)
  accepted,  \* the return code of the reply is good (fixed)
  length,    \* length of the reply, which its header tells (fixed)
  have,      \* how much of it is in the buffer (fixed)
  outcome,   \* where the reader is, then how it ended
  read,      \* bytes taken off the buffer
  count,     \* the reader's own count of them
  seen,      \* code points read
  torn,      \* values that readFully() got only a part of (history)
  padding,   \* trailing bytes of parameters of fixed size (history)
  block,     \* length of the parameter that setServerAttributes() reads
  texts,     \* its buffer, as it is when each of the texts is taken from it
  unparsed   \* bytes that were left to the last skipBytes() (history)

reply == <<reader, accepted, length, have>>
progress == <<read, count, seen, torn, padding>>
copying == <<block, texts>>
vars == <<reply, outcome, progress, unparsed, copying>>

-----------------------------------------------------------------------------
(* Replies *)

Readers == {"getInfo", "getSeeds", "signonInfo", "startServer",
            "attributes", "error"}
InfoReaders == {"getInfo", "getSeeds"}   \* getInfo() without and with doSeeds

\* readReplyHeader() reads 40 bytes, the others 24.
Header(r) == IF r \in {"attributes", "error"} THEN 40 ELSE 24

\* The code points a reader tells apart; the others are "other".
Known(r) ==
  CASE r \in InfoReaders ->
         {"version", "level", "seed", "passwordLevel", "jobName"}
    [] r = "signonInfo" -> {"CCSID"}
    [] r = "startServer" -> {"jobName"}
    [] r = "attributes" -> {"attributes"}
    [] r = "error" -> {"messageID", "firstLevel", "secondLevel", "SQLCA"}
CodePoints == {"other"} \cup (UNION {Known(r) : r \in Readers})

\* Numbers that a case reads after length and code point.
Numbers(cp) ==
  CASE cp \in {"version", "CCSID", "firstLevel", "secondLevel"} -> 4
    [] cp \in {"level", "messageID"} -> 2
    [] cp = "passwordLevel" -> 1
    [] cp = "attributes" -> 25
    [] OTHER -> 0

\* Parameters that are numbers and nothing else, but may have bytes behind.
FixedSize == {"version", "level", "passwordLevel", "CCSID"}

\* The least length of a parameter.
MinLength(cp) ==
  CASE cp = "seed" -> 14
    [] cp = "jobName" -> 11
    [] cp = "SQLCA" -> 142
    [] cp = "attributes" -> 6
    [] OTHER -> 6 + Numbers(cp)

\* The least length of the parameter that setServerAttributes() goes on with,
\* and the texts in it, behind the numbers: how long they are, where they start
\* and where the last one ends.  This one is the job's name, user and number,
\* which are copied at once.
BlockLength == 122
TextWidthsShortName == <<3, 10, 10, 4, 10, 10, 10, 26>>
TextWidths == <<3, 10, 10, 4, 10, 18, 10, 26>>
TextPlaces == <<31, 34, 44, 54, 58, 68, 86, 96, 122>>

\* What may stand in the buffer of the texts.
TextBuffers == [1 .. 32 -> Nat]

\* Sizes of replies, with and without room for server attributes or a SQLCA.
Sizes(r) ==
  CASE r = "attributes" -> Payloads \cup {n + 116 : n \in Payloads}
    [] r = "error" -> Payloads \cup {n + 136 : n \in Payloads}
    [] OTHER -> Payloads

\* Does the reader copy bytes of the parameter with readFully()?
Copies(r, cp) ==
  /\ cp \notin FixedSize \cup {"other", "attributes"}
  /\ ~(r = "getInfo" /\ cp = "seed")

\* Has the buffer another n bytes?
Available(n) == read + n <= have
Leftover == IF have > read THEN have - read ELSE 0
Whole == have = length

\* skipBytes(n): a negative n keeps the last -n bytes of the buffer.
SkipBytesBack(from, n) == from - n
SkipBytes(from, n) ==
  IF n >= 0 THEN from + n ELSE IF from > have + n THEN from ELSE have + n

-----------------------------------------------------------------------------
(* The readers *)

Init ==
  /\ reader \in Readers
  /\ accepted \in BOOLEAN
  /\ reader = "error" => ~accepted
  /\ reader = "attributes" => accepted
  /\ length \in {Header(reader) + n : n \in Sizes(reader)}
  /\ have \in 1 .. length
  /\ outcome = "header"
  /\ read = 0 /\ count = 0
  /\ seen = {} /\ torn = {}
  /\ padding = 0
  /\ unparsed = 0
  /\ block = 0 /\ texts = <<>>

Throws(error) ==
  /\ outcome' = error
  /\ UNCHANGED <<reply, count, seen, torn, padding, unparsed, copying>>

ReadHeader ==
  /\ outcome = "header"
  /\ have >= Header(reader)
  /\ accepted \/ reader = "error"
  /\ outcome' = "parameters"
  /\ read' = Header(reader) /\ count' = Header(reader)
  /\ UNCHANGED <<reply, seen, torn, padding, unparsed, copying>>

HeaderTorn ==
  /\ outcome = "header"
  /\ have < Header(reader)
  /\ read' = have
  /\ Throws("RangeError")

\* A bad return code.  getInfo() skips the rest of the reply, authenticate()
\* does not, and initialConnect() calls a function that is not in scope.
Refused ==
  /\ outcome = "header"
  /\ have >= Header(reader)
  /\ ~accepted /\ reader # "error"
  /\ read' = IF reader \in InfoReaders THEN length ELSE 24
  /\ Throws(IF reader = "startServer" THEN "ReferenceError" ELSE "ServerError")

\* The flags of getInfo(): foundServerLevel is tested and never set.
FlagsWithLevel(r) ==
  seen \cap {"version", "level", "passwordLevel", "seed"}
Flags(r) ==
  seen \cap ({"version", "passwordLevel"} \cup
             (IF r = "getSeeds" THEN {"seed"} ELSE {}))

\* The condition of the loop.
ContinuesAbove20 == IF reader = "startServer" THEN length - count > 20
                    ELSE count < length
Continues ==
  CASE reader \in InfoReaders ->
         /\ count < length
         /\ \/ ~({"version", "level", "passwordLevel"} \subseteq Flags(reader))
            \/ reader = "getInfo"
            \/ "seed" \notin Flags(reader)
    [] reader = "signonInfo" -> count < length /\ "CCSID" \notin seen
    [] reader = "startServer" -> length - count > 10
    [] reader = "attributes" -> length > 46 /\ count = 40
    [] reader = "error" -> count < length

\* What the reader adds to its count for a parameter of length ll.  getInfo()
\* adds what a case reads, and not the bytes behind it, which it skips;
\* initialConnect() takes the four bytes before a job name off twice.
CountedWithoutCCSID(r, cp, ll) ==
  IF r \in InfoReaders /\ cp \in FixedSize THEN 6 + Numbers(cp)
  ELSE IF cp = "jobName" THEN ll - 4 ELSE ll
CountedTwice(r, cp, ll) == IF r = "signonInfo" THEN ll + 6 ELSE ll
Counted(r, cp, ll) ==
  IF r \in InfoReaders /\ cp \in FixedSize THEN 6 + Numbers(cp)
  ELSE IF r = "startServer" /\ cp = "jobName" THEN ll + 4 ELSE ll

\* packedDecimalToString() assigns to its constant doHigh at the first digit,
\* and parseSQLCA() always asks for 30.
PackedDecimalThrows(digits) == digits > 0
ParseSQLCAThrows == PackedDecimalThrows(30)

\* The loop goes on where the buffer has no length and code point left.
ParameterTorn ==
  /\ outcome = "parameters"
  /\ Continues
  /\ ~Available(6)
  /\ read' = IF read > have THEN read ELSE have
  /\ Throws("RangeError")

\* The server's parameter at the reader's place.
Parameter(cp, ll) ==
  /\ outcome = "parameters"
  /\ Continues
  /\ Available(6)
  /\ cp = "other" \/ cp \in Known(reader) \ seen
  /\ ll >= MinLength(cp)
  /\ read + ll = length \/ read + ll + 6 <= length

\* setServerAttributes() takes no other code point first, and no length under
\* that of its block.
Unexpected(cp, ll) ==
  reader = "attributes" /\ (cp # "attributes" \/ ll < BlockLength)

NumbersTorn(cp, ll) ==
  /\ Parameter(cp, ll)
  /\ ~Unexpected(cp, ll)
  /\ ~Available(6 + Numbers(cp))
  /\ read' = have
  /\ Throws("RangeError")

\* One pass of a loop.
ReadParameter(cp, ll) ==
  /\ Parameter(cp, ll)
  /\ Available(6 + Numbers(cp))
  /\ reader # "attributes"
  /\ cp = "SQLCA" => ~ParseSQLCAThrows
  /\ read' = read + ll
  /\ count' = count + Counted(reader, cp, ll)
  /\ seen' = seen \cup {cp}
  /\ torn' = IF Copies(reader, cp) /\ ~Available(ll) THEN torn \cup {cp}
             ELSE torn
  /\ padding' = IF cp \in FixedSize THEN padding + ll - 6 - Numbers(cp)
                ELSE padding
  /\ UNCHANGED <<reply, outcome, unparsed, copying>>

UnexpectedParameter(cp, ll) ==
  /\ Parameter(cp, ll)
  /\ Unexpected(cp, ll)
  /\ read' = read + 6
  /\ Throws("FormatError")

\* setServerAttributes() has read the numbers of its parameter, and goes on
\* with a new buffer for the texts.
BeginTexts(ll) ==
  /\ Parameter("attributes", ll)
  /\ reader = "attributes" /\ ~Unexpected("attributes", ll)
  /\ Available(6 + Numbers("attributes"))
  /\ outcome' = "texts"
  /\ read' = read + 6 + Numbers("attributes")
  /\ block' = ll
  /\ texts' = <<>>
  /\ UNCHANGED <<reply, count, seen, torn, padding, unparsed>>

\* readFullyExtra(): the buffer takes the bytes that are there, and keeps those
\* of earlier texts in the place of the others.  It is all zeros at first.
Buffer == IF texts = <<>> THEN [i \in 1 .. 32 |-> 0] ELSE texts[Len(texts)]
CopyText ==
  /\ outcome = "texts" /\ Len(texts) < Len(TextWidths)
  /\ LET width == TextWidths[Len(texts) + 1]
     IN /\ texts' = Append(texts,
                     [i \in 1 .. 32 |->
                        IF i <= width /\ Available(i) THEN read + i
                                                      ELSE Buffer[i]])
        /\ read' = read + width
  /\ UNCHANGED <<reply, outcome, count, seen, torn, padding, unparsed, block>>

\* Behind the texts: what the parameter has beyond them is skipped.
EndTexts ==
  /\ outcome = "texts" /\ Len(texts) = Len(TextWidths)
  /\ outcome' = "parameters"
  /\ read' = SkipBytes(read, block - BlockLength)
  /\ count' = count + Counted(reader, "attributes", block)
  /\ seen' = seen \cup {"attributes"}
  /\ UNCHANGED <<reply, torn, padding, unparsed, copying>>

\* The SQLCA is read, and parsing it throws.
BadSQLCA(ll) ==
  /\ Parameter("SQLCA", ll)
  /\ ParseSQLCAThrows
  /\ read' = read + ll
  /\ Throws("TypeError")

\* Behind the loop: the rest is skipped.  readReplyHeader() throws then what
\* the server said.
Finish ==
  /\ outcome = "parameters"
  /\ ~Continues
  /\ read' = SkipBytes(read, length - count)
  /\ unparsed' = length - read
  /\ outcome' = IF reader = "error" THEN "ServerError" ELSE "resolved"
  /\ UNCHANGED <<reply, count, seen, torn, padding, copying>>

Lengths(cp) ==
  {MinLength(cp) + x : x \in Extras} \cup {length - read} \cup
  (IF cp = "attributes"
     THEN {BlockLength - 1} \cup {BlockLength + x : x \in Extras} ELSE {})

ReadOne ==
  \E cp \in Known(reader) \cup {"other"} : \E ll \in Lengths(cp) :
    \/ NumbersTorn(cp, ll)
    \/ ReadParameter(cp, ll)
    \/ UnexpectedParameter(cp, ll)
    \/ cp = "attributes" /\ BeginTexts(ll)
    \/ cp = "SQLCA" /\ BadSQLCA(ll)

Next ==
  \/ ReadHeader \/ HeaderTorn \/ Refused
  \/ ParameterTorn
  \/ ReadOne
  \/ CopyText
  \/ EndTexts
  \/ Finish

Spec == Init /\ [][Next]_vars

-----------------------------------------------------------------------------
(* Properties *)

Settled == outcome \notin {"header", "parameters", "texts"}

TypeOK ==
  /\ reader \in Readers /\ accepted \in BOOLEAN
  /\ length \in Nat /\ have \in Nat /\ read \in Nat /\ count \in Nat
  /\ outcome \in {"header", "parameters", "texts", "resolved", "RangeError",
                  "TypeError", "ReferenceError", "ServerError", "FormatError"}
  /\ block \in Nat /\ texts \in Seq(TextBuffers)
  /\ seen \subseteq CodePoints /\ torn \subseteq seen
  /\ padding \in Nat /\ unparsed \in Int

\* A reader that resolves has not passed over what it looks for: it has read
\* the whole reply, or what it stopped for, or has left a rest too short for
\* it, whatever the order of the parameters, and although its count may be
\* wrong (getInfo, authenticate, initialConnect, setServerAttributes).
NothingMissed ==
  outcome = "resolved" =>
    \/ unparsed <= 0
    \/ reader = "signonInfo" /\ "CCSID" \in seen
    \/ reader = "startServer" /\ ("jobName" \in seen \/ unparsed <= 10)
    \/ reader = "attributes" /\ ("attributes" \in seen \/ unparsed <= 6)

\* A reader that resolves leaves nothing of a whole reply to the next one,
\* but four bytes if a parameter follows the job name: the count of
\* initialConnect() is then four ahead.
NothingLeft ==
  outcome = "resolved" /\ Whole =>
    Leftover = IF reader = "startServer" /\ "jobName" \in seen /\ unparsed > 0
               THEN 4 ELSE 0

\* getInfo() takes a whole reply exactly if no number has bytes behind it:
\* these are skipped and not counted, and the loop runs past the end.
PaddingRejects ==
  reader \in InfoReaders /\ accepted /\ Whole /\ Settled =>
    (outcome = "resolved" <=> padding = 0)

\* Where the byte i of text k stands in a reply to setServerAttributes().
Place(k, i) == Header("attributes") + TextPlaces[k] + i
Arrived(k, i) == i <= TextWidths[k] /\ Place(k, i) <= have
IsTorn(k) == \E i \in 1 .. TextWidths[k] : texts[k][i] # Place(k, i)

\* A reply that is cut may still resolve, but all that is whole was read before
\* anything that is torn.  Of the other readers one value at most is torn: the
\* last one that was read, with nothing behind it that the loop would have
\* read.  setServerAttributes() may leave several texts torn; those behind the
\* first of them have no byte of their own.
OnlyLastTorn ==
  /\ \E cp \in CodePoints : torn \subseteq {cp}
  /\ outcome = "resolved" /\ torn # {} =>
       /\ ~Whole /\ Leftover = 0
       /\ \/ unparsed <= 0
          \/ reader = "startServer" /\ unparsed <= 14
  /\ \A j, k \in 1 .. Len(texts) :
       j < k /\ IsTorn(j) =>
         ~Whole /\ \A i \in 1 .. TextWidths[k] : texts[k][i] # Place(k, i)

\* Each byte of each text is the one that stands in its place in the reply, if
\* this has arrived.  If not, it is the byte of the last text before it that
\* was long enough and had arrived so far, or a zero: a name of a cut reply
\* ends in the bytes of other names.
TextsInPlace ==
  \A k \in 1 .. Len(texts) : \A i \in 1 .. TextWidths[k] :
    \/ texts[k][i] = 0 /\ \A j \in 1 .. k : ~Arrived(j, i)
    \/ \E j \in 1 .. k :
         /\ Arrived(j, i) /\ \A later \in j + 1 .. k : ~Arrived(later, i)
         /\ texts[k][i] = Place(j, i)

\* "@returns {SQLCommunicationsArea} SQLCA" (DatabaseConnection.js:580): an
\* error reply that arrived whole ends in the error it reports.
ServerErrorReported ==
  reader = "error" /\ Whole /\ Settled => outcome = "ServerError"

=============================================================================
