-------------------------- MODULE RequestEncoding --------------------------
(***************************************************************************)
(* The parameters of a request: the loop of sendSetServerAttributesRequest *)
(* over a DatabaseServerAttributes and that of getDataBuffer over a        *)
(* DatabaseRequestAttributes.                                              *)
(*                                                                         *)
(* Three lengths of a request are computed apart from each other: what the *)
(* loop adds to "length", which goes to the header; the length each        *)
(* parameter starts with; and what is appended to the buffer.  The server  *)
(* finds the end of a request by the first, and walks through its          *)
(* parameters by the second.                                               *)
(*                                                                         *)
(* A parameter is its kind, one for each way the two switches treat an     *)
(* attribute, and the length of its text.  An attribute that is not set,   *)
(* or is 0 or empty, is skipped, so that the parameters of a request are   *)
(* any selection.  Nothing depends on the order of the attributes: any     *)
(* order is allowed.                                                       *)
(*                                                                         *)
(* A call whose encoder throws writes nothing: both encoders run before    *)
(* the header is written.  What sendPrepareAndDescribeRequest leaves in    *)
(* the stream after its header is in Exchange.                             *)
(*                                                                         *)
(* A faulty form that nothing uses stands before some operators (see the   *)
(* "mutants" of PROJECT.json).                                             *)
(***************************************************************************)
EXTENDS Integers

CONSTANTS
  TextSizes,      \* lengths of the texts that callers set
  MaxShort,       \* the longest length that writeShort takes, 32767
  MaxParameters,  \* bound: attributes of one object that are set
  MaxRequests     \* bound: requests on the connection

ASSUME SizesAssumption == TextSizes \subseteq Nat \ {0} /\ MaxShort \in Nat

VARIABLES
  encoder,      \* the encoder that runs, or "none"
  seen,         \* attributes that have a kind of their own and are encoded
  parms,        \* parameters encoded
  length,       \* what the loop added to the length of the header
  walked,       \* sum of the lengths that the parameters start with
  buffered,     \* length of the data buffer
  misdeclared,  \* kinds encoded whose length is declared short (history)
  requests,     \* requests begun
  skew,         \* bytes sent beyond those the headers told of
  offenders     \* misdeclared kinds that were sent (history)

encoding == <<encoder, seen, parms, length, walked, buffered, misdeclared>>
vars == <<encoding, requests, skew, offenders>>

-----------------------------------------------------------------------------
(* Kinds of parameters *)

ServerKinds == {"short", "byte", "int", "text", "feature", "level",
                "language", "tables", "identifier", "decimals"}
RequestKinds == {"short", "byte", "int", "text", "absolute", "relative"}
Kinds == ServerKinds \cup RequestKinds

Encoders == {"server", "request"}
KindsOf(e) == IF e = "server" THEN ServerKinds ELSE RequestKinds

\* Kinds that several attributes have; any other stands for one attribute,
\* of which NLSSIndentifier and fetchScrollOption have more than one form.
Common == {"short", "byte", "int", "text"}
Attribute(kind) ==
  CASE kind \in {"language", "tables", "identifier"} -> "NLSSIndentifier"
    [] kind \in {"absolute", "relative"} -> "fetchScrollOption"
    [] kind = "feature" -> "languageFeatureCode"
    [] kind = "level" -> "clientFunctionalLevel"
    [] OTHER -> "maximumDecimalPrecision"
Attributes == {"NLSSIndentifier", "fetchScrollOption", "languageFeatureCode",
               "clientFunctionalLevel", "maximumDecimalPrecision"}

Int4 == 4
Int2 == 2
Int1 == 1

\* padEnd() lengthens a text and never cuts it.
Padded(n, width) == IF n < width THEN width ELSE n

\* The length a parameter starts with.  That of the tables counts both names.
LL(kind, n) ==
  CASE kind \in {"short", "identifier", "absolute"} -> 8
    [] kind = "byte" -> 7
    [] kind = "int" -> 10
    [] kind = "text" -> 10 + n
    [] kind \in {"feature", "decimals", "relative"} -> 12
    [] kind = "level" -> 18
    [] kind = "language" -> 8 + 5
    [] kind = "tables" -> 8 + 6 + n

\* What is added to the length of the header.  The length of a scroll option
\* is taken from "relative" before the variable is assigned.
DeclaresWithoutCCSID(kind, n) == IF kind = "text" THEN 8 + n ELSE LL(kind, n)
DeclaresLess(kind, n) == IF kind = "text" THEN 10 - n ELSE LL(kind, n)
Declares(kind, n) == IF kind = "relative" THEN 8 ELSE LL(kind, n)

\* What is appended to the buffer.
Prefix == Int4 + Int2
WritesUnpadded(kind, n) ==
  IF kind = "level" THEN Prefix + Int2 + n ELSE LL(kind, n)
Writes(kind, n) ==
  CASE kind \in {"short", "identifier", "absolute"} -> Prefix + Int2
    [] kind = "byte" -> Prefix + Int1
    [] kind = "int" -> Prefix + Int4
    [] kind = "text" -> Prefix + Int2 + Int2 + Padded(n, n)
    [] kind \in {"feature", "level"} -> Prefix + Int2 + Padded(n, 10)
    [] kind = "language" -> Prefix + Int2 + Int2 + Padded(n, 3)
    [] kind = "tables" -> Prefix + Int2 + Int2 + (Int2 + Int2 + n)
    [] kind = "decimals" -> Prefix + Int2 + Int2 + Int2
    [] kind = "relative" -> Prefix + Int2 + Int4

\* A parameter that is longer than the header or its own length tells.
Misdeclares(kind, n) ==
  \/ kind \in {"feature", "relative"}
  \/ kind = "level" /\ n > 10
  \/ kind = "language" /\ n > 3

-----------------------------------------------------------------------------
(* Steps *)

Init ==
  /\ encoder = "none"
  /\ seen = {} /\ parms = 0
  /\ length = 0 /\ walked = 0 /\ buffered = 0
  /\ misdeclared = {}
  /\ requests = 0 /\ skew = 0 /\ offenders = {}

\* A call enters the encoder with a new data buffer.
BeginRequest(e) ==
  /\ encoder = "none" /\ requests < MaxRequests
  /\ encoder' = e
  /\ requests' = requests + 1
  /\ seen' = {} /\ parms' = 0
  /\ length' = 0 /\ walked' = 0 /\ buffered' = 0
  /\ misdeclared' = {}
  /\ UNCHANGED <<skew, offenders>>

\* One attribute that is set.  The length of a common text is a short.
Encode(kind, n) ==
  /\ encoder # "none" /\ kind \in KindsOf(encoder)
  /\ parms < MaxParameters
  /\ kind = "text" => n <= MaxShort
  /\ kind \notin Common => Attribute(kind) \notin seen
  /\ seen' = IF kind \in Common THEN seen ELSE seen \cup {Attribute(kind)}
  /\ parms' = parms + 1
  /\ length' = length + Declares(kind, n)
  /\ walked' = walked + LL(kind, n)
  /\ buffered' = buffered + Writes(kind, n)
  /\ misdeclared' = IF Misdeclares(kind, n) THEN misdeclared \cup {kind}
                                            ELSE misdeclared
  /\ UNCHANGED <<encoder, requests, skew, offenders>>

\* The encoder throws and the call rejects: rdbName, ewlmCorrelator and
\* extendedSQLStatementText call what does not exist, a Buffer has no
\* padEnd(), writeShort() and writeInt() refuse a number out of range, a
\* BigInt or a length above MaxShort, and a name that an NLSSIndentifier
\* needs may be missing.
EncodeThrows ==
  /\ encoder # "none"
  /\ encoder' = "none"
  /\ UNCHANGED <<seen, parms, length, walked, buffered, misdeclared,
                 requests, skew, offenders>>

\* The header, which tells of itself and the template as well, the template
\* and the buffer are written.
SendRequest ==
  /\ encoder # "none"
  /\ encoder' = "none"
  /\ skew' = skew + (buffered - length)
  /\ offenders' = offenders \cup misdeclared
  /\ UNCHANGED <<seen, parms, length, walked, buffered, misdeclared, requests>>

Next ==
  \/ \E e \in Encoders : BeginRequest(e)
  \/ \E kind \in Kinds, n \in TextSizes : Encode(kind, n)
  \/ EncodeThrows
  \/ SendRequest

Spec == Init /\ [][Next]_vars

-----------------------------------------------------------------------------
(* Properties *)

\* Every variable keeps its type.
TypeOK ==
  /\ encoder \in Encoders \cup {"none"}
  /\ seen \subseteq Attributes
  /\ parms \in Nat /\ requests \in Nat
  /\ length \in Nat /\ walked \in Nat /\ buffered \in Nat
  /\ misdeclared \subseteq Kinds /\ offenders \subseteq Kinds
  /\ skew \in Int

\* The server is at the start of a request after all that was sent, if and
\* only if no request had a language feature code, a relative scroll option,
\* or a functional level or language ID that does not fit its field.  No two
\* of these errors make up for each other: each sends more than it declares.
InStep == skew = 0 <=> offenders = {}

\* The lengths of the parameters lead the server through the whole buffer, if
\* and only if none of them is misdeclared; that of a relative scroll option
\* is right, though the header's is not.
ParametersWalkable == walked = buffered <=> misdeclared \subseteq {"relative"}

-----------------------------------------------------------------------------
(* A statement of the source that the code does not meet *)

\* DatabaseConnection.js:455: the first field of a request is its length.
HeaderTellsLength == skew = 0
=============================================================================
