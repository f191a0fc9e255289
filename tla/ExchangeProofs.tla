--------------------------- MODULE ExchangeProofs ---------------------------
(* Theorems about Exchange, for every set of calls and every MaxID. *)
EXTENDS Exchange, ModularCounter, SequenceTheorems, FiniteSetTheorems, TLAPS

\* Names for single ideas, always expanded.
USE DEF Flush, NextField, Rejects

-----------------------------------------------------------------------------
(* Lemmas about the sequence operators of the model *)

\* Dropping a prefix of a sequence leaves a sequence over the same set.
LEMMA DropType ==
  ASSUME NEW S, NEW s \in Seq(S), NEW n \in Nat
  PROVE  /\ Drop(s, n) \in Seq(S)
         /\ n <= Len(s) => Len(Drop(s, n)) = Len(s) - n
         /\ \A i \in 1 .. (Len(s) - n) : Drop(s, n)[i] = s[n + i]
<1>1. \A i \in (n + 1) .. Len(s) : s[i] \in S
  BY ElementOfSeq, LenProperties
<1>2. n + 1 \in Int /\ Len(s) \in Int
  BY LenProperties
<1>3. /\ SubSeq(s, n + 1, Len(s)) \in Seq(S)
      /\ Len(SubSeq(s, n + 1, Len(s))) =
           IF n + 1 <= Len(s) THEN Len(s) - (n + 1) + 1 ELSE 0
      /\ \A i \in 1 .. Len(s) - (n + 1) + 1 :
           SubSeq(s, n + 1, Len(s))[i] = s[(n + 1) + i - 1]
  BY <1>1, <1>2, SubSeqProperties
<1> QED
  BY <1>2, <1>3 DEF Drop

\* A prefix of a sequence is a sequence over the same set.
LEMMA PrefixType ==
  ASSUME NEW S, NEW s \in Seq(S), NEW n \in 1 .. Len(s)
  PROVE  /\ SubSeq(s, 1, n) \in Seq(S)
         /\ Len(SubSeq(s, 1, n)) = n
         /\ \A i \in 1 .. n : SubSeq(s, 1, n)[i] = s[i]
<1>1. \A i \in 1 .. n : s[i] \in S
  BY ElementOfSeq, LenProperties
<1>2. n \in Int /\ 1 <= n
  BY LenProperties
<1> QED
  BY <1>1, <1>2, SubSeqProperties

\* Copies of a nonempty chunk form a sequence over the same set, and a single
\* copy is the chunk.
LEMMA CopiesType ==
  ASSUME NEW S, NEW s \in Seq(S), s # <<>>, NEW n \in Nat
  PROVE  /\ Copies(s, n) \in Seq(S)
         /\ n = 1 => Copies(s, n) = s
<1> DEFINE L == Len(s)
<1>1. L \in Nat /\ L > 0 /\ n * L \in Nat
  BY EmptySeq, LenProperties
<1>2. ASSUME NEW i \in 1 .. (n * L)
      PROVE  s[((i - 1) % L) + 1] \in S
  <2>1. (i - 1) \in Nat /\ (i - 1) % L \in 0 .. (L - 1)
    BY <1>1
  <2>2. ((i - 1) % L) + 1 \in 1 .. L
    BY <1>1, <2>1
  <2> QED
    BY <2>2, ElementOfSeq
<1>3. Copies(s, n) \in [1 .. (n * L) -> S]
  BY <1>2 DEF Copies
<1>4. Copies(s, n) \in Seq(S)
  BY <1>1, <1>3, SeqDef
<1>5. ASSUME n = 1
      PROVE  Copies(s, n) = s
  <2>1. Copies(s, n) = [i \in 1 .. L |-> s[((i - 1) % L) + 1]]
    BY <1>1, <1>5 DEF Copies
  <2>2. \A i \in 1 .. L : (i - 1) % L = i - 1
    BY <1>1
  <2>3. \A i \in 1 .. L : ((i - 1) % L) + 1 = i
    BY <1>1, <2>2
  <2> QED
    BY <2>1, <2>3, LenProperties
<1> QED
  BY <1>4, <1>5

\* A sequence of positive length is not empty.
LEMMA NonEmpty ==
  ASSUME NEW S, NEW s \in Seq(S)
  PROVE  /\ s # <<>> <=> Len(s) > 0
         /\ s # <<>> => Head(s) = s[1]
BY EmptySeq, LenProperties

\* No part of a reply is one of the two tokens that stand for none.
LEMMA ReplyPartTokens == NoReply \notin ReplyPart /\ Garbage \notin ReplyPart
BY DEF NoReply, Garbage, ReplyPart

LEMMA TokensDiffer == NoReply # Garbage
BY DEF NoReply, Garbage

\* A reply of n parts is a sequence of reply parts.
LEMMA ReplyType ==
  ASSUME NEW c \in Calls, NEW v \in Verdicts, NEW n \in 2 .. 3
  PROVE  /\ Reply(c, v, n) \in Seq(ReplyPart)
         /\ Len(Reply(c, v, n)) = n
<1>1. Reply(c, v, n) \in [1 .. n -> ReplyPart]
  BY DEF Reply, ReplyPart
<1>2. n \in Nat
  OBVIOUS
<1> QED
  BY <1>1, <1>2, SeqDef, LenProperties

\* The correlation ID counter stays in its range.
LEMMA NewCorrelationIDType ==
  ASSUME NEW id \in 1 .. MaxID
  PROVE  NewCorrelationID(id) \in 1 .. MaxID
BY MaxIDAssumption DEF NewCorrelationID

-----------------------------------------------------------------------------
(* Type correctness *)

LEMMA InitTypeOK == Init => TypeOK
<1> SUFFICES ASSUME Init PROVE TypeOK
  OBVIOUS
<1> USE DEF Init
<1>1. /\ op \in [Calls -> Ops]
      /\ rpb \in [Calls -> Handles \cup {NoRPB}]
      /\ \A c \in Calls : op[c] = "create" => rpb[c] \in Handles
  BY DEF Ops
<1>2. /\ pc \in [Calls -> PCs]
      /\ verdict \in [Calls -> Verdicts \cup {"none"}]
      /\ clean \in [Calls -> BOOLEAN]
      /\ garbled \in BOOLEAN
  BY DEF PCs
<1>3. field \in [Calls -> Fields]
  BY DEF Fields, Header, Parameters
<1>4. heard \in [Calls -> Heard]
  BY DEF Heard
<1>5. correlationID \in 1 .. MaxID
  BY MaxIDAssumption
<1>6. /\ issued \in Seq(1 .. MaxID)
      /\ internalBuffer \in Seq(ReplyPart)
      /\ listeners \in Seq(Calls)
      /\ jobs \in Seq(Calls)
      /\ outbound \in Seq(RequestField)
      /\ inbound \in Seq(ReplyPart)
  OBVIOUS
<1>7. /\ currentRPB \in Handles \cup {NoRPB}
      /\ socket \in {"open", "local", "peer"}
      /\ created \in SUBSET Handles
  OBVIOUS
<1> QED
  BY <1>1, <1>2, <1>3, <1>4, <1>5, <1>6, <1>7 DEF TypeOK

LEMMA NextTypeOK == TypeOK /\ [Next]_vars => TypeOK'
<1> SUFFICES ASSUME TypeOK, [Next]_vars
             PROVE  TypeOK'
  OBVIOUS
<1> USE DEF TypeOK, caller, connection, stream, server, history
<1>1. ASSUME NEW c \in Calls, NEW o \in Ops, NEW h \in Handles \cup {NoRPB},
             Start(c, o, h), o = "create" => h \in Handles
      PROVE  TypeOK'
  <2>1. PICK state \in {"write", "failed"} : Enter(c, o, h, state)
    BY <1>1 DEF Start, Begin, EncoderThrows
  <2>2. garbled' \in BOOLEAN
    BY <1>1 DEF Start, Begin, EncoderThrows
  <2>3. clean' \in [Calls -> BOOLEAN]
    BY <2>1 DEF Enter
  <2>4. /\ pc' \in [Calls -> PCs]
        /\ \A d \in Calls : pc'[d] = "read" => pc[d] = "read"
    BY <2>1 DEF Enter, PCs, Settled
  <2>5. internalBuffer' \in Seq(ReplyPart)
    BY <2>1, EmptySeq DEF Enter
  <2> QED
    BY <1>1, <2>1, <2>2, <2>3, <2>4, <2>5 DEF Enter
<1>2. ASSUME NEW c \in Calls, WriteField(c)
      PROVE  TypeOK'
  <2>1. [call |-> c, field |-> field[c]] \in RequestField
    BY DEF RequestField
  <2>2. outbound' \in Seq(RequestField)
    BY <1>2, <2>1 DEF WriteField
  <2>3. correlationID' \in 1 .. MaxID /\ issued' \in Seq(1 .. MaxID)
    <3>1. CASE field[c] = Header
      <4>1. /\ correlationID' = NewCorrelationID(correlationID)
            /\ issued' = Append(issued, correlationID')
        BY <1>2, <3>1 DEF WriteField
      <4> QED
        BY <4>1, NewCorrelationIDType
    <3>2. CASE field[c] # Header
      BY <1>2, <3>2 DEF WriteField
    <3> QED
      BY <3>1, <3>2
  <2>4. /\ field' \in [Calls -> Fields]
        /\ pc' \in [Calls -> PCs]
        /\ listeners' \in Seq(Calls)
    <3>1. CASE field[c] = Parameters
      <4>1. /\ pc' = [pc EXCEPT ![c] = "wait"]
            /\ listeners' = Append(listeners, c)
            /\ field' = field
        BY <1>2, <3>1 DEF WriteField
      <4> QED
        BY <4>1 DEF PCs
    <3>2. CASE field[c] # Parameters
      <4>1. /\ field' = [field EXCEPT ![c] = @ + 1]
            /\ pc' = pc /\ listeners' = listeners
        BY <1>2, <3>2 DEF WriteField
      <4>2. field[c] \in Fields /\ field[c] # Parameters
        BY <3>2
      <4>3. field[c] + 1 \in Fields
        BY ONLY <4>2 DEF Fields, Header, Parameters
      <4> QED
        BY <4>1, <4>3
    <3> QED
      BY <3>1, <3>2
  <2> QED
    BY <1>2, <2>2, <2>3, <2>4 DEF WriteField
<1>3. ASSUME NEW c \in Calls, WriteRejected(c)
      PROVE  TypeOK'
  BY <1>3 DEF WriteRejected, PCs, Settled
<1>4. ASSUME NEW c \in Calls, PrepareThrows(c)
      PROVE  TypeOK'
  BY <1>4 DEF PrepareThrows, PCs, Settled
<1>5. ASSUME NEW n \in 1 .. Len(inbound), Deliver(n)
      PROVE  TypeOK'
  <2> DEFINE chunk == SubSeq(inbound, 1, n)
  <2>1. chunk \in Seq(ReplyPart) /\ Len(chunk) = n
    BY PrefixType
  <2>2. chunk # <<>> /\ Len(listeners) \in Nat /\ n \in Nat
    <3>1. Len(chunk) > 0 /\ n \in Nat
      BY <2>1
    <3>2. chunk # <<>>
      BY <3>1, <2>1, NonEmpty
    <3> QED
      BY <3>1, <3>2, LenProperties
  <2>3. Copies(chunk, Len(listeners)) \in Seq(ReplyPart)
    BY <2>1, <2>2, CopiesType
  <2>4. internalBuffer' \in Seq(ReplyPart)
    BY <1>5, <2>3, ConcatProperties DEF Deliver
  <2>5. inbound' \in Seq(ReplyPart)
    BY <1>5, <2>2, DropType DEF Deliver
  <2>6. pc' \in [Calls -> PCs] /\ clean' \in [Calls -> BOOLEAN]
    BY <1>5 DEF Deliver, PCs, Settled
  <2> QED
    BY <1>5, <2>4, <2>5, <2>6, EmptySeq DEF Deliver
<1>6. ASSUME jobs # <<>>, NEW state \in PCs, Resume(Head(jobs), state)
      PROVE  pc' \in [Calls -> PCs] /\ jobs' \in Seq(Calls)
  <2>1. Head(jobs) \in Calls /\ Tail(jobs) \in Seq(Calls)
    BY <1>6, HeadTailProperties
  <2> QED
    BY <1>6, <2>1 DEF Resume
<1>7. \A n \in Nat : Drop(internalBuffer, n) \in Seq(ReplyPart)
  BY DropType
<1>8. CASE ReadReplyHeader
  <2>1. Head(jobs) \in Calls /\ "read" \in PCs /\ "failed" \in PCs
    BY <1>8, HeadTailProperties DEF ReadReplyHeader, PCs, Settled
  <2>2. internalBuffer # <<>>
    BY <1>8, EmptySeq DEF ReadReplyHeader, HasHeader
  <2>3. Head(internalBuffer) \in ReplyPart
    BY <2>2, HeadTailProperties
  <2>4. Head(internalBuffer).size \in Nat
    BY <2>3 DEF ReplyPart
  <2>5. pc' \in [Calls -> PCs] /\ jobs' \in Seq(Calls)
    BY <1>6, <1>8, <2>1 DEF ReadReplyHeader
  <2>6. internalBuffer' \in Seq(ReplyPart)
    <3>1. \E n \in Nat : internalBuffer' = Drop(internalBuffer, n)
      BY <1>8, <2>4 DEF ReadReplyHeader
    <3> QED
      BY <1>7, <3>1
  <2>7. heard' \in [Calls -> Heard]
    BY <1>8, <2>1, <2>3 DEF ReadReplyHeader, Heard
  <2>8. \A d \in Calls : pc'[d] = "read" => heard'[d] # NoReply
    BY <1>8, <2>1, <2>3, ReplyPartTokens DEF ReadReplyHeader, Resume
  <2> QED
    BY <1>8, <2>5, <2>6, <2>7, <2>8 DEF ReadReplyHeader
<1>9. CASE MisreadReplyHeader
  <2>1. Head(jobs) \in Calls /\ "read" \in PCs /\ "failed" \in PCs
    BY <1>9, HeadTailProperties DEF MisreadReplyHeader, PCs, Settled
  <2>2. pc' \in [Calls -> PCs] /\ jobs' \in Seq(Calls)
    BY <1>6, <1>9, <2>1 DEF MisreadReplyHeader
  <2>3. internalBuffer' \in Seq(ReplyPart)
    BY <1>7, <1>9 DEF MisreadReplyHeader
  <2>4. heard' \in [Calls -> Heard]
    BY <1>9, <2>1 DEF MisreadReplyHeader, Heard
  <2>5. \A d \in Calls : pc'[d] = "read" => heard'[d] # NoReply
    BY <1>9, <2>1, TokensDiffer DEF MisreadReplyHeader, Resume
  <2> QED
    BY <1>9, <2>2, <2>3, <2>4, <2>5 DEF MisreadReplyHeader
<1>10. CASE FinishCreate
  <2>1. Head(jobs) \in Calls /\ "done" \in PCs
    BY <1>10, HeadTailProperties DEF FinishCreate, PCs, Settled
  <2>2. pc' \in [Calls -> PCs] /\ jobs' \in Seq(Calls)
    BY <1>6, <1>10, <2>1 DEF FinishCreate
  <2>3. internalBuffer' \in Seq(ReplyPart)
    <3> DEFINE c == Head(jobs)
    <3>1. CASE heard[c] = Garbage
      BY <1>7, <1>10, <3>1 DEF FinishCreate
    <3>2. CASE heard[c] # Garbage
      <4>1. heard[c] \in ReplyPart
        BY <1>10, <2>1, <3>2 DEF FinishCreate, Heard
      <4>2. heard[c].size - 2 \in Nat
        BY <4>1 DEF ReplyPart
      <4> HIDE DEF TypeOK
      <4> QED
        BY <1>7, <1>10, <3>2, <4>2 DEF FinishCreate
    <3> QED
      BY <3>1, <3>2
  <2>4. \A d \in Calls : pc'[d] = "read" => heard'[d] # NoReply
    BY <1>10, <2>1 DEF FinishCreate, Resume
  <2> QED
    BY <1>10, <2>1, <2>2, <2>3, <2>4 DEF FinishCreate
<1>11. CASE FinishAttributes
  <2>1. Head(jobs) \in Calls /\ "done" \in PCs /\ "failed" \in PCs
    BY <1>11, HeadTailProperties DEF FinishAttributes, PCs, Settled
  <2>2. pc' \in [Calls -> PCs] /\ jobs' \in Seq(Calls)
    BY <1>6, <1>11, <2>1 DEF FinishAttributes
  <2>3. internalBuffer # <<>> => Tail(internalBuffer) \in Seq(ReplyPart)
    BY HeadTailProperties
  <2>4. internalBuffer' \in Seq(ReplyPart)
    <3>1. \/ internalBuffer' = internalBuffer
          \/ internalBuffer # <<>> /\ internalBuffer' = Tail(internalBuffer)
          \/ \E n \in 0 .. Len(internalBuffer) :
               internalBuffer' = Drop(internalBuffer, n)
      BY <1>11 DEF FinishAttributes
    <3>2. ASSUME NEW n \in 0 .. Len(internalBuffer)
          PROVE  n \in Nat
      OBVIOUS
    <3> QED
      BY <1>7, <2>3, <3>1, <3>2
  <2>5. \A d \in Calls : pc'[d] = "read" => heard'[d] # NoReply
    BY <1>11, <2>1 DEF FinishAttributes, Resume
  <2> QED
    BY <1>11, <2>2, <2>4, <2>5 DEF FinishAttributes
<1>12. CASE Close
  BY <1>12, EmptySeq DEF Close
<1>13. CASE PeerClose
  BY <1>13, EmptySeq DEF PeerClose
<1>14. ASSUME NEW v \in Verdicts, NEW n \in 2 .. 3, ServerAnswers(v, n)
       PROVE  TypeOK'
  <2> DEFINE c == outbound[1].call
  <2>1. Len(outbound) \in Nat /\ Len(outbound) >= 3
    BY <1>14, LenProperties DEF ServerAnswers, Parameters
  <2>2. outbound[1] \in RequestField
    BY <2>1, ElementOfSeq
  <2>3. c \in Calls
    BY <2>2 DEF RequestField
  <2>4. inbound' \in Seq(ReplyPart)
    BY <1>14, <2>3, ReplyType, ConcatProperties DEF ServerAnswers
  <2>5. outbound' \in Seq(RequestField)
    BY <1>14, DropType DEF ServerAnswers, Parameters
  <2>6. verdict' \in [Calls -> Verdicts \cup {"none"}]
    BY <1>14, <2>3 DEF ServerAnswers
  <2>7. created' \in SUBSET Handles
    BY <1>14, <2>3 DEF ServerAnswers
  <2> QED
    BY <1>14, <2>4, <2>5, <2>6, <2>7 DEF ServerAnswers
<1>15. CASE ServerRefuses
  <2>1. Len(outbound) \in Nat /\ Len(outbound) >= 3
    BY <1>15, LenProperties DEF ServerRefuses, Parameters
  <2>2. outbound[1] \in RequestField
    BY <2>1, ElementOfSeq
  <2>3. outbound[1].call \in Calls
    BY <2>2 DEF RequestField
  <2>4. inbound \o Reply(outbound[1].call, "error", 2) \in Seq(ReplyPart)
    BY <2>3, ReplyType, ConcatProperties DEF Verdicts
  <2>5. Drop(outbound, Parameters) \in Seq(RequestField)
    BY DropType DEF Parameters
  <2>6. inbound' \in Seq(ReplyPart) /\ outbound' \in Seq(RequestField)
    BY <1>15, <2>4, <2>5, EmptySeq DEF ServerRefuses
  <2> QED
    BY <1>15, <2>6 DEF ServerRefuses
<1>16. CASE UNCHANGED vars
  BY <1>16 DEF vars
<1> QED
  BY <1>1, <1>2, <1>3, <1>4, <1>5, <1>8, <1>9, <1>10, <1>11, <1>12, <1>13,
     <1>14, <1>15, <1>16
     DEF Next, SetServerAttributes, CreateRequestParameterBlock,
         PrepareAndDescribe, Ops

\* Every variable of a connection keeps its type in every execution.
THEOREM TypeCorrect == Spec => []TypeOK
BY InitTypeOK, NextTypeOK, PTL DEF Spec

-----------------------------------------------------------------------------
(* Correlation IDs *)

\* The counter and the IDs it issued are the numbers of the requests, counted
\* modulo MaxID from 1.
CounterInv ==
  /\ correlationID = (Len(issued) % MaxID) + 1
  /\ \A i \in 1 .. Len(issued) : issued[i] = (i % MaxID) + 1

LEMMA InitCounterInv == Init => CounterInv
<1> SUFFICES ASSUME Init PROVE CounterInv
  OBVIOUS
<1>1. issued = <<>> /\ correlationID = 1 /\ Len(issued) = 0
  BY DEF Init
<1>2. 0 % MaxID = 0
  BY MaxIDAssumption
<1> QED
  BY <1>1, <1>2 DEF CounterInv

LEMMA NextCounterInv == TypeOK /\ CounterInv /\ [Next]_vars => CounterInv'
<1> SUFFICES ASSUME TypeOK, CounterInv, [Next]_vars
             PROVE  CounterInv'
  OBVIOUS
<1>1. ASSUME NEW c \in Calls, WriteField(c), field[c] = Header
      PROVE  CounterInv'
  <2> DEFINE n == Len(issued)
  <2>1. issued \in Seq(1 .. MaxID) /\ n \in Nat
    BY LenProperties DEF TypeOK
  <2>2. /\ correlationID' = NewCorrelationID((n % MaxID) + 1)
        /\ issued' = Append(issued, correlationID')
    BY <1>1 DEF WriteField, CounterInv
  <2>3. correlationID' = ((n + 1) % MaxID) + 1
    <3>1. (n + 1) % MaxID = IF n % MaxID = MaxID - 1 THEN 0
                            ELSE (n % MaxID) + 1
      BY <2>1, MaxIDAssumption, ModSuccessor
    <3>2. n % MaxID \in 0 .. (MaxID - 1)
      BY <2>1, MaxIDAssumption, DivMod
    <3> QED
      BY <2>2, <3>1, <3>2, MaxIDAssumption DEF NewCorrelationID
  <2>4. /\ Len(issued') = n + 1
        /\ \A i \in 1 .. n : issued'[i] = issued[i]
        /\ issued'[n + 1] = correlationID'
    BY <2>1, <2>2
  <2>5. ASSUME NEW i \in 1 .. (n + 1)
        PROVE  issued'[i] = (i % MaxID) + 1
    <3>1. CASE i \in 1 .. n
      BY <2>4, <3>1 DEF CounterInv
    <3>2. CASE i = n + 1
      BY <2>3, <2>4, <3>2
    <3> QED
      BY <2>1, <3>1, <3>2
  <2> QED
    BY <2>3, <2>4, <2>5 DEF CounterInv
<1>2. ASSUME UNCHANGED <<correlationID, issued>>
      PROVE  CounterInv'
  BY <1>2 DEF CounterInv
<1>3. ASSUME NEW c \in Calls, WriteField(c), field[c] # Header
      PROVE  UNCHANGED <<correlationID, issued>>
  BY <1>3 DEF WriteField
<1>4. ASSUME Next, \A c \in Calls : ~WriteField(c)
      PROVE  UNCHANGED <<correlationID, issued>>
  <2> USE DEF connection
  <2>1. ASSUME NEW c \in Calls, NEW o, NEW h, Start(c, o, h)
        PROVE  UNCHANGED <<correlationID, issued>>
    BY <2>1 DEF Start, Begin, EncoderThrows, Enter
  <2>2. ASSUME NEW c \in Calls, WriteRejected(c) \/ PrepareThrows(c)
        PROVE  UNCHANGED <<correlationID, issued>>
    BY <2>2 DEF WriteRejected, PrepareThrows
  <2>3. ASSUME NEW n \in 1 .. Len(inbound), Deliver(n)
        PROVE  UNCHANGED <<correlationID, issued>>
    BY <2>3 DEF Deliver
  <2>4. CASE ReadReplyHeader
    BY <2>4 DEF ReadReplyHeader
  <2>5. CASE MisreadReplyHeader
    BY <2>5 DEF MisreadReplyHeader
  <2>6. CASE FinishCreate
    BY <2>6 DEF FinishCreate
  <2>7. CASE FinishAttributes
    BY <2>7 DEF FinishAttributes
  <2>8. CASE Close \/ PeerClose
    BY <2>8 DEF Close, PeerClose
  <2>9. ASSUME NEW v \in Verdicts, NEW n \in 2 .. 3, ServerAnswers(v, n)
        PROVE  UNCHANGED <<correlationID, issued>>
    BY <2>9 DEF ServerAnswers
  <2>10. CASE ServerRefuses
    BY <2>10 DEF ServerRefuses
  <2> QED
    BY <1>4, <2>1, <2>2, <2>3, <2>4, <2>5, <2>6, <2>7, <2>8, <2>9, <2>10
       DEF Next, SetServerAttributes, CreateRequestParameterBlock,
           PrepareAndDescribe
<1>5. CASE UNCHANGED vars
  BY <1>2, <1>5 DEF vars, connection
<1> QED
  BY <1>1, <1>2, <1>3, <1>4, <1>5

LEMMA CounterInvDistinct == TypeOK /\ CounterInv => CorrelationIDsDistinct
<1> SUFFICES ASSUME TypeOK, CounterInv,
                    NEW i \in 1 .. Len(issued), NEW j \in 1 .. Len(issued),
                    i < j, j - i < MaxID
             PROVE  issued[i] # issued[j]
  BY DEF CorrelationIDsDistinct
<1>1. i \in Nat /\ j \in Nat
  OBVIOUS
<1>2. i % MaxID # j % MaxID
  BY <1>1, MaxIDAssumption, ModDistinct
<1>3. i % MaxID \in 0 .. (MaxID - 1) /\ j % MaxID \in 0 .. (MaxID - 1)
  BY <1>1, MaxIDAssumption, DivMod
<1>4. issued[i] = (i % MaxID) + 1 /\ issued[j] = (j % MaxID) + 1
  BY DEF CounterInv
<1> QED
  BY <1>2, <1>3, <1>4

\* Requests fewer than MaxID apart never carry the same correlation ID,
\* through every wrap of the counter.
THEOREM CorrelationIDsNeverCollide == Spec => []CorrelationIDsDistinct
<1>1. Init => TypeOK /\ CounterInv
  BY InitTypeOK, InitCounterInv
<1>2. TypeOK /\ CounterInv /\ [Next]_vars => (TypeOK /\ CounterInv)'
  BY NextTypeOK, NextCounterInv
<1>3. TypeOK /\ CounterInv => CorrelationIDsDistinct
  BY CounterInvDistinct
<1> QED
  BY <1>1, <1>2, <1>3, PTL DEF Spec

-----------------------------------------------------------------------------
(* Clean calls *)

Alone(c) == \A d \in Calls : d # c => ~Active(d)

\* A clean call that writes: nothing else is in flight, and the wire holds
\* what it has written so far, unless the peer is gone.
Writing(c) ==
  /\ jobs = <<>> /\ listeners = <<>>
  /\ internalBuffer = <<>> /\ inbound = <<>>
  /\ verdict[c] = "none"
  /\ Len(outbound) <= field[c] - 1
  /\ socket = "open" => Len(outbound) = field[c] - 1

\* A clean call that waits: its request or the whole reply to it is under way.
Waiting(c) ==
  /\ jobs = <<>> /\ listeners = <<c>> /\ internalBuffer = <<>>
  /\ Len(outbound) <= Parameters
  /\ outbound = <<>> \/ inbound = <<>>
  /\ \/ inbound = <<>>
     \/ /\ verdict[c] \in Verdicts
        /\ \E n \in 2 .. 3 : inbound = Reply(c, verdict[c], n)

\* A clean call that was woken: the buffer holds the whole reply and no more.
Woken(c) ==
  /\ jobs = <<c>> /\ outbound = <<>> /\ inbound = <<>>
  /\ verdict[c] \in Verdicts
  /\ \E n \in 2 .. 3 : internalBuffer = Reply(c, verdict[c], n)

\* A clean call that has read its header: the buffer holds what is left.
Reading(c) ==
  /\ jobs = <<c>> /\ outbound = <<>> /\ inbound = <<>>
  /\ verdict[c] = "ok"
  /\ heard[c] \in ReplyPart /\ heard[c].call = c
  /\ Len(internalBuffer) = heard[c].size - 2
  /\ \A i \in 1 .. Len(internalBuffer) :
       internalBuffer[i] = [heard[c] EXCEPT !.part = 3]

Stage(c) ==
  /\ \A i \in 1 .. Len(outbound) : outbound[i] = [call |-> c, field |-> i]
  /\ pc[c] = "write" => Writing(c)
  /\ pc[c] = "wait" => Waiting(c)
  /\ pc[c] = "woken" => Woken(c)
  /\ pc[c] = "read" => Reading(c)

Outcome(c) ==
  /\ pc[c] = "done" => verdict[c] = "ok" /\ heard[c].call = c
  /\ pc[c] = "failed" => verdict[c] # "ok"

IdleInv ==
  \A c \in Calls : pc[c] = "idle" =>
    ~clean[c] /\ verdict[c] = "none" /\ field[c] = Header

ListenersInv == \A i \in 1 .. Len(listeners) : pc[listeners[i]] = "wait"

OutboundInv ==
  \A i \in 1 .. Len(outbound) :
    LET c == outbound[i].call
    IN /\ pc[c] # "idle"
       /\ clean[c] /\ outbound[i].field = Parameters => pc[c] = "wait"

Good(c) == (Active(c) => Alone(c) /\ Stage(c)) /\ Outcome(c)

CleanInv == \A c \in Calls : clean[c] => Good(c)

CreatedInv ==
  \A c \in Calls : op[c] = "create" /\ verdict[c] = "ok" => rpb[c] \in created

ExchangeInv ==
  TypeOK /\ IdleInv /\ ListenersInv /\ OutboundInv /\ CleanInv /\ CreatedInv

IInv == ExchangeInv /\ CurrentRPBCreated

\* A call that is under way shares the connection with no clean call.
LEMMA CleanAlone ==
  ASSUME CleanInv, NEW c \in Calls, clean[c], Active(c),
         NEW d \in Calls, Active(d)
  PROVE  d = c /\ Stage(c)
BY DEF CleanInv, Good, Alone

\* What a frame of three units looks like.
LEMMA Framed ==
  ASSUME TypeOK, Len(outbound) >= Parameters
  PROVE  WellFramed <=>
           \E c \in Calls : \A i \in 1 .. 3 :
             outbound[i] = [call |-> c, field |-> i]
<1>1. /\ outbound \in Seq(RequestField) /\ Len(outbound) \in Nat
      /\ 3 \in 1 .. Len(outbound)
  BY LenProperties DEF TypeOK, Parameters
<1> DEFINE frame == SubSeq(outbound, 1, 3)
<1>2. /\ frame \in Seq(RequestField) /\ Len(frame) = 3
      /\ \A i \in 1 .. 3 : frame[i] = outbound[i]
  BY <1>1, PrefixType
<1>3. ASSUME NEW c \in Calls
      PROVE  frame = Request(c) <=>
               \A i \in 1 .. 3 : outbound[i] = [call |-> c, field |-> i]
  <2>1. Request(c) = [i \in 1 .. 3 |-> [call |-> c, field |-> i]]
    BY DEF Request, Fields, Header, Parameters
  <2>2. frame = [i \in 1 .. 3 |-> frame[i]]
    BY <1>2, LenProperties
  <2> QED
    BY <1>2, <2>1, <2>2
<1> QED
  BY <1>3 DEF WellFramed, Parameters

\* A whole reply starts with a header.
LEMMA ReplyHasHeader ==
  ASSUME NEW c \in Calls, NEW v \in Verdicts, NEW n \in 2 .. 3
  PROVE  HasHeader(Reply(c, v, n))
<1>1. Len(Reply(c, v, n)) = n
  BY ReplyType
<1>2. \A i \in 1 .. n : Reply(c, v, n)[i] =
        [call |-> c, verdict |-> v, part |-> i, size |-> n]
  BY DEF Reply
<1> QED
  BY <1>1, <1>2 DEF HasHeader

LEMMA StartClean ==
  ASSUME ExchangeInv, NEW d \in Calls, NEW o, NEW h, Start(d, o, h)
  PROVE  CleanInv'
<1> USE DEF connection, server
<1> SUFFICES ASSUME NEW c \in Calls, clean'[c]
             PROVE  Good(c)'
  BY DEF CleanInv
<1>0. TypeOK /\ IdleInv /\ ListenersInv /\ CleanInv
  BY DEF ExchangeInv
<1>1. CASE c = d
  <2>1. /\ inbound = <<>> /\ outbound = <<>> /\ jobs = <<>>
        /\ \A e \in Calls : ~Active(e)
    BY <1>1 DEF Start, Begin, EncoderThrows, Enter
  <2>2. /\ \/ pc' = [pc EXCEPT ![c] = "write"]
           \/ pc' = [pc EXCEPT ![c] = "failed"]
        /\ pc \in [Calls -> PCs]
    BY <1>0, <1>1 DEF Start, Begin, EncoderThrows, Enter, TypeOK
  <2>3. Alone(c)'
    BY <2>1, <2>2 DEF Alone, Active
  <2>4. listeners = <<>>
    <3>1. listeners \in Seq(Calls)
      BY <1>0 DEF TypeOK
    <3>2. ASSUME listeners # <<>>
          PROVE  FALSE
      <4>1. 1 \in 1 .. Len(listeners) /\ listeners[1] \in Calls
        BY <3>1, <3>2, NonEmpty, LenProperties, ElementOfSeq
      <4> QED
        BY <1>0, <2>1, <4>1 DEF ListenersInv, Active, Settled
    <3> QED
      BY <3>2
  <2>5. verdict[c] = "none" /\ field[c] = Header
    BY <1>0, <1>1 DEF IdleInv, Start, Begin, EncoderThrows, Enter
  <2>6. /\ jobs' = <<>> /\ listeners' = <<>> /\ internalBuffer' = <<>>
        /\ inbound' = <<>> /\ outbound' = <<>>
        /\ verdict'[c] = "none" /\ field'[c] = 1
    BY <2>1, <2>4, <2>5 DEF Start, Begin, EncoderThrows, Enter, Header
  <2>7. Len(<<>>) = 0
    BY EmptySeq
  <2>8. Writing(c)'
    BY <2>6, <2>7 DEF Writing
  <2>9. pc'[c] = "write" \/ pc'[c] = "failed"
    BY <2>2
  <2> QED
    BY <2>3, <2>6, <2>7, <2>8, <2>9
       DEF Good, Stage, Outcome, Active, Settled
<1>2. CASE c # d
  <2>1. clean[c] /\ ~Active(c)
    BY <1>2 DEF Start, Begin, EncoderThrows, Enter
  <2>2. pc'[c] = pc[c] /\ verdict' = verdict /\ heard' = heard
    BY <1>0, <1>2 DEF Start, Begin, EncoderThrows, Enter, TypeOK
  <2> QED
    BY <1>0, <2>1, <2>2 DEF CleanInv, Good, Outcome, Active
<1> QED
  BY <1>1, <1>2

LEMMA WriteFieldClean ==
  ASSUME ExchangeInv, NEW d \in Calls, WriteField(d)
  PROVE  CleanInv'
<1> USE DEF server, history
<1> SUFFICES ASSUME NEW c \in Calls, clean'[c]
             PROVE  Good(c)'
  BY DEF CleanInv
<1>0. TypeOK /\ CleanInv /\ clean[c]
  BY DEF ExchangeInv, WriteField
<1>1. pc[d] = "write" /\ Active(d)
  BY DEF WriteField, Active, Settled
<1>2. /\ verdict' = verdict /\ heard' = heard /\ jobs' = jobs
      /\ internalBuffer' = internalBuffer /\ inbound' = inbound
      /\ socket' = socket /\ socket = "open"
      /\ outbound' = Append(outbound, [call |-> d, field |-> field[d]])
  BY DEF WriteField
<1>3. CASE ~Active(c)
  <2>1. pc'[c] = pc[c]
    BY <1>0, <1>1, <1>3 DEF WriteField, TypeOK
  <2> QED
    BY <1>0, <1>2, <1>3, <2>1 DEF CleanInv, Good, Outcome, Active
<1>4. CASE Active(c)
  <2>1. d = c /\ Stage(c) /\ Alone(c)
    BY <1>0, <1>1, <1>4, CleanAlone DEF CleanInv, Good
  <2>2. Writing(c) /\ Len(outbound) = field[c] - 1
    BY <1>1, <1>2, <2>1 DEF Stage, Writing
  <2>3. outbound \in Seq(RequestField) /\ Len(outbound) \in Nat
    BY <1>0, LenProperties DEF TypeOK
  <2>4. /\ Len(outbound') = field[c]
        /\ \A i \in 1 .. Len(outbound') :
             outbound'[i] = [call |-> c, field |-> i]
    <3>1. Len(outbound') = Len(outbound) + 1
      BY <1>2, <2>3
    <3>2. \A i \in 1 .. Len(outbound) : outbound'[i] = outbound[i]
      BY <1>2, <2>3
    <3>3. outbound'[Len(outbound) + 1] = [call |-> d, field |-> field[d]]
      BY <1>2, <2>3
    <3>4. field[c] \in 1 .. 3
      BY <1>0 DEF TypeOK, Fields, Header, Parameters
    <3>5. field[c] = Len(outbound) + 1
      BY <2>2, <2>3, <3>4
    <3>6. \A i \in 1 .. Len(outbound) :
            outbound[i] = [call |-> c, field |-> i]
      BY <2>1 DEF Stage
    <3>7. \A i \in 1 .. Len(outbound') : i \in 1 .. Len(outbound)
                                        \/ i = Len(outbound) + 1
      BY <2>3, <3>1
    <3> QED
      BY <2>1, <3>1, <3>2, <3>3, <3>5, <3>6, <3>7
  <2>5. Alone(c)'
    BY <1>0, <2>1 DEF Alone, Active, WriteField, TypeOK
  <2>6. CASE field[c] = Parameters
    <3>1. pc'[c] = "wait" /\ listeners' = Append(listeners, c)
      BY <1>0, <2>1, <2>6 DEF WriteField, TypeOK
    <3>2. listeners' = <<c>>
      BY <2>2, <3>1 DEF Writing
    <3>3. Waiting(c)'
      BY <1>2, <2>2, <2>4, <2>6, <3>2 DEF Waiting, Writing, Parameters
    <3> QED
      BY <2>4, <2>5, <3>1, <3>3 DEF Good, Stage, Outcome
  <2>7. CASE field[c] # Parameters
    <3>1. pc'[c] = "write" /\ listeners' = listeners
      BY <1>1, <2>1, <2>7 DEF WriteField
    <3>2. field'[c] = field[c] + 1 /\ field[c] \in Nat
      BY <1>0, <2>1, <2>7
         DEF WriteField, TypeOK, Fields, Header, Parameters
    <3>3. Writing(c)'
      BY <1>2, <2>2, <2>4, <3>1, <3>2 DEF Writing
    <3> QED
      BY <2>4, <2>5, <3>1, <3>3 DEF Good, Stage, Outcome
  <2> QED
    BY <2>6, <2>7
<1> QED
  BY <1>3, <1>4

\* A clean call whose write is rejected, or that abandons its request, was
\* not answered.
LEMMA AbandonClean ==
  ASSUME ExchangeInv, NEW d \in Calls, WriteRejected(d) \/ PrepareThrows(d)
  PROVE  CleanInv'
<1> USE DEF connection, stream, server, history
<1> SUFFICES ASSUME NEW c \in Calls, clean'[c]
             PROVE  Good(c)'
  BY DEF CleanInv
<1>0. TypeOK /\ CleanInv /\ clean[c]
  BY DEF ExchangeInv, WriteRejected, PrepareThrows
<1>1. /\ pc[d] = "write" /\ Active(d)
      /\ pc' = [pc EXCEPT ![d] = "failed"]
      /\ verdict' = verdict /\ heard' = heard
  BY DEF WriteRejected, PrepareThrows, Active, Settled
<1>2. pc \in [Calls -> PCs]
  BY <1>0 DEF TypeOK
<1>3. CASE ~Active(c)
  <2>1. pc'[c] = pc[c]
    BY <1>1, <1>2, <1>3
  <2> QED
    BY <1>0, <1>1, <1>3, <2>1 DEF CleanInv, Good, Outcome, Active
<1>4. CASE Active(c)
  <2>1. d = c /\ Stage(c)
    BY <1>0, <1>1, <1>4, CleanAlone
  <2>2. verdict'[c] = "none" /\ pc'[c] = "failed"
    BY <1>1, <1>2, <2>1 DEF Stage, Writing
  <2> QED
    BY <2>2 DEF Good, Outcome, Active, Settled
<1> QED
  BY <1>3, <1>4

LEMMA DeliverClean ==
  ASSUME ExchangeInv, NEW n \in 1 .. Len(inbound), Deliver(n)
  PROVE  CleanInv'
<1> USE DEF server
<1> SUFFICES ASSUME NEW c \in Calls, clean'[c]
             PROVE  Good(c)'
  BY DEF CleanInv
<1>0. TypeOK /\ CleanInv /\ clean[c] /\ ~(pc[c] = "wait" /\ CutsReply(n))
  BY DEF ExchangeInv, Deliver
<1>1. /\ verdict' = verdict /\ heard' = heard /\ outbound' = outbound
      /\ jobs = <<>> /\ jobs' = listeners
      /\ pc' = [e \in Calls |-> IF pc[e] = "wait" THEN "woken" ELSE pc[e]]
  BY DEF Deliver
<1>2. Len(inbound) \in Nat /\ inbound # <<>> /\ inbound \in Seq(ReplyPart)
  <2>1. inbound \in Seq(ReplyPart) /\ Len(inbound) \in Nat
    BY <1>0, LenProperties DEF TypeOK
  <2> QED
    BY <2>1, NonEmpty
<1>3. CASE ~Active(c)
  <2>1. pc'[c] = pc[c]
    BY <1>1, <1>3 DEF Active, Settled
  <2> QED
    BY <1>0, <1>1, <1>3, <2>1 DEF CleanInv, Good, Outcome, Active
<1>4. CASE Active(c)
  <2>1. Stage(c) /\ Alone(c)
    BY <1>0, <1>4 DEF CleanInv, Good
  <2>2. pc[c] = "wait"
    <3>1. pc[c] \in {"write", "wait", "woken", "read"}
      BY <1>0, <1>4 DEF TypeOK, PCs, Active
    <3>2. pc[c] # "write"
      BY <1>2, <2>1 DEF Stage, Writing
    <3>3. pc[c] # "woken" /\ pc[c] # "read"
      BY <1>2, <2>1 DEF Stage, Woken, Reading
    <3> QED
      BY <3>1, <3>2, <3>3
  <2>3. Waiting(c)
    BY <2>1, <2>2 DEF Stage
  <2>4. PICK k \in 2 .. 3 : inbound = Reply(c, verdict[c], k)
    BY <1>2, <2>3 DEF Waiting
  <2>5. verdict[c] \in Verdicts /\ Len(inbound) = k
    BY <1>2, <2>3, <2>4, ReplyType DEF Waiting
  <2>6. n = k
    <3>1. n \in 1 .. k
      BY <2>5
    <3>2. inbound[n].part = n /\ inbound[n].size = k
      BY <2>4, <3>1 DEF Reply
    <3> QED
      BY <1>0, <2>2, <3>1, <3>2 DEF CutsReply
  <2>7. SubSeq(inbound, 1, n) = inbound
    BY <1>2, <2>5, <2>6, SubSeqFull
  <2>8. listeners = <<c>> /\ Len(listeners) = 1 /\ internalBuffer = <<>>
    BY <2>3 DEF Waiting
  <2>9. Copies(inbound, 1) = inbound
    BY <1>2, CopiesType
  <2>10. internalBuffer' = inbound
    <3>1. internalBuffer' = <<>> \o inbound
      BY <2>7, <2>8, <2>9 DEF Deliver
    <3> QED
      BY <1>2, <3>1, ConcatEmptySeq
  <2>11. inbound' = <<>>
    <3>1. Len(inbound) \in Int /\ Len(inbound) + 1 \in Int
      BY <1>2
    <3>2. inbound' = SubSeq(inbound, Len(inbound) + 1, Len(inbound))
      BY <2>5, <2>6 DEF Deliver, Drop
    <3> QED
      BY <3>1, <3>2, SubSeqEmpty
  <2>12. outbound = <<>>
    BY <1>2, <2>3 DEF Waiting
  <2>13. Woken(c)'
    BY <1>1, <2>4, <2>5, <2>8, <2>10, <2>11, <2>12 DEF Woken
  <2>14. Alone(c)'
    BY <1>1, <2>1 DEF Alone, Active, Settled
  <2>15. pc'[c] = "woken"
    BY <1>1, <2>2
  <2> QED
    BY <1>1, <2>1, <2>13, <2>14, <2>15 DEF Good, Stage, Outcome
<1> QED
  BY <1>3, <1>4

\* What every microtask does: it moves the call at the head of the queue, and
\* a clean call only if it is that one.
LEMMA ResumeClean ==
  ASSUME TypeOK, CleanInv, NEW e \in Calls, NEW state \in PCs,
         pc[e] \in {"woken", "read"}, Resume(e, state),
         verdict' = verdict, clean' = clean,
         \A d \in Calls : d # e => heard'[d] = heard[d],
         clean[e] /\ Stage(e) /\ Alone(e) => Good(e)'
  PROVE  CleanInv'
<1>1. Active(e)
  BY DEF Active, Settled
<1>2. pc' = [pc EXCEPT ![e] = state] /\ pc \in [Calls -> PCs]
  BY DEF Resume, TypeOK
<1> SUFFICES ASSUME NEW c \in Calls, clean'[c]
             PROVE  Good(c)'
  BY DEF CleanInv
<1>3. CASE c = e
  BY <1>1, <1>3 DEF CleanInv, Good
<1>4. CASE c # e
  <2>1. ~Active(c)
    BY <1>1, <1>4, CleanAlone
  <2>2. pc'[c] = pc[c] /\ verdict'[c] = verdict[c] /\ heard'[c] = heard[c]
    BY <1>2, <1>4
  <2> QED
    BY <2>1, <2>2 DEF CleanInv, Good, Outcome, Active
<1> QED
  BY <1>3, <1>4

LEMMA ReadReplyHeaderClean ==
  ASSUME ExchangeInv, ReadReplyHeader
  PROVE  CleanInv'
<1> USE DEF connection, server, history
<1>0. TypeOK /\ CleanInv
  BY DEF ExchangeInv
<1>6. PICK e \in Calls : e = Head(jobs)
  BY <1>0, HeadTailProperties DEF TypeOK, ReadReplyHeader
<1>7. PICK h : h = Head(internalBuffer)
  OBVIOUS
<1>1. /\ jobs # <<>> /\ pc[e] = "woken"
      /\ verdict' = verdict /\ clean' = clean
      /\ outbound' = outbound /\ inbound' = inbound
      /\ heard' = [heard EXCEPT ![e] = h]
  BY <1>6, <1>7 DEF ReadReplyHeader
<1>2. heard \in [Calls -> Heard] /\ pc \in [Calls -> PCs]
  BY <1>0 DEF TypeOK
<1>3. \A d \in Calls : d # e => heard'[d] = heard[d]
  BY <1>1, <1>2
<1>4. ASSUME clean[e], Stage(e), Alone(e)
      PROVE  Good(e)'
  <2>1. Woken(e)
    BY <1>1, <1>4 DEF Stage
  <2>2. PICK k \in 2 .. 3 : internalBuffer = Reply(e, verdict[e], k)
    BY <2>1 DEF Woken
  <2>3. verdict[e] \in Verdicts /\ outbound = <<>> /\ inbound = <<>>
    BY <2>1 DEF Woken
  <2>4. internalBuffer \in Seq(ReplyPart) /\ Len(internalBuffer) = k
    BY <1>2, <2>2, <2>3, ReplyType
  <2>5. \A i \in 1 .. k : internalBuffer[i] =
          [call |-> e, verdict |-> verdict[e], part |-> i, size |-> k]
    BY <2>2 DEF Reply
  <2>6. h = internalBuffer[1]
    BY <1>7, <2>4, NonEmpty
  <2>7. h = [call |-> e, verdict |-> verdict[e], part |-> 1, size |-> k]
    BY <2>5, <2>6
  <2>8. h \in ReplyPart
    BY <1>2, <2>3, <2>7 DEF ReplyPart
  <2>9. CASE verdict[e] = "ok"
    <3>1. /\ Resume(e, "read")
          /\ internalBuffer' = Drop(internalBuffer, 2)
      BY <1>6, <1>7, <2>7, <2>9 DEF ReadReplyHeader
    <3>2. /\ Len(internalBuffer') = k - 2
          /\ \A i \in 1 .. (k - 2) : internalBuffer'[i] = internalBuffer[2 + i]
      <4>1. 2 \in Nat /\ 2 <= Len(internalBuffer)
        BY <2>4
      <4>2. /\ Len(Drop(internalBuffer, 2)) = Len(internalBuffer) - 2
            /\ \A i \in 1 .. (Len(internalBuffer) - 2) :
                 Drop(internalBuffer, 2)[i] = internalBuffer[2 + i]
        BY <2>4, <4>1, DropType
      <4> QED
        BY <2>4, <3>1, <4>2
    <3>3. ASSUME NEW i \in 1 .. (k - 2)
          PROVE  internalBuffer'[i] = [h EXCEPT !.part = 3]
      <4>1. 2 + i = 3 /\ 3 \in 1 .. k
        OBVIOUS
      <4>2. internalBuffer[3] =
              [call |-> e, verdict |-> verdict[e], part |-> 3, size |-> k]
        BY ONLY <2>5, <4>1
      <4>3. internalBuffer'[i] = internalBuffer[3]
        BY <3>2, <4>1
      <4>4. [h EXCEPT !.part = 3] =
              [call |-> e, verdict |-> verdict[e], part |-> 3, size |-> k]
        BY ONLY <2>7
      <4> QED
        BY ONLY <4>2, <4>3, <4>4
    <3>4. jobs' = <<e>>
      <4>1. jobs = <<e>>
        BY <2>1 DEF Woken
      <4>2. Tail(<<e>>) = <<>>
        OBVIOUS
      <4> QED
        BY <3>1, <4>1, <4>2 DEF Resume
    <3>5. heard'[e] = h
      BY <1>1, <1>2
    <3>6. Reading(e)'
      BY <1>1, <2>3, <2>7, <2>8, <2>9, <3>2, <3>3, <3>4, <3>5 DEF Reading
    <3>7. pc'[e] = "read"
      BY <1>2, <3>1 DEF Resume
    <3>8. Alone(e)'
      BY <1>2, <1>4, <3>1 DEF Alone, Active, Resume
    <3>9. Len(outbound') = 0
      BY <1>1, <2>3, EmptySeq
    <3> QED
      BY <3>6, <3>7, <3>8, <3>9 DEF Good, Stage, Outcome
  <2>10. CASE verdict[e] = "error"
    <3>1. Resume(e, "failed")
      BY <1>6, <1>7, <2>7, <2>10 DEF ReadReplyHeader
    <3>2. pc'[e] = "failed"
      BY <1>2, <3>1 DEF Resume
    <3> QED
      BY <1>1, <2>10, <3>2 DEF Good, Outcome, Active, Settled
  <2> QED
    BY <2>3, <2>9, <2>10 DEF Verdicts
<1>5. \E state \in PCs : Resume(e, state)
  BY <1>6 DEF ReadReplyHeader, PCs, Settled
<1> QED
  BY <1>0, <1>1, <1>3, <1>4, <1>5, ResumeClean

LEMMA MisreadReplyHeaderClean ==
  ASSUME ExchangeInv, MisreadReplyHeader
  PROVE  CleanInv'
<1> USE DEF connection, server, history
<1>0. TypeOK /\ CleanInv
  BY DEF ExchangeInv
<1>6. PICK e \in Calls : e = Head(jobs)
  BY <1>0, HeadTailProperties
     DEF TypeOK, MisreadReplyHeader, FinishCreate, FinishAttributes
<1>1. /\ jobs # <<>> /\ pc[e] = "woken" /\ ~HasHeader(internalBuffer)
      /\ verdict' = verdict /\ clean' = clean
      /\ heard' = [heard EXCEPT ![e] = Garbage]
  BY <1>6 DEF MisreadReplyHeader
<1>2. heard \in [Calls -> Heard]
  BY <1>0 DEF TypeOK
<1>3. \A d \in Calls : d # e => heard'[d] = heard[d]
  BY <1>1, <1>2
<1>4. ~Stage(e)
  BY <1>1, <1>2, ReplyHasHeader DEF Stage, Woken
<1>5. \E state \in PCs : Resume(e, state)
  BY <1>6 DEF MisreadReplyHeader, PCs, Settled
<1> QED
  BY <1>0, <1>1, <1>3, <1>4, <1>5, ResumeClean

LEMMA FinishClean ==
  ASSUME ExchangeInv, FinishCreate \/ FinishAttributes
  PROVE  CleanInv'
<1> USE DEF connection, server, history
<1>0. TypeOK /\ CleanInv
  BY DEF ExchangeInv
<1>6. PICK e \in Calls : e = Head(jobs)
  BY <1>0, HeadTailProperties
     DEF TypeOK, MisreadReplyHeader, FinishCreate, FinishAttributes
<1>1. /\ jobs # <<>> /\ pc[e] = "read"
      /\ verdict' = verdict /\ clean' = clean /\ heard' = heard
  BY <1>6 DEF FinishCreate, FinishAttributes
<1>2. pc \in [Calls -> PCs]
  BY <1>0 DEF TypeOK
<1>3. ASSUME clean[e], Stage(e), Alone(e)
      PROVE  Resume(e, "done") /\ Good(e)'
  <2>1. Reading(e)
    BY <1>1, <1>3 DEF Stage
  <2>2. heard[e] # Garbage /\ heard[e].size \in 2 .. 3
    BY <2>1, ReplyPartTokens DEF Reading, ReplyPart
  <2>3. ASSUME heard[e].size # 2
        PROVE  /\ heard[e].size = 3 /\ internalBuffer # <<>>
               /\ Head(internalBuffer) = [heard[e] EXCEPT !.part = 3]
               /\ heard[e].call = e
    <3>1. heard[e].size = 3
      BY <2>2, <2>3
    <3>2. internalBuffer \in Seq(ReplyPart) /\ Len(internalBuffer) = 1
      BY <1>0, <2>1, <3>1 DEF TypeOK, Reading
    <3>3. internalBuffer # <<>> /\ Head(internalBuffer) = internalBuffer[1]
      BY <3>2, NonEmpty
    <3> QED
      BY <2>1, <3>1, <3>2, <3>3 DEF Reading
  <2>4. ASSUME FinishAttributes
        PROVE  Resume(e, "done")
    BY <1>6, <2>2, <2>3, <2>4 DEF FinishAttributes
  <2>5. Resume(e, "done")
    BY <1>6, <2>4 DEF FinishCreate
  <2>6. pc'[e] = "done"
    BY <1>2, <2>5 DEF Resume
  <2> QED
    BY <1>1, <2>1, <2>5, <2>6 DEF Good, Outcome, Active, Settled, Reading
<1>4. \E state \in PCs : Resume(e, state)
  BY <1>6 DEF FinishCreate, FinishAttributes, PCs, Settled
<1> QED
  BY <1>0, <1>1, <1>3, <1>4, ResumeClean

LEMMA CloseClean ==
  ASSUME ExchangeInv, Close \/ PeerClose
  PROVE  CleanInv'
<1> USE DEF caller, stream, server, history
<1> SUFFICES ASSUME NEW c \in Calls, clean'[c]
             PROVE  Good(c)'
  BY DEF CleanInv
<1>0. TypeOK /\ CleanInv /\ clean[c]
  BY DEF ExchangeInv, Close, PeerClose
<1>1. /\ jobs = <<>> /\ jobs' = jobs /\ listeners' = listeners
      /\ internalBuffer' = internalBuffer
      /\ pc' = pc /\ field' = field /\ heard' = heard /\ verdict' = verdict
      /\ socket' # "open"
  BY DEF Close, PeerClose
<1>2. \/ inbound' = <<>> /\ outbound' = outbound
      \/ inbound' = inbound /\ outbound' = <<>>
  BY DEF Close, PeerClose
<1>3. CASE ~Active(c)
  BY <1>0, <1>1, <1>3 DEF CleanInv, Good, Outcome, Active
<1>4. CASE Active(c)
  <2>1. Alone(c)' /\ Stage(c)
    BY <1>0, <1>1, <1>4 DEF CleanInv, Good, Alone, Active
  <2>2. Len(<<>>) = 0 /\ Len(outbound) \in Nat /\ field[c] - 1 >= 0
    <3>1. outbound \in Seq(RequestField) /\ field[c] \in 1 .. 3
      BY <1>0 DEF TypeOK, Fields, Header, Parameters
    <3> QED
      BY <3>1, EmptySeq, LenProperties
  <2>3. \A i \in 1 .. Len(outbound') :
          outbound'[i] = [call |-> c, field |-> i]
    BY <1>2, <2>1, <2>2 DEF Stage
  <2>4. CASE pc[c] = "write"
    <3>1. Writing(c)'
      BY <1>1, <1>2, <2>1, <2>2, <2>4 DEF Stage, Writing
    <3> QED
      BY <1>1, <2>1, <2>3, <2>4, <3>1 DEF Good, Stage, Outcome
  <2>5. CASE pc[c] = "wait"
    <3>1. Waiting(c)
      BY <2>1, <2>5 DEF Stage
    <3>2. Waiting(c)'
      BY <1>1, <1>2, <2>2, <3>1 DEF Waiting, Parameters
    <3> QED
      BY <1>1, <2>1, <2>3, <2>5, <3>2 DEF Good, Stage, Outcome
  <2>6. pc[c] # "woken" /\ pc[c] # "read"
    BY <1>1, <2>1 DEF Stage, Woken, Reading
  <2>7. pc[c] \in {"write", "wait", "woken", "read"}
    BY <1>0, <1>4 DEF TypeOK, PCs, Active
  <2> QED
    BY <2>4, <2>5, <2>6, <2>7
<1> QED
  BY <1>3, <1>4

LEMMA ServerAnswersClean ==
  ASSUME ExchangeInv, NEW v \in Verdicts, NEW n \in 2 .. 3,
         ServerAnswers(v, n)
  PROVE  CleanInv'
<1> USE DEF caller, stream, history
<1> SUFFICES ASSUME NEW c \in Calls, clean'[c]
             PROVE  Good(c)'
  BY DEF CleanInv
<1>0. TypeOK /\ CleanInv /\ OutboundInv /\ clean[c]
  BY DEF ExchangeInv, ServerAnswers
<1>1. outbound \in Seq(RequestField) /\ Len(outbound) \in Nat
  BY <1>0, LenProperties DEF TypeOK
<1>2. Len(outbound) >= 3 /\ WellFramed
  BY DEF ServerAnswers, Parameters
<1>3. PICK e \in Calls :
        \A i \in 1 .. 3 : outbound[i] = [call |-> e, field |-> i]
  BY <1>0, <1>2, Framed DEF Parameters
<1>4. outbound[1].call = e /\ outbound[3].call = e /\ outbound[3].field = 3
  <2>1. /\ outbound[1] = [call |-> e, field |-> 1]
        /\ outbound[3] = [call |-> e, field |-> 3]
    BY <1>3
  <2> QED
    BY <2>1
<1>5. /\ verdict' = [verdict EXCEPT ![e] = v]
      /\ outbound' = Drop(outbound, 3)
      /\ pc' = pc /\ heard' = heard /\ field' = field
      /\ jobs' = jobs /\ listeners' = listeners
      /\ internalBuffer' = internalBuffer
      /\ jobs = <<>>
  BY <1>4 DEF ServerAnswers, Parameters
<1>6. verdict \in [Calls -> Verdicts \cup {"none"}]
  BY <1>0 DEF TypeOK
<1>7. clean[e] => pc[e] = "wait"
  <2>1. 3 \in 1 .. Len(outbound)
    BY <1>1, <1>2
  <2> QED
    BY <1>0, <1>4, <2>1 DEF OutboundInv, Parameters
<1>8. CASE ~Active(c)
  <2>1. e # c
    BY <1>0, <1>7, <1>8 DEF Active, Settled
  <2>2. verdict'[c] = verdict[c]
    BY <1>5, <1>6, <2>1
  <2> QED
    BY <1>0, <1>5, <1>8, <2>2 DEF CleanInv, Good, Outcome, Active
<1>9. CASE Active(c)
  <2>1. Alone(c)' /\ Stage(c)
    BY <1>0, <1>5, <1>9 DEF CleanInv, Good, Alone, Active
  <2>2. outbound[1] = [call |-> c, field |-> 1]
    BY <1>1, <1>2, <2>1 DEF Stage
  <2>3. e = c
    BY <1>4, <2>2
  <2>4. pc[c] = "wait" /\ Waiting(c)
    BY <1>0, <1>7, <2>1, <2>3 DEF Stage
  <2>5. Len(outbound) = 3 /\ outbound # <<>> /\ inbound = <<>>
    <3>3. Len(outbound) <= 3
      BY <2>4 DEF Waiting, Parameters
    <3>1. Len(outbound) = 3 /\ Len(outbound) > 0
      <4>1. PICK m \in Nat : m = Len(outbound)
        BY <1>1
      <4>2. m >= 3 /\ m <= 3
        BY <1>2, <3>3, <4>1
      <4>3. m = 3 /\ m > 0
        BY <4>2
      <4> QED
        BY <4>1, <4>3
    <3>2. outbound # <<>>
      BY ONLY <1>1, <3>1, NonEmpty
    <3> QED
      BY <2>4, <3>1, <3>2 DEF Waiting
  <2>6. outbound' = <<>> /\ Len(outbound') = 0
    <3>1. outbound' = SubSeq(outbound, 4, 3)
      BY <1>5, <2>5 DEF Drop
    <3> QED
      BY <3>1, SubSeqEmpty, EmptySeq
  <2>7. verdict'[c] = v
    BY <1>5, <1>6, <2>3
  <2>8. inbound' = Reply(c, v, n) \/ inbound' = <<>>
    <3>1. <<>> \o Reply(c, v, n) = Reply(c, v, n)
      BY ReplyType, ConcatEmptySeq
    <3> QED
      BY <1>4, <2>3, <2>5, <3>1 DEF ServerAnswers
  <2>9. Waiting(c)'
    BY <1>5, <2>4, <2>6, <2>7, <2>8 DEF Waiting, Parameters
  <2> QED
    BY <1>5, <2>1, <2>4, <2>6, <2>9 DEF Good, Stage, Outcome
<1> QED
  BY <1>8, <1>9

LEMMA ServerRefusesClean ==
  ASSUME ExchangeInv, ServerRefuses
  PROVE  CleanInv'
<1> USE DEF caller, stream, server, history
<1> SUFFICES ASSUME NEW c \in Calls, clean'[c]
             PROVE  Good(c)'
  BY DEF CleanInv
<1>0. TypeOK /\ CleanInv /\ clean[c]
  BY DEF ExchangeInv, ServerRefuses
<1>1. /\ Len(outbound) >= 3 /\ ~WellFramed /\ jobs = <<>>
      /\ pc' = pc /\ heard' = heard /\ verdict' = verdict
  BY DEF ServerRefuses, Parameters
<1>2. CASE ~Active(c)
  BY <1>0, <1>1, <1>2 DEF CleanInv, Good, Outcome, Active
<1>3. CASE Active(c)
  <2>1. Stage(c)
    BY <1>0, <1>3 DEF CleanInv, Good
  <2>2. Len(outbound) \in Nat
    BY <1>0, LenProperties DEF TypeOK
  <2>3. \A i \in 1 .. 3 : outbound[i] = [call |-> c, field |-> i]
    BY <1>1, <2>1, <2>2 DEF Stage
  <2> QED
    BY <1>0, <1>1, <2>3, Framed DEF Parameters
<1> QED
  BY <1>2, <1>3

LEMMA NextCleanInv == ExchangeInv /\ [Next]_vars => CleanInv'
<1> SUFFICES ASSUME ExchangeInv, [Next]_vars
             PROVE  CleanInv'
  OBVIOUS
<1>1. CASE UNCHANGED vars
  <2>1. CleanInv
    BY DEF ExchangeInv
  <2> QED
    BY <1>1, <2>1
       DEF CleanInv, Good, Alone, Active, Stage, Outcome, Writing, Waiting,
           Woken, Reading, vars, caller, stream, server, history
<1>2. CASE Next
  BY <1>2, StartClean, WriteFieldClean, AbandonClean, DeliverClean,
     ReadReplyHeaderClean, MisreadReplyHeaderClean, FinishClean, CloseClean,
     ServerAnswersClean, ServerRefusesClean
     DEF Next, SetServerAttributes, CreateRequestParameterBlock,
         PrepareAndDescribe
<1> QED
  BY <1>1, <1>2

\* A call that is not under way yet was never clean and never answered.
LEMMA NextIdleInv == ExchangeInv /\ [Next]_vars => IdleInv'
<1> SUFFICES ASSUME ExchangeInv, [Next]_vars
             PROVE  IdleInv'
  OBVIOUS
<1> USE DEF caller, connection, stream, server, history
<1>0. TypeOK /\ IdleInv /\ OutboundInv
  BY DEF ExchangeInv
<1>1. pc \in [Calls -> PCs] /\ field \in [Calls -> Fields]
  BY <1>0 DEF TypeOK
<1>2. ASSUME NEW d \in Calls, NEW o, NEW h, Start(d, o, h)
      PROVE  IdleInv'
  BY <1>0, <1>1, <1>2 DEF IdleInv, Start, Begin, EncoderThrows, Enter
<1>3. ASSUME NEW d \in Calls, WriteField(d)
      PROVE  IdleInv'
  <2>1. /\ pc[d] = "write" /\ verdict' = verdict /\ clean' = clean
        /\ \A c \in Calls : c # d => pc'[c] = pc[c] /\ field'[c] = field[c]
        /\ pc'[d] \in {"write", "wait"}
    BY <1>1, <1>3 DEF WriteField
  <2> QED
    BY <1>0, <2>1 DEF IdleInv
<1>4. ASSUME NEW d \in Calls, WriteRejected(d) \/ PrepareThrows(d)
      PROVE  IdleInv'
  BY <1>0, <1>1, <1>4 DEF IdleInv, WriteRejected, PrepareThrows
<1>5. ASSUME NEW n \in 1 .. Len(inbound), Deliver(n)
      PROVE  IdleInv'
  BY <1>0, <1>1, <1>5 DEF IdleInv, Deliver
<1>6. ASSUME ReadReplyHeader \/ MisreadReplyHeader
             \/ FinishCreate \/ FinishAttributes
      PROVE  IdleInv'
  <2>1. \E state \in PCs \ {"idle"} : pc' = [pc EXCEPT ![Head(jobs)] = state]
    BY <1>6 DEF ReadReplyHeader, MisreadReplyHeader, FinishCreate,
                FinishAttributes, Resume, PCs, Settled
  <2>2. field' = field /\ verdict' = verdict /\ clean' = clean
    BY <1>6 DEF ReadReplyHeader, MisreadReplyHeader, FinishCreate,
                FinishAttributes
  <2> QED
    BY <1>0, <1>1, <2>1, <2>2 DEF IdleInv
<1>7. ASSUME Close \/ PeerClose \/ ServerRefuses
      PROVE  IdleInv'
  BY <1>0, <1>7 DEF IdleInv, Close, PeerClose, ServerRefuses
<1>8. ASSUME NEW v \in Verdicts, NEW n \in 2 .. 3, ServerAnswers(v, n)
      PROVE  IdleInv'
  <2>1. outbound \in Seq(RequestField) /\ Len(outbound) \in Nat
    BY <1>0, LenProperties DEF TypeOK
  <2>2. Len(outbound) >= 3
    BY <1>8 DEF ServerAnswers, Parameters
  <2>3. pc[outbound[1].call] # "idle"
    BY <1>0, <2>1, <2>2 DEF OutboundInv
  <2>4. /\ verdict' = [verdict EXCEPT ![outbound[1].call] = v]
        /\ pc' = pc /\ field' = field /\ clean' = clean
    BY <1>8 DEF ServerAnswers
  <2>5. verdict \in [Calls -> Verdicts \cup {"none"}]
    BY <1>0 DEF TypeOK
  <2> QED
    BY <1>0, <2>3, <2>4, <2>5 DEF IdleInv
<1>9. CASE UNCHANGED vars
  BY <1>0, <1>9 DEF IdleInv, vars
<1> QED
  BY <1>2, <1>3, <1>4, <1>5, <1>6, <1>7, <1>8, <1>9
     DEF Next, SetServerAttributes, CreateRequestParameterBlock,
         PrepareAndDescribe

\* The listeners belong to waiting calls.
LEMMA NextListenersInv == ExchangeInv /\ [Next]_vars => ListenersInv'
<1> SUFFICES ASSUME ExchangeInv, [Next]_vars
             PROVE  ListenersInv'
  OBVIOUS
<1> USE DEF caller, connection, stream, server, history
<1>0. TypeOK /\ ListenersInv
  BY DEF ExchangeInv
<1>1. /\ pc \in [Calls -> PCs] /\ listeners \in Seq(Calls)
      /\ Len(listeners) \in Nat
      /\ \A i \in 1 .. Len(listeners) : listeners[i] \in Calls
  BY <1>0, LenProperties, ElementOfSeq DEF TypeOK
<1>2. ASSUME listeners' = listeners,
             \A c \in Calls : pc[c] = "wait" => pc'[c] = "wait"
      PROVE  ListenersInv'
  BY <1>0, <1>1, <1>2 DEF ListenersInv
<1>3. ASSUME NEW d \in Calls, NEW o, NEW h, Start(d, o, h)
      PROVE  ListenersInv'
  <2>1. \A c \in Calls : pc[c] = "wait" => pc'[c] = "wait"
    BY <1>1, <1>3 DEF Start, Begin, EncoderThrows, Enter
  <2> QED
    BY <1>2, <1>3, <2>1 DEF Start, Begin, EncoderThrows, Enter
<1>4. ASSUME NEW d \in Calls, WriteField(d)
      PROVE  ListenersInv'
  <2>1. CASE field[d] = Parameters
    <3>1. /\ listeners' = Append(listeners, d)
          /\ pc' = [pc EXCEPT ![d] = "wait"]
      BY <1>4, <2>1 DEF WriteField
    <3>2. /\ Len(listeners') = Len(listeners) + 1
          /\ \A i \in 1 .. Len(listeners) : listeners'[i] = listeners[i]
          /\ listeners'[Len(listeners) + 1] = d
      BY <1>1, <3>1
    <3>3. ASSUME NEW i \in 1 .. Len(listeners')
          PROVE  pc'[listeners'[i]] = "wait"
      <4>1. i \in 1 .. Len(listeners) \/ i = Len(listeners) + 1
        BY <1>1, <3>2
      <4>2. CASE i \in 1 .. Len(listeners)
        <5>1. listeners[i] \in Calls /\ pc[listeners[i]] = "wait"
          BY <1>0, <1>1, <4>2 DEF ListenersInv
        <5> QED
          BY <1>1, <3>1, <3>2, <4>2, <5>1
      <4>3. CASE i = Len(listeners) + 1
        BY <1>1, <3>1, <3>2, <4>3
      <4> QED
        BY <4>1, <4>2, <4>3
    <3> QED
      BY <3>3 DEF ListenersInv
  <2>2. CASE field[d] # Parameters
    BY <1>2, <1>4, <2>2 DEF WriteField
  <2> QED
    BY <2>1, <2>2
<1>5. ASSUME NEW d \in Calls, WriteRejected(d) \/ PrepareThrows(d)
      PROVE  ListenersInv'
  <2>1. \A c \in Calls : pc[c] = "wait" => pc'[c] = "wait"
    BY <1>1, <1>5 DEF WriteRejected, PrepareThrows
  <2> QED
    BY <1>2, <1>5, <2>1 DEF WriteRejected, PrepareThrows
<1>6. ASSUME NEW n \in 1 .. Len(inbound), Deliver(n)
      PROVE  ListenersInv'
  <2>1. Len(listeners') = 0
    BY <1>6, EmptySeq DEF Deliver
  <2> QED
    BY <2>1 DEF ListenersInv
<1>7. ASSUME ReadReplyHeader \/ MisreadReplyHeader
             \/ FinishCreate \/ FinishAttributes
      PROVE  ListenersInv'
  <2>1. \E state \in PCs : pc' = [pc EXCEPT ![Head(jobs)] = state]
    BY <1>7 DEF ReadReplyHeader, MisreadReplyHeader, FinishCreate,
                FinishAttributes, Resume, PCs, Settled
  <2>2. pc[Head(jobs)] # "wait" /\ listeners' = listeners
    BY <1>7 DEF ReadReplyHeader, MisreadReplyHeader, FinishCreate,
                FinishAttributes
  <2>3. \A c \in Calls : pc[c] = "wait" => pc'[c] = "wait"
    BY <1>1, <2>1, <2>2
  <2> QED
    BY <1>2, <2>2, <2>3
<1>8. ASSUME Close \/ PeerClose \/ ServerRefuses
      PROVE  ListenersInv'
  BY <1>2, <1>8 DEF Close, PeerClose, ServerRefuses
<1>9. ASSUME NEW v \in Verdicts, NEW n \in 2 .. 3, ServerAnswers(v, n)
      PROVE  ListenersInv'
  BY <1>2, <1>9 DEF ServerAnswers
<1>10. CASE UNCHANGED vars
  BY <1>2, <1>10 DEF vars
<1> QED
  BY <1>3, <1>4, <1>5, <1>6, <1>7, <1>8, <1>9, <1>10
     DEF Next, SetServerAttributes, CreateRequestParameterBlock,
         PrepareAndDescribe

\* A step that adds nothing to the wire keeps OutboundInv when calls that are
\* under way stay so and clean calls that wait go on waiting.
LEMMA OutboundShrinks ==
  ASSUME TypeOK, OutboundInv,
         \A i \in 1 .. Len(outbound') :
           \E j \in 1 .. Len(outbound) : outbound'[i] = outbound[j],
         \A c \in Calls : pc[c] # "idle" => pc'[c] # "idle",
         \A c \in Calls : pc[c] # "idle" /\ clean'[c] => clean[c],
         \A c \in Calls : clean'[c] /\ pc[c] = "wait" => pc'[c] = "wait"
  PROVE  OutboundInv'
<1> SUFFICES ASSUME NEW i \in 1 .. Len(outbound')
             PROVE  LET c == outbound'[i].call
                    IN /\ pc'[c] # "idle"
                       /\ clean'[c] /\ outbound'[i].field = Parameters
                            => pc'[c] = "wait"
  BY DEF OutboundInv
<1>1. PICK j \in 1 .. Len(outbound) : outbound'[i] = outbound[j]
  OBVIOUS
<1>2. outbound[j] \in RequestField
  BY ElementOfSeq DEF TypeOK
<1>3. PICK c \in Calls : c = outbound[j].call
  BY <1>2 DEF RequestField
<1> QED
  BY <1>1, <1>3 DEF OutboundInv

LEMMA NextOutboundInv == ExchangeInv /\ [Next]_vars => OutboundInv'
<1> SUFFICES ASSUME ExchangeInv, [Next]_vars
             PROVE  OutboundInv'
  OBVIOUS
<1> USE DEF caller, connection, stream, server, history
<1>0. TypeOK /\ IdleInv /\ OutboundInv /\ CleanInv
  BY DEF ExchangeInv
<1>1. /\ pc \in [Calls -> PCs] /\ outbound \in Seq(RequestField)
      /\ Len(outbound) \in Nat
      /\ \A i \in 1 .. Len(outbound) : outbound[i] \in RequestField
  BY <1>0, LenProperties, ElementOfSeq DEF TypeOK
<1>2. ASSUME NEW d \in Calls, NEW o, NEW h, Start(d, o, h)
      PROVE  OutboundInv'
  <2>1. /\ outbound' = outbound /\ pc[d] = "idle"
        /\ \E state \in {"write", "failed"} : pc' = [pc EXCEPT ![d] = state]
        /\ clean'[d] => outbound = <<>>
        /\ \A c \in Calls : c # d /\ clean'[c] => clean[c] /\ ~Active(c)
    BY <1>2 DEF Start, Begin, EncoderThrows, Enter
  <2>2. ASSUME NEW i \in 1 .. Len(outbound)
        PROVE  LET c == outbound[i].call
               IN /\ pc'[c] # "idle"
                  /\ clean'[c] /\ outbound[i].field = Parameters
                       => pc'[c] = "wait"
    <3>1. PICK c \in Calls : c = outbound[i].call
      BY <1>1 DEF RequestField
    <3>2. c # d
      BY <1>0, <2>1, <3>1 DEF OutboundInv
    <3>3. pc'[c] = pc[c]
      BY <1>1, <2>1, <3>2
    <3> QED
      BY <1>0, <2>1, <3>1, <3>2, <3>3 DEF OutboundInv, Active, Settled
  <2> QED
    BY <2>1, <2>2 DEF OutboundInv
<1>3. ASSUME NEW d \in Calls, WriteField(d)
      PROVE  OutboundInv'
  <2>1. /\ outbound' = Append(outbound, [call |-> d, field |-> field[d]])
        /\ clean' = clean /\ pc[d] = "write"
        /\ \A c \in Calls : c # d => pc'[c] = pc[c]
        /\ pc'[d] \in {"write", "wait"}
        /\ field[d] = Parameters => pc'[d] = "wait"
    BY <1>1, <1>3 DEF WriteField
  <2>2. /\ Len(outbound') = Len(outbound) + 1
        /\ \A i \in 1 .. Len(outbound) : outbound'[i] = outbound[i]
        /\ outbound'[Len(outbound) + 1] = [call |-> d, field |-> field[d]]
    BY <1>1, <2>1
  <2>3. ASSUME NEW i \in 1 .. Len(outbound')
        PROVE  LET c == outbound'[i].call
               IN /\ pc'[c] # "idle"
                  /\ clean'[c] /\ outbound'[i].field = Parameters
                       => pc'[c] = "wait"
    <3>1. i \in 1 .. Len(outbound) \/ i = Len(outbound) + 1
      BY <1>1, <2>2
    <3>2. CASE i = Len(outbound) + 1
      BY <2>1, <2>2, <3>2
    <3>3. CASE i \in 1 .. Len(outbound)
      <4>1. PICK c \in Calls : c = outbound[i].call
        BY <1>1, <3>3 DEF RequestField
      <4>2. /\ pc[c] # "idle"
            /\ clean[c] /\ outbound[i].field = Parameters => pc[c] = "wait"
        BY <1>0, <3>3, <4>1 DEF OutboundInv
      <4>3. outbound'[i] = outbound[i]
        BY <2>2, <3>3
      <4> QED
        BY <2>1, <4>1, <4>2, <4>3
    <3> QED
      BY <3>1, <3>2, <3>3
  <2> QED
    BY <2>3 DEF OutboundInv
<1>4. ASSUME NEW d \in Calls, WriteRejected(d) \/ PrepareThrows(d)
      PROVE  OutboundInv'
  <2>1. /\ pc' = [pc EXCEPT ![d] = "failed"] /\ pc[d] = "write"
        /\ outbound' = outbound /\ clean' = clean
    BY <1>4 DEF WriteRejected, PrepareThrows
  <2>2. \A c \in Calls : /\ pc[c] # "idle" => pc'[c] # "idle"
                         /\ pc[c] = "wait" => pc'[c] = "wait"
    BY <1>1, <2>1
  <2> QED
    BY <1>0, <2>1, <2>2, OutboundShrinks
<1>5. ASSUME NEW n \in 1 .. Len(inbound), Deliver(n)
      PROVE  OutboundInv'
  <2>1. inbound # <<>>
    <3>1. inbound \in Seq(ReplyPart) /\ Len(inbound) \in Nat
      BY <1>0, LenProperties DEF TypeOK
    <3> QED
      BY <3>1, NonEmpty
  <2>2. /\ outbound' = outbound
        /\ \A c \in Calls : pc'[c] = IF pc[c] = "wait" THEN "woken" ELSE pc[c]
        /\ \A c \in Calls : clean'[c] => clean[c]
    BY <1>5 DEF Deliver
  <2>3. CASE \E c \in Calls : clean[c] /\ pc[c] = "wait"
    <3>1. PICK c \in Calls : clean[c] /\ pc[c] = "wait"
      BY <2>3
    <3>2. Waiting(c)
      BY <1>0, <3>1 DEF CleanInv, Good, Active, Settled, Stage
    <3>3. Len(outbound') = 0
      BY <2>1, <2>2, <3>2, EmptySeq DEF Waiting
    <3> QED
      BY <3>3 DEF OutboundInv
  <2>4. CASE ~\E c \in Calls : clean[c] /\ pc[c] = "wait"
    BY <1>0, <2>2, <2>4, OutboundShrinks
  <2> QED
    BY <2>3, <2>4
<1>6. ASSUME ReadReplyHeader \/ MisreadReplyHeader
             \/ FinishCreate \/ FinishAttributes
      PROVE  OutboundInv'
  <2>1. \E state \in PCs \ {"idle"} : pc' = [pc EXCEPT ![Head(jobs)] = state]
    BY <1>6 DEF ReadReplyHeader, MisreadReplyHeader, FinishCreate,
                FinishAttributes, Resume, PCs, Settled
  <2>2. /\ pc[Head(jobs)] # "wait" /\ outbound' = outbound /\ clean' = clean
    BY <1>6 DEF ReadReplyHeader, MisreadReplyHeader, FinishCreate,
                FinishAttributes
  <2>3. \A c \in Calls : /\ pc[c] # "idle" => pc'[c] # "idle"
                         /\ pc[c] = "wait" => pc'[c] = "wait"
    BY <1>1, <2>1, <2>2
  <2> QED
    BY <1>0, <2>2, <2>3, OutboundShrinks
<1>7. ASSUME pc' = pc, clean' = clean,
             \/ outbound' = outbound
             \/ outbound' = <<>>
             \/ outbound' = Drop(outbound, 3) /\ Len(outbound) >= 3
      PROVE  OutboundInv'
  <2>1. CASE outbound' = outbound
    BY <1>0, <1>7, <2>1, OutboundShrinks
  <2>2. CASE outbound' = <<>>
    BY <2>2, EmptySeq DEF OutboundInv
  <2>3. CASE outbound' = Drop(outbound, 3) /\ Len(outbound) >= 3
    <3>1. /\ Len(outbound') = Len(outbound) - 3
          /\ \A i \in 1 .. (Len(outbound) - 3) : outbound'[i] = outbound[3 + i]
      <4>1. 3 \in Nat /\ 3 <= Len(outbound)
        BY <1>1, <2>3
      <4> QED
        BY <1>1, <2>3, <4>1, DropType
    <3>2. \A i \in 1 .. (Len(outbound) - 3) : 3 + i \in 1 .. Len(outbound)
      BY <1>1
    <3>3. \A i \in 1 .. Len(outbound') :
            \E j \in 1 .. Len(outbound) : outbound'[i] = outbound[j]
      BY <3>1, <3>2
    <3> QED
      BY <1>0, <1>7, <3>3, OutboundShrinks
  <2> QED
    BY <1>7, <2>1, <2>2, <2>3
<1>8. CASE Close \/ PeerClose \/ ServerRefuses
  BY <1>7, <1>8 DEF Close, PeerClose, ServerRefuses, Parameters
<1>9. ASSUME NEW v \in Verdicts, NEW n \in 2 .. 3, ServerAnswers(v, n)
      PROVE  OutboundInv'
  BY <1>7, <1>9 DEF ServerAnswers, Parameters
<1>10. CASE UNCHANGED vars
  BY <1>7, <1>10 DEF vars
<1> QED
  BY <1>2, <1>3, <1>4, <1>5, <1>6, <1>8, <1>9, <1>10
     DEF Next, SetServerAttributes, CreateRequestParameterBlock,
         PrepareAndDescribe

\* What the steps other than a method entry, the end of a creation and the
\* server's answer leave alone.
LEMMA BlocksKept ==
  ASSUME TypeOK, [Next]_vars,
         \A d \in Calls : \A o, h : ~Start(d, o, h),
         ~FinishCreate,
         \A v \in Verdicts, n \in 2 .. 3 : ~ServerAnswers(v, n)
  PROVE  /\ op' = op /\ rpb' = rpb /\ verdict' = verdict
         /\ created' = created /\ currentRPB' = currentRPB
         /\ \A c \in Calls : op[c] = "create" /\ pc[c] = "done" =>
                               pc'[c] = "done" /\ (clean'[c] => clean[c])
<1> USE DEF caller, connection, stream, server, history
<1>1. pc \in [Calls -> PCs]
  BY DEF TypeOK
<1>2. ASSUME NEW d \in Calls,
             WriteField(d) \/ WriteRejected(d) \/ PrepareThrows(d)
      PROVE  /\ op' = op /\ rpb' = rpb /\ verdict' = verdict
             /\ created' = created /\ currentRPB' = currentRPB
             /\ clean' = clean
             /\ \A c \in Calls : pc[c] = "done" => pc'[c] = "done"
  BY <1>1, <1>2 DEF WriteField, WriteRejected, PrepareThrows
<1>3. ASSUME NEW n \in 1 .. Len(inbound), Deliver(n)
      PROVE  /\ op' = op /\ rpb' = rpb /\ verdict' = verdict
             /\ created' = created /\ currentRPB' = currentRPB
             /\ \A c \in Calls : clean'[c] => clean[c]
             /\ \A c \in Calls : pc[c] = "done" => pc'[c] = "done"
  BY <1>1, <1>3 DEF Deliver
<1>4. ASSUME ReadReplyHeader \/ MisreadReplyHeader \/ FinishAttributes
      PROVE  /\ op' = op /\ rpb' = rpb /\ verdict' = verdict
             /\ created' = created /\ currentRPB' = currentRPB
             /\ clean' = clean
             /\ \A c \in Calls : pc[c] = "done" => pc'[c] = "done"
  <2>1. /\ op' = op /\ rpb' = rpb /\ verdict' = verdict
        /\ created' = created /\ currentRPB' = currentRPB
        /\ clean' = clean
        /\ pc[Head(jobs)] # "done"
    BY <1>4 DEF ReadReplyHeader, MisreadReplyHeader, FinishAttributes
  <2>2. \E state \in PCs : pc' = [pc EXCEPT ![Head(jobs)] = state]
    BY <1>4 DEF ReadReplyHeader, MisreadReplyHeader, FinishAttributes,
                Resume, PCs, Settled
  <2> QED
    BY <1>1, <2>1, <2>2
<1>5. ASSUME Close \/ PeerClose \/ ServerRefuses
      PROVE  /\ op' = op /\ rpb' = rpb /\ verdict' = verdict
             /\ created' = created /\ currentRPB' = currentRPB
             /\ clean' = clean /\ pc' = pc
  BY <1>5 DEF Close, PeerClose, ServerRefuses
<1>6. CASE UNCHANGED vars
  BY <1>6 DEF vars
<1> QED
  BY <1>2, <1>3, <1>4, <1>5, <1>6
     DEF Next, SetServerAttributes, CreateRequestParameterBlock,
         PrepareAndDescribe

\* The server holds the block of every creation it carried out.
LEMMA NextCreatedInv == ExchangeInv /\ [Next]_vars => CreatedInv'
<1> SUFFICES ASSUME ExchangeInv, [Next]_vars
             PROVE  CreatedInv'
  OBVIOUS
<1> USE DEF caller, connection, stream, server, history
<1>0. TypeOK /\ CreatedInv /\ IdleInv
  BY DEF ExchangeInv
<1>1. ASSUME NEW d \in Calls, NEW o, NEW h, Start(d, o, h)
      PROVE  CreatedInv'
  <2>1. /\ verdict[d] = "none" /\ verdict' = verdict /\ created' = created
        /\ \A c \in Calls : c # d => op'[c] = op[c] /\ rpb'[c] = rpb[c]
    BY <1>0, <1>1 DEF Start, Begin, EncoderThrows, Enter, IdleInv, TypeOK
  <2> QED
    BY <1>0, <2>1 DEF CreatedInv
<1>2. ASSUME NEW v \in Verdicts, NEW n \in 2 .. 3, ServerAnswers(v, n)
      PROVE  CreatedInv'
  <2>1. PICK e : e = outbound[1].call
    OBVIOUS
  <2>2. /\ op' = op /\ rpb' = rpb
        /\ verdict' = [verdict EXCEPT ![e] = v]
        /\ created' = IF op[e] = "create" /\ v = "ok"
                      THEN created \cup {rpb[e]} ELSE created
    BY <1>2, <2>1 DEF ServerAnswers
  <2>3. verdict \in [Calls -> Verdicts \cup {"none"}]
    BY <1>0 DEF TypeOK
  <2> QED
    BY <1>0, <2>2, <2>3 DEF CreatedInv
<1>3. CASE FinishCreate
  BY <1>0, <1>3 DEF CreatedInv, FinishCreate
<1>4. ASSUME \A d \in Calls : \A o, h : ~Start(d, o, h),
             ~FinishCreate,
             \A v \in Verdicts, n \in 2 .. 3 : ~ServerAnswers(v, n)
      PROVE  CreatedInv'
  BY <1>0, <1>4, BlocksKept DEF CreatedInv
<1> QED
  BY <1>1, <1>2, <1>3, <1>4

\* A creation that resolves makes its block the current one; the block exists
\* when the call was clean.
LEMMA NextCurrentRPBCreated == IInv /\ [Next]_vars => CurrentRPBCreated'
<1> DEFINE Trusted == \A c \in Calls :
                        op[c] = "create" /\ pc[c] = "done" => clean[c]
<1> SUFFICES ASSUME IInv, [Next]_vars, Trusted'
             PROVE  currentRPB' \in created' \cup {NoRPB}
  BY DEF CurrentRPBCreated
<1> USE DEF caller, connection, stream, server, history
<1>0. TypeOK /\ CreatedInv /\ CleanInv /\ CurrentRPBCreated
  BY DEF IInv, ExchangeInv
<1>1. pc \in [Calls -> PCs] /\ op \in [Calls -> Ops]
  BY <1>0 DEF TypeOK
<1>2. ASSUME Trusted, currentRPB' = currentRPB, created \subseteq created'
      PROVE  currentRPB' \in created' \cup {NoRPB}
  BY <1>0, <1>2 DEF CurrentRPBCreated
<1>3. ASSUME NEW d \in Calls, NEW o, NEW h, Start(d, o, h)
      PROVE  currentRPB' \in created' \cup {NoRPB}
  <2>1. /\ currentRPB' = currentRPB /\ created' = created
        /\ \E state \in {"write", "failed"} : pc' = [pc EXCEPT ![d] = state]
        /\ pc[d] = "idle"
        /\ \A c \in Calls : c # d => op'[c] = op[c]
        /\ \A c \in Calls : c # d /\ clean'[c] => clean[c]
    BY <1>1, <1>3 DEF Start, Begin, EncoderThrows, Enter
  <2>2. ASSUME NEW c \in Calls, op[c] = "create", pc[c] = "done"
        PROVE  clean[c]
    <3>1. c # d /\ op'[c] = "create" /\ pc'[c] = "done"
      BY <1>1, <2>1, <2>2
    <3> QED
      BY <2>1, <3>1
  <2> QED
    BY <1>2, <2>1, <2>2
<1>4. ASSUME NEW v \in Verdicts, NEW n \in 2 .. 3, ServerAnswers(v, n)
      PROVE  currentRPB' \in created' \cup {NoRPB}
  <2>1. /\ currentRPB' = currentRPB /\ created \subseteq created'
        /\ op' = op /\ pc' = pc /\ clean' = clean
    BY <1>4 DEF ServerAnswers
  <2>2. Trusted
    BY <2>1
  <2> QED
    BY <1>2, <2>1, <2>2
<1>5. CASE FinishCreate
  <2>1. PICK e \in Calls : e = Head(jobs)
    BY <1>0, <1>5, HeadTailProperties DEF FinishCreate, TypeOK
  <2>2. /\ pc[e] = "read" /\ op[e] = "create" /\ op' = op
        /\ pc' = [pc EXCEPT ![e] = "done"]
        /\ currentRPB' = rpb[e] /\ clean' = clean /\ created' = created
    BY <1>5, <2>1 DEF FinishCreate, Resume
  <2>3. clean[e]
    BY <1>1, <2>2
  <2>4. verdict[e] = "ok"
    BY <1>0, <2>2, <2>3 DEF CleanInv, Good, Active, Settled, Stage, Reading
  <2>5. rpb[e] \in created
    BY <1>0, <2>2, <2>4 DEF CreatedInv
  <2> QED
    BY <2>2, <2>5
<1>6. ASSUME \A d \in Calls : \A o, h : ~Start(d, o, h),
             ~FinishCreate,
             \A v \in Verdicts, n \in 2 .. 3 : ~ServerAnswers(v, n)
      PROVE  currentRPB' \in created' \cup {NoRPB}
  <2>1. /\ op' = op /\ created' = created /\ currentRPB' = currentRPB
        /\ \A c \in Calls : op[c] = "create" /\ pc[c] = "done" =>
                              pc'[c] = "done" /\ (clean'[c] => clean[c])
    BY <1>0, <1>6, BlocksKept
  <2>2. Trusted
    BY <2>1
  <2> QED
    BY <1>2, <2>1, <2>2
<1> QED
  BY <1>3, <1>4, <1>5, <1>6

LEMMA InitIInv == Init => IInv
<1> SUFFICES ASSUME Init PROVE IInv
  OBVIOUS
<1>1. TypeOK
  BY InitTypeOK
<1>2. Len(<<>>) = 0
  BY EmptySeq
<1>3. IdleInv /\ CleanInv /\ CreatedInv /\ CurrentRPBCreated
  BY DEF Init, IdleInv, CleanInv, CreatedInv, CurrentRPBCreated
<1>4. ListenersInv /\ OutboundInv
  BY <1>2 DEF Init, ListenersInv, OutboundInv
<1> QED
  BY <1>1, <1>3, <1>4 DEF IInv, ExchangeInv

LEMMA NextIInv == IInv /\ [Next]_vars => IInv'
BY NextTypeOK, NextIdleInv, NextListenersInv, NextOutboundInv, NextCleanInv,
   NextCreatedInv, NextCurrentRPBCreated
   DEF IInv, ExchangeInv

\* The inductive invariant holds in every execution.
THEOREM Invariance == Spec => []IInv
BY InitIInv, NextIInv, PTL DEF Spec

\* A call that had a quiet connection to itself settles as the server decided,
\* for any number of calls before it, overlapping or not, on the same socket.
THEOREM CleanCallsAgree == Spec => []CleanCallAgrees
<1>1. IInv => CleanCallAgrees
  BY DEF IInv, ExchangeInv, CleanInv, Good, Outcome, CleanCallAgrees
<1> QED
  BY <1>1, Invariance, PTL

\* The current request parameter block exists on the server as long as every
\* creation that resolved was a clean call.
THEOREM CurrentRPBExists == Spec => []CurrentRPBCreated
<1>1. IInv => CurrentRPBCreated
  BY DEF IInv
<1> QED
  BY <1>1, Invariance, PTL

-----------------------------------------------------------------------------
(* Nothing is left behind *)

LEMMA FirstElement ==
  ASSUME NEW S, NEW s \in Seq(S), Len(s) >= 1
  PROVE  /\ s # <<>> /\ Head(s) = s[1]
         /\ Len(s) = 1 => Tail(s) = <<>>
<1>1. s # <<>>
  BY EmptySeq
<1>2. Head(s) = s[1]
  BY <1>1, NonEmpty
<1>3. ASSUME Len(s) = 1
      PROVE  Tail(s) = <<>>
  <2>1. Tail(s) \in Seq(S) /\ Len(Tail(s)) = 0
    BY <1>1, <1>3, HeadTailProperties
  <2> QED  BY <2>1, EmptySeq
<1> QED  BY <1>1, <1>2, <1>3

\* What the premise of NothingLeftBehind says.
Rest == socket = "open" /\ \A c \in Calls : pc[c] = "idle" \/ SettledClean(c)
Nothing == outbound = <<>> /\ inbound = <<>> /\ internalBuffer = <<>>

\* A step after which nothing is under way leaves nothing, if nothing was left
\* when no call is under way before it either.
LEMMA StartLeavesNothing ==
  ASSUME TypeOK, NEW c \in Calls, NEW o, NEW h, Start(c, o, h), Rest'
  PROVE  Nothing'
<1>1. PICK state \in {"write", "failed"} : Enter(c, o, h, state)
  BY DEF Start, Begin, EncoderThrows
<1>2. pc'[c] = state
  BY <1>1 DEF Enter, TypeOK
<1>3. clean'[c]
  BY <1>2 DEF Rest, SettledClean, Settled
<1>4. inbound = <<>> /\ outbound = <<>>
  BY <1>1, <1>3 DEF Enter
<1> QED  BY <1>1, <1>4 DEF Enter, Flush, Nothing

\* The steps of a woken call: it has taken its whole reply when it settles.
LEMMA ResumeLeavesNothing ==
  ASSUME IInv, Rest',
         ReadReplyHeader \/ MisreadReplyHeader \/ FinishCreate \/ FinishAttributes
  PROVE  Nothing'
<1> USE DEF connection, server, history
<1>0. TypeOK /\ CleanInv
  BY DEF IInv, ExchangeInv
<1>1. PICK c \in Calls : c = Head(jobs)
  BY <1>0, HeadTailProperties
     DEF TypeOK, ReadReplyHeader, MisreadReplyHeader, FinishCreate,
         FinishAttributes
<1>2. /\ pc[c] \in {"woken", "read"} /\ pc \in [Calls -> PCs]
      /\ \E state \in {"read", "done", "failed"} :
           pc' = [pc EXCEPT ![c] = state]
      /\ UNCHANGED <<op, clean, outbound, inbound>>
  BY <1>0, <1>1
     DEF TypeOK, ReadReplyHeader, MisreadReplyHeader, FinishCreate,
         FinishAttributes, Resume
<1>3. clean[c] /\ pc'[c] # "read"
  BY <1>2 DEF Rest, SettledClean, Settled
<1>4. Stage(c)
  BY <1>0, <1>2, <1>3 DEF CleanInv, Good, Active, Settled
<1>5. outbound' = <<>> /\ inbound' = <<>>
  BY <1>2, <1>4 DEF Stage, Woken, Reading
<1>6. PICK s \in Seq(ReplyPart) : s = internalBuffer
  BY <1>0 DEF TypeOK
<1>7. PICK m \in Nat : m = Len(s)
  BY <1>6, LenProperties
<1>8. m >= 1 => /\ s # <<>> /\ Head(s) = s[1]
                /\ m = 1 => Tail(s) = <<>>
  BY <1>7, FirstElement
<1>9. Drop(internalBuffer, m) = <<>>
  BY <1>7, <1>6, SubSeqEmpty DEF Drop
<1>10. CASE ReadReplyHeader
  <2>1. PICK h : h = Head(internalBuffer)
    OBVIOUS
  <2>2. Woken(c)
    BY <1>1, <1>4, <1>10 DEF Stage, ReadReplyHeader
  <2>3. PICK k \in 2 .. 3 : internalBuffer = Reply(c, verdict[c], k)
    BY <2>2 DEF Woken
  <2>4. m = k
    BY <1>7, <1>6, <2>2, <2>3, ReplyType DEF Woken
  <2>5. h = [call |-> c, verdict |-> verdict[c], part |-> 1, size |-> k]
    <3>1. internalBuffer # <<>> /\ h = internalBuffer[1]
      <4>1. m >= 1
        BY <2>4
      <4> QED  BY ONLY <1>6, <1>8, <2>1, <4>1
    <3> QED  BY <2>3, <3>1 DEF Reply
  <2>6. internalBuffer' = Drop(internalBuffer, h.size)
    BY <1>1, <1>2, <1>3, <1>10, <2>1 DEF ReadReplyHeader, Resume
  <2> QED  BY <1>5, <1>9, <2>4, <2>5, <2>6 DEF Nothing
<1>11. CASE MisreadReplyHeader
  <2>1. pc[c] = "woken" /\ ~HasHeader(internalBuffer)
    BY <1>1, <1>11 DEF MisreadReplyHeader
  <2> QED  BY <1>4, <2>1, ReplyHasHeader DEF Stage, Woken
<1>12. CASE FinishCreate \/ FinishAttributes
  <2>1. Reading(c) /\ m = heard[c].size - 2
    BY <1>1, <1>4, <1>7, <1>12, <1>6
       DEF Stage, FinishCreate, FinishAttributes, Reading
  <2>2. heard[c] # Garbage /\ heard[c].size \in 2 .. 3 /\ heard[c].call = c
    BY <2>1, ReplyPartTokens DEF Reading, ReplyPart
  <2>3. CASE FinishCreate
    <3>1. internalBuffer' = Drop(internalBuffer, m)
      BY <1>1, <2>1, <2>2, <2>3 DEF FinishCreate
    <3> QED  BY <1>5, <1>9, <3>1 DEF Nothing
  <2>4. CASE FinishAttributes /\ heard[c].size = 2
    <3>1. internalBuffer' = internalBuffer
      BY <1>1, <2>2, <2>4 DEF FinishAttributes
    <3>2. internalBuffer = <<>>
      <4>1. m = 0
        BY <2>1, <2>4
      <4> QED  BY <1>7, <1>6, <4>1, EmptySeq
    <3> QED  BY <1>5, <3>1, <3>2 DEF Nothing
  <2>5. CASE FinishAttributes /\ heard[c].size = 3
    <3>1. m = 1 /\ 1 \in 1 .. Len(internalBuffer)
      <4>1. m = 1
        BY <2>1, <2>5
      <4> QED  BY <1>7, <1>6, <4>1
    <3>2. /\ internalBuffer # <<>> /\ Tail(internalBuffer) = <<>>
          /\ Head(internalBuffer) = internalBuffer[1]
      BY <1>6, <1>8, <3>1
    <3>3. Head(internalBuffer) = [heard[c] EXCEPT !.part = 3]
      BY <2>1, <3>1, <3>2 DEF Reading
    <3>4. internalBuffer' = Tail(internalBuffer)
      BY <1>1, <2>2, <2>5, <3>2, <3>3 DEF FinishAttributes
    <3> QED  BY <1>5, <3>2, <3>4 DEF Nothing
  <2> QED  BY <1>12, <2>2, <2>3, <2>4, <2>5
<1> QED  BY <1>10, <1>11, <1>12

LEMMA NextNothingLeft ==
  IInv /\ NothingLeftBehind /\ [Next]_vars => NothingLeftBehind'
<1> SUFFICES ASSUME IInv, NothingLeftBehind, [Next]_vars, Rest'
             PROVE  Nothing'
  BY DEF NothingLeftBehind, Rest, Nothing
<1> USE DEF caller, connection, stream, server, history
<1>0. TypeOK /\ pc \in [Calls -> PCs]
  BY DEF IInv, ExchangeInv, TypeOK
<1>1. ASSUME UNCHANGED <<pc, op, socket>>, \A c \in Calls : clean'[c] => clean[c]
      PROVE  Nothing
  BY <1>1 DEF NothingLeftBehind, Rest, SettledClean, Nothing
<1>2. ASSUME NEW d \in Calls, WriteField(d)
      PROVE  FALSE
  BY <1>0, <1>2 DEF WriteField, Rest, SettledClean, Settled
<1>3. ASSUME NEW d \in Calls, WriteRejected(d) \/ PrepareThrows(d)
      PROVE  FALSE
  BY <1>0, <1>3
     DEF WriteRejected, PrepareThrows, Abandons, Rest, SettledClean
<1>4. ASSUME NEW n \in 1 .. Len(inbound), Deliver(n)
      PROVE  FALSE
  <2>1. /\ \A c \in Calls : pc'[c] = IF pc[c] = "wait" THEN "woken" ELSE pc[c]
        /\ \A c \in Calls : clean'[c] => clean[c]
        /\ UNCHANGED <<op, socket>>
    BY <1>4 DEF Deliver
  <2>2. \A c \in Calls : pc'[c] = pc[c]
    BY <2>1 DEF Rest, SettledClean, Settled
  <2>3. Nothing
    BY <2>1, <2>2 DEF NothingLeftBehind, Rest, SettledClean, Nothing
  <2> QED  BY <2>3, EmptySeq DEF Nothing
<1>5. ASSUME Close \/ PeerClose
      PROVE  FALSE
  BY <1>5 DEF Close, PeerClose, Rest
<1>6. ASSUME \/ \E v \in Verdicts, n \in 2 .. 3 : ServerAnswers(v, n)
             \/ ServerRefuses
      PROVE  FALSE
  <2>1. /\ Len(outbound) >= 3 /\ UNCHANGED <<pc, op, clean>>
        /\ socket' = "open" => socket = "open"
    BY <1>6 DEF ServerAnswers, ServerRefuses, Parameters
  <2>2. Nothing
    BY <2>1 DEF NothingLeftBehind, Rest, SettledClean, Nothing
  <2> QED  BY <2>1, <2>2, EmptySeq DEF Nothing
<1>7. CASE UNCHANGED vars
  BY <1>1, <1>7 DEF vars, Nothing
<1> QED
  BY <1>0, <1>2, <1>3, <1>4, <1>5, <1>6, <1>7, StartLeavesNothing,
     ResumeLeavesNothing
     DEF Next, SetServerAttributes, CreateRequestParameterBlock,
         PrepareAndDescribe

\* Clean calls that have settled leave nothing on the wire, nothing under way
\* and nothing in the buffer, whether they resolved or not.
THEOREM NothingIsLeftBehind == Spec => []NothingLeftBehind
<1>1. Init => NothingLeftBehind
  BY DEF Init, NothingLeftBehind
<1> QED
  BY <1>1, Invariance, NextNothingLeft, PTL DEF Spec

-----------------------------------------------------------------------------
(* Framing of the request stream *)

\* The stream is whole requests, then what the one call that writes has
\* written of its own.
OneWriter ==
  \A c, d \in Calls : pc[c] = "write" /\ pc[d] = "write" => c = d

WriterAtEnd ==
  \A c \in Calls : pc[c] = "write" /\ socket = "open" =>
    /\ Len(outbound) % 3 = field[c] - 1
    /\ \A j \in 1 .. (field[c] - 1) :
         outbound[Len(outbound) - (field[c] - 1) + j].call = c

WholeRequests ==
  (\A c \in Calls : pc[c] # "write") /\ socket = "open"
    => Len(outbound) % 3 = 0

FrameInv ==
  ~garbled => RequestsFramed /\ OneWriter /\ WriterAtEnd /\ WholeRequests

\* A server that takes three units off a framed stream leaves it framed.
LEMMA DropFrame ==
  ASSUME TypeOK, FrameInv, Len(outbound) >= 3, outbound' = Drop(outbound, 3),
         pc' = pc, field' = field, garbled' = garbled,
         socket' = "open" => socket = "open"
  PROVE  FrameInv'
<1> SUFFICES ASSUME ~garbled
             PROVE  /\ RequestsFramed' /\ OneWriter'
                    /\ WriterAtEnd' /\ WholeRequests'
  BY DEF FrameInv
<1>1. PICK n \in Nat : n = Len(outbound)
  BY LenProperties DEF TypeOK
<1>2. /\ Len(outbound') = n - 3
      /\ \A i \in 1 .. (n - 3) : outbound'[i] = outbound[3 + i]
  <2>1. 3 \in Nat /\ 3 <= Len(outbound) /\ outbound \in Seq(RequestField)
    BY <1>1 DEF TypeOK
  <2> QED
    BY <1>1, <2>1, DropType
<1>3. RequestsFramed /\ OneWriter /\ WriterAtEnd /\ WholeRequests
  BY DEF FrameInv
<1>4. n >= 3
  BY <1>1
<1>5. ASSUME NEW i \in 1 .. (n - 3)
      PROVE  /\ outbound'[i].field = ((i - 1) % 3) + 1
             /\ outbound'[i].call =
                  outbound'[i - outbound'[i].field + 1].call
  <2>1. 3 + i \in 1 .. n /\ (3 + i) - 1 \in Nat
    BY <1>4
  <2>2. /\ outbound[3 + i].field = (((3 + i) - 1) % 3) + 1
        /\ outbound[3 + i].call =
             outbound[(3 + i) - outbound[3 + i].field + 1].call
    BY <1>1, <1>3, <2>1 DEF RequestsFramed, Parameters
  <2>3. ((3 + i) - 1) % 3 = (i - 1) % 3 /\ (i - 1) % 3 \in 0 .. 2
    OBVIOUS
  <2>4. (i - 1) % 3 <= i - 1
    OBVIOUS
  <2>5. PICK f \in 1 .. 3 : f = outbound[3 + i].field
    BY <2>2, <2>3
  <2>6. i - f + 1 \in 1 .. (n - 3) /\ (3 + i) - f + 1 = 3 + (i - f + 1)
    BY <2>2, <2>3, <2>4, <2>5
  <2>7. outbound'[i] = outbound[3 + i]
    BY <1>2
  <2>8. outbound'[i - f + 1] = outbound[3 + (i - f + 1)]
    BY <1>2, <2>6
  <2> QED
    BY <2>2, <2>3, <2>5, <2>6, <2>7, <2>8
<1>6. RequestsFramed'
  BY <1>2, <1>5 DEF RequestsFramed, Parameters
<1>7. ASSUME NEW c \in Calls, pc[c] = "write", socket' = "open"
      PROVE  /\ Len(outbound') % 3 = field[c] - 1
             /\ \A j \in 1 .. (field[c] - 1) :
                  outbound'[Len(outbound') - (field[c] - 1) + j].call = c
  <2>1. PICK f \in 1 .. 3 : f = field[c]
    BY DEF TypeOK, Fields, Header, Parameters
  <2>2. /\ n % 3 = f - 1
        /\ \A j \in 1 .. (f - 1) : outbound[n - (f - 1) + j].call = c
    BY <1>1, <1>3, <1>7, <2>1 DEF WriterAtEnd
  <2>3. (n - 3) % 3 = f - 1 /\ n - 3 >= f - 1
    BY <1>4, <2>2
  <2>4. ASSUME NEW j \in 1 .. (f - 1)
        PROVE  outbound'[(n - 3) - (f - 1) + j].call = c
    <3>1. (n - 3) - (f - 1) + j \in 1 .. (n - 3)
      BY <2>3
    <3>2. 3 + ((n - 3) - (f - 1) + j) = n - (f - 1) + j
      OBVIOUS
    <3> QED
      BY <1>2, <2>2, <3>1, <3>2
  <2> QED
    BY <1>2, <2>1, <2>3, <2>4
<1>8. WriterAtEnd' /\ OneWriter'
  BY <1>3, <1>7 DEF WriterAtEnd, OneWriter
<1>9. WholeRequests'
  <2>1. ASSUME n % 3 = 0
        PROVE  (n - 3) % 3 = 0
    BY <1>4, <2>1
  <2> QED
    BY <1>1, <1>2, <1>3, <2>1 DEF WholeRequests
<1> QED
  BY <1>6, <1>8, <1>9

LEMMA WriteFieldFrame ==
  ASSUME TypeOK, FrameInv, NEW d \in Calls, WriteField(d)
  PROVE  FrameInv'
<1> USE DEF history
<1> SUFFICES ASSUME ~garbled
             PROVE  /\ RequestsFramed' /\ OneWriter'
                    /\ WriterAtEnd' /\ WholeRequests'
  BY DEF FrameInv, WriteField
<1>1. RequestsFramed /\ OneWriter /\ WriterAtEnd
  BY DEF FrameInv
<1>2. PICK n \in Nat : n = Len(outbound)
  BY LenProperties DEF TypeOK
<1>3. PICK f \in 1 .. 3 : f = field[d]
  BY DEF TypeOK, Fields, Header, Parameters
<1>4. /\ outbound' = Append(outbound, [call |-> d, field |-> f])
      /\ pc[d] = "write" /\ socket = "open" /\ socket' = "open"
  BY <1>3 DEF WriteField
<1>5. /\ Len(outbound') = n + 1
      /\ \A i \in 1 .. n : outbound'[i] = outbound[i]
      /\ outbound'[n + 1] = [call |-> d, field |-> f]
  BY <1>2, <1>4 DEF TypeOK
<1>6. /\ n % 3 = f - 1
      /\ \A j \in 1 .. (f - 1) : outbound[n - (f - 1) + j].call = d
  BY <1>1, <1>2, <1>3, <1>4 DEF WriterAtEnd
<1>7. n >= f - 1
  BY <1>6
<1>8. RequestsFramed'
  <2>1. ASSUME NEW i \in 1 .. n
        PROVE  /\ outbound'[i].field = ((i - 1) % 3) + 1
               /\ outbound'[i].call =
                    outbound'[i - outbound'[i].field + 1].call
    <3>1. /\ outbound[i].field = ((i - 1) % 3) + 1
          /\ outbound[i].call = outbound[i - outbound[i].field + 1].call
      BY <1>1, <1>2 DEF RequestsFramed, Parameters
    <3>2. i - (((i - 1) % 3) + 1) + 1 \in 1 .. n
      BY <2>1
    <3> QED
      BY <1>5, <3>1, <3>2
  <2>2. /\ outbound'[n + 1].field = (((n + 1) - 1) % 3) + 1
        /\ outbound'[n + 1].call =
             outbound'[(n + 1) - outbound'[n + 1].field + 1].call
    <3>1. outbound'[n + 1].field = f /\ outbound'[n + 1].call = d
      BY <1>5
    <3>2. outbound'[n + 1].field = (((n + 1) - 1) % 3) + 1
      <4>1. (n + 1) - 1 = n
        BY <1>2
      <4>2. (n % 3) + 1 = f
        BY <1>3, <1>6
      <4> QED  BY ONLY <3>1, <4>1, <4>2
    <3>3. outbound'[(n + 1) - f + 1].call = d
      <4>1. CASE f = 1
        <5>1. (n + 1) - f + 1 = n + 1
          BY <4>1
        <5> QED  BY ONLY <3>1, <5>1
      <4>2. CASE f > 1
        <5>1. /\ f - 1 \in 1 .. (f - 1) /\ 1 \in 1 .. (f - 1)
              /\ (n + 1) - f + 1 = n - (f - 1) + 1
              /\ n - (f - 1) + 1 \in 1 .. n
          BY <1>7, <4>2
        <5>2. outbound'[n - (f - 1) + 1] = outbound[n - (f - 1) + 1]
          BY ONLY <1>5, <5>1
        <5>3. outbound[n - (f - 1) + 1].call = d
          BY ONLY <1>6, <5>1
        <5> QED  BY ONLY <5>1, <5>2, <5>3
      <4> QED  BY <4>1, <4>2
    <3> QED  BY ONLY <3>1, <3>2, <3>3
  <2>3. \A i \in 1 .. (n + 1) : i \in 1 .. n \/ i = n + 1
    OBVIOUS
  <2> QED
    BY <1>5, <2>1, <2>2, <2>3 DEF RequestsFramed, Parameters
<1>9. pc \in [Calls -> PCs] /\ field \in [Calls -> Fields]
  BY DEF TypeOK
<1>10. OneWriter'
  <2>1. \A c \in Calls : c # d => pc'[c] = pc[c]
    BY <1>9 DEF WriteField
  <2> QED
    BY <1>1, <1>4, <2>1 DEF OneWriter
<1>11. CASE f = 3
  <2>1. pc'[d] = "wait" /\ \A c \in Calls : c # d => pc'[c] = pc[c]
    BY <1>3, <1>9, <1>11 DEF WriteField, Parameters
  <2>2. \A c \in Calls : pc'[c] # "write"
    BY <1>1, <1>4, <2>1 DEF OneWriter
  <2>3. (n + 1) % 3 = 0
    BY <1>6, <1>11
  <2> QED
    BY <1>5, <1>8, <1>10, <2>2, <2>3 DEF WriterAtEnd, WholeRequests
<1>12. CASE f # 3
  <2>1. pc' = pc /\ field'[d] = f + 1
    BY <1>3, <1>9, <1>12 DEF WriteField, Parameters
  <2>2. (n + 1) % 3 = f
    BY <1>6, <1>12
  <2>3. ASSUME NEW j \in 1 .. f
        PROVE  outbound'[(n + 1) - f + j].call = d
    <3>1. CASE j = f
      BY <1>5, <3>1
    <3>2. CASE j # f
      <4>1. /\ j \in 1 .. (f - 1) /\ (n + 1) - f + j = n - (f - 1) + j
            /\ n - (f - 1) + j \in 1 .. n
        BY <1>7, <3>2
      <4> QED
        BY <1>5, <1>6, <4>1
    <3> QED
      BY <3>1, <3>2
  <2>4. /\ Len(outbound') % 3 = field'[d] - 1
        /\ \A j \in 1 .. (field'[d] - 1) :
             outbound'[Len(outbound') - (field'[d] - 1) + j].call = d
    <3>1. field'[d] - 1 = f
      BY <2>1
    <3> QED
      BY <1>5, <2>2, <2>3, <3>1
  <2>5. WriterAtEnd'
    BY <1>1, <1>4, <2>1, <2>4 DEF WriterAtEnd, OneWriter
  <2>6. WholeRequests'
    BY <1>4, <2>1 DEF WholeRequests
  <2> QED
    BY <1>8, <1>10, <2>5, <2>6
<1> QED
  BY <1>11, <1>12

LEMMA NextFrameInv == IInv /\ FrameInv /\ [Next]_vars => FrameInv'
<1> SUFFICES ASSUME IInv, FrameInv, [Next]_vars
             PROVE  FrameInv'
  OBVIOUS
<1> USE DEF caller, connection, stream, server, history
<1>a. TypeOK /\ IdleInv
  BY DEF IInv, ExchangeInv
<1>0. pc \in [Calls -> PCs] /\ field \in [Calls -> Fields]
  BY <1>a DEF TypeOK
<1>1. ASSUME outbound' = outbound, field' = field,
             garbled' = garbled, socket' = "open" => socket = "open",
             \A c \in Calls : pc'[c] = "write" <=> pc[c] = "write"
      PROVE  FrameInv'
  BY <1>1 DEF FrameInv, RequestsFramed, OneWriter, WriterAtEnd, WholeRequests
<1>2. ASSUME NEW d \in Calls, NEW o, NEW h, Begin(d, o, h)
      PROVE  FrameInv'
  <2>1. CASE garbled'
    BY <2>1 DEF FrameInv
  <2>2. CASE ~garbled'
    <3>1. /\ ~garbled /\ \A c \in Calls : pc[c] # "write"
          /\ pc' = [pc EXCEPT ![d] = "write"] /\ field' = field
          /\ outbound' = outbound /\ socket' = socket
      BY <1>2, <2>2 DEF Begin, Enter
    <3>2. RequestsFramed' /\ WholeRequests
      BY <3>1 DEF FrameInv, RequestsFramed
    <3>3. \A c \in Calls : pc'[c] = "write" <=> c = d
      BY <1>0, <3>1
    <3>4. field[d] = 1
      BY <1>a, <1>2 DEF Begin, Enter, IdleInv, Header
    <3>5. OneWriter' /\ WholeRequests'
      BY <3>3 DEF OneWriter, WholeRequests
    <3>6. WriterAtEnd'
      <4>1. socket' = "open" => Len(outbound) % 3 = 0
        BY <3>1, <3>2 DEF WholeRequests
      <4> QED
        BY <3>1, <3>3, <3>4, <4>1 DEF WriterAtEnd
    <3> QED
      BY <3>2, <3>5, <3>6 DEF FrameInv
  <2> QED
    BY <2>1, <2>2
<1>3. ASSUME NEW d \in Calls, WriteField(d)
      PROVE  FrameInv'
  BY <1>a, <1>3, WriteFieldFrame
<1>4. ASSUME NEW d \in Calls, WriteRejected(d)
      PROVE  FrameInv'
  <2>1. /\ pc' = [pc EXCEPT ![d] = "failed"] /\ socket' # "open"
        /\ outbound' = outbound /\ garbled' = garbled
    BY <1>4 DEF WriteRejected
  <2>2. \A c \in Calls : pc'[c] = "write" => pc[c] = "write"
    BY <1>0, <2>1
  <2> QED
    BY <2>1, <2>2
       DEF FrameInv, RequestsFramed, OneWriter, WriterAtEnd, WholeRequests
<1>5. ASSUME NEW d \in Calls, PrepareThrows(d)
      PROVE  FrameInv'
  BY <1>5 DEF PrepareThrows, FrameInv
<1>6. ASSUME NEW n \in 1 .. Len(inbound), Deliver(n)
      PROVE  FrameInv'
  <2>1. \A c \in Calls : pc'[c] = "write" <=> pc[c] = "write"
    BY <1>0, <1>6 DEF Deliver
  <2> QED
    BY <1>1, <1>6, <2>1 DEF Deliver
<1>7. ASSUME ReadReplyHeader \/ MisreadReplyHeader
             \/ FinishCreate \/ FinishAttributes
      PROVE  FrameInv'
  <2>1. PICK e : e = Head(jobs)
    OBVIOUS
  <2>2. /\ pc[e] # "write"
        /\ \E state \in {"read", "done", "failed"} :
             pc' = [pc EXCEPT ![e] = state]
    BY <1>7, <2>1 DEF ReadReplyHeader, MisreadReplyHeader, FinishCreate,
                      FinishAttributes, Resume
  <2>3. /\ outbound' = outbound /\ field' = field
        /\ garbled' = garbled /\ socket' = socket
    BY <1>7 DEF ReadReplyHeader, MisreadReplyHeader, FinishCreate,
                FinishAttributes
  <2>4. \A c \in Calls : pc'[c] = "write" <=> pc[c] = "write"
    BY <1>0, <2>2
  <2> QED
    BY <1>1, <2>3, <2>4
<1>8. CASE Close
  BY <1>1, <1>8 DEF Close
<1>9. CASE PeerClose
  <2>1. outbound' = <<>> /\ socket' # "open" /\ pc' = pc /\ garbled' = garbled
    BY <1>9 DEF PeerClose
  <2>2. \A i \in 1 .. Len(outbound') : FALSE
    BY <2>1, EmptySeq
  <2> QED
    BY <2>1, <2>2
       DEF FrameInv, RequestsFramed, OneWriter, WriterAtEnd, WholeRequests
<1>10. ASSUME NEW v \in Verdicts, NEW n \in 2 .. 3, ServerAnswers(v, n)
       PROVE  FrameInv'
  <2>1. /\ Len(outbound) >= 3 /\ outbound' = Drop(outbound, 3)
        /\ pc' = pc /\ field' = field /\ garbled' = garbled
        /\ socket' = socket
    BY <1>10 DEF ServerAnswers, Parameters
  <2> QED
    BY <1>a, <2>1, DropFrame
<1>11. CASE ServerRefuses
  <2>1. CASE outbound' = <<>> /\ socket' # "open"
    <3>1. pc' = pc /\ garbled' = garbled
      BY <1>11 DEF ServerRefuses
    <3>2. \A i \in 1 .. Len(outbound') : FALSE
      BY <2>1, EmptySeq
    <3> QED
      BY <2>1, <3>1, <3>2
         DEF FrameInv, RequestsFramed, OneWriter, WriterAtEnd, WholeRequests
  <2>2. CASE outbound' = Drop(outbound, 3) /\ socket' = socket
    <3>1. /\ Len(outbound) >= 3 /\ pc' = pc /\ field' = field
          /\ garbled' = garbled
      BY <1>11 DEF ServerRefuses, Parameters
    <3> QED
      BY <1>a, <2>2, <3>1, DropFrame
  <2> QED
    BY <1>11, <2>1, <2>2 DEF ServerRefuses, Parameters
<1>12. CASE UNCHANGED vars
  BY <1>1, <1>12 DEF vars
<1>13. ASSUME NEW d \in Calls, NEW o, NEW h, EncoderThrows(d, o, h)
       PROVE  FrameInv'
  BY <1>0, <1>1, <1>13 DEF EncoderThrows, Enter
<1> QED
  BY <1>2, <1>3, <1>4, <1>5, <1>6, <1>7, <1>8, <1>9, <1>10, <1>11, <1>12, <1>13
     DEF Next, SetServerAttributes, CreateRequestParameterBlock,
         PrepareAndDescribe, Start

LEMMA InitFrameInv == Init => FrameInv
<1> SUFFICES ASSUME Init PROVE FrameInv
  OBVIOUS
<1>1. Len(outbound) = 0 /\ \A c \in Calls : pc[c] # "write"
  BY EmptySeq DEF Init
<1>2. Len(outbound) % 3 = 0 /\ \A i \in 1 .. Len(outbound) : FALSE
  BY <1>1
<1> QED
  BY <1>1, <1>2
     DEF FrameInv, RequestsFramed, OneWriter, WriterAtEnd, WholeRequests

\* While no two calls write at once and none gives up between two writes, the
\* server reads whole requests, however many calls overlap otherwise.
THEOREM RequestsStayFramed == Spec => []RequestsFramed
<1>1. FrameInv => RequestsFramed
  BY DEF FrameInv, RequestsFramed
<1> QED
  BY <1>1, Invariance, InitFrameInv, NextFrameInv, PTL DEF Spec

-----------------------------------------------------------------------------
(* No wakeup is missed *)

\* The last unit of the request of c is on the wire.
Asked(c) == \E i \in 1 .. Len(outbound) :
              outbound[i] = [call |-> c, field |-> Parameters]

\* A part of a reply to c is on its way back.
Answered(c) == \E i \in 1 .. Len(inbound) : inbound[i].call = c

\* What a framed stream starts with is a request.
LEMMA FramedIsWhole ==
  ASSUME TypeOK, FrameInv, ~garbled, Len(outbound) >= Parameters
  PROVE  WellFramed
<1>1. PICK m \in Nat : m = Len(outbound)
  BY LenProperties DEF TypeOK
<1>2. m >= 3
  BY <1>1 DEF Parameters
<1>3. \A i \in 1 .. 3 : i \in 1 .. m
  BY <1>2
<1>4. ASSUME NEW i \in 1 .. 3
      PROVE  /\ outbound[i].field = ((i - 1) % 3) + 1
             /\ outbound[i].call = outbound[i - outbound[i].field + 1].call
  BY <1>1, <1>3 DEF FrameInv, RequestsFramed, Parameters
<1>5. ASSUME NEW i \in 1 .. 3
      PROVE  outbound[i].field = i /\ outbound[i].call = outbound[1].call
  <2>1. ((i - 1) % 3) + 1 = i
    OBVIOUS
  <2>2. outbound[i].field = i
    BY <1>4, <2>1
  <2>3. outbound[i].call = outbound[i - i + 1].call /\ i - i + 1 = 1
    BY <1>4, <2>2
  <2> QED  BY <2>2, <2>3
<1>6. \A i \in 1 .. 3 : outbound[i] \in RequestField
  BY <1>1, <1>3, ElementOfSeq DEF TypeOK
<1>7. PICK c \in Calls : c = outbound[1].call
  BY <1>6 DEF RequestField
<1>8. \A i \in 1 .. 3 : outbound[i] = [call |-> c, field |-> i]
  BY <1>5, <1>6, <1>7 DEF RequestField
<1>9. \E d \in Calls : \A i \in 1 .. 3 : outbound[i] = [call |-> d, field |-> i]
  BY <1>8
<1> QED  BY <1>9, Framed

\* An answer to a call takes its request off the wire and is on its way back.
LEMMA ServerAnswersWakeup ==
  ASSUME TypeOK, NEW v \in Verdicts, NEW n \in 2 .. 3, ServerAnswers(v, n),
         socket = "open", NEW d \in Calls, Asked(d) \/ Answered(d)
  PROVE  Asked(d)' \/ Answered(d)'
<1>1. PICK m \in Nat : m = Len(outbound)
  BY LenProperties DEF TypeOK
<1>2. PICK k \in Nat : k = Len(inbound)
  BY LenProperties DEF TypeOK
<1>3. m >= 3 /\ WellFramed /\ outbound' = Drop(outbound, 3)
      /\ inbound' = inbound \o Reply(outbound[1].call, v, n)
  BY <1>1 DEF ServerAnswers, Parameters
<1>4. PICK c \in Calls :
        \A i \in 1 .. 3 : outbound[i] = [call |-> c, field |-> i]
  BY <1>1, <1>3, Framed DEF Parameters
<1>5. outbound[1].call = c
  BY <1>4
<1>6. /\ Len(inbound') = k + n
      /\ \A i \in 1 .. k : inbound'[i] = inbound[i]
      /\ inbound'[k + 1].call = c
  <2>1. PICK r \in Seq(ReplyPart) : r = Reply(c, v, n)
    BY ReplyType
  <2>2. Len(r) = n /\ r[1].call = c
    BY <2>1, ReplyType DEF Reply
  <2>3. inbound \in Seq(ReplyPart) /\ inbound' = inbound \o r
    BY <1>3, <1>5, <2>1 DEF TypeOK
  <2>4. /\ Len(inbound \o r) = Len(inbound) + Len(r)
        /\ \A i \in 1 .. Len(inbound) + Len(r) :
             (inbound \o r)[i] = IF i <= Len(inbound) THEN inbound[i]
                                 ELSE r[i - Len(inbound)]
    BY <2>3, ConcatProperties
  <2>5. \A i \in 1 .. k + n :
          inbound'[i] = IF i <= k THEN inbound[i] ELSE r[i - k]
    BY <1>2, <2>2, <2>3, <2>4
  <2>6. k + 1 \in 1 .. k + n /\ ~(k + 1 <= k) /\ (k + 1) - k = 1
    OBVIOUS
  <2>7. inbound'[k + 1] = r[1]
    BY <2>5, <2>6
  <2>8. \A i \in 1 .. k : i \in 1 .. k + n /\ i <= k
    OBVIOUS
  <2> QED  BY <1>2, <2>2, <2>3, <2>4, <2>5, <2>7, <2>8
<1>7. CASE Answered(d)
  <2>1. PICK i \in 1 .. k : inbound[i].call = d
    BY <1>2, <1>7 DEF Answered
  <2>2. i \in 1 .. k + n /\ inbound'[i].call = d
    BY <1>6, <2>1
  <2> QED  BY <1>6, <2>2 DEF Answered
<1>8. CASE Asked(d)
  <2>1. PICK i \in 1 .. m : outbound[i] = [call |-> d, field |-> Parameters]
    BY <1>1, <1>8 DEF Asked
  <2>2. CASE i <= 3
    <3>1. d = c
      BY <1>4, <2>1, <2>2
    <3>2. k + 1 \in 1 .. k + n
      OBVIOUS
    <3> QED  BY <1>6, <3>1, <3>2 DEF Answered
  <2>3. CASE i > 3
    <3>1. /\ Len(outbound') = m - 3
          /\ \A j \in 1 .. m - 3 : outbound'[j] = outbound[3 + j]
      <4>1. outbound \in Seq(RequestField) /\ 3 \in Nat /\ 3 <= Len(outbound)
        BY <1>1, <1>3 DEF TypeOK
      <4> QED  BY <1>1, <1>3, <4>1, DropType
    <3>2. i - 3 \in 1 .. m - 3 /\ 3 + (i - 3) = i
      BY <2>3
    <3>3. outbound'[i - 3] = [call |-> d, field |-> Parameters]
      BY <2>1, <3>1, <3>2
    <3> QED  BY <3>1, <3>2, <3>3 DEF Asked
  <2> QED  BY <1>1, <2>2, <2>3
<1> QED  BY <1>7, <1>8

\* A unit written leaves the others on the wire; the last one of a request is
\* there when its call begins to wait.
LEMMA WriteFieldWakeup ==
  ASSUME TypeOK, NEW c \in Calls, WriteField(c), NoWakeupMissed
  PROVE  NoWakeupMissed'
<1> USE DEF history
<1> SUFFICES ASSUME ~garbled, socket = "open",
                    NEW d \in Calls, pc'[d] = "wait"
             PROVE  Asked(d)' \/ Answered(d)'
  BY DEF WriteField, NoWakeupMissed, Asked, Answered
<1>1. PICK m \in Nat : m = Len(outbound)
  BY LenProperties DEF TypeOK
<1>2. /\ outbound \in Seq(RequestField) /\ field[c] \in Fields
      /\ pc \in [Calls -> PCs]
  BY DEF TypeOK
<1>3. /\ outbound' = Append(outbound, [call |-> c, field |-> field[c]])
      /\ inbound' = inbound
  BY DEF WriteField
<1>4. /\ Len(outbound') = m + 1
      /\ \A i \in 1 .. m : outbound'[i] = outbound[i]
      /\ outbound'[m + 1] = [call |-> c, field |-> field[c]]
  BY <1>1, <1>2, <1>3, AppendProperties DEF RequestField
<1>5. CASE pc[d] = "wait"
  <2>1. CASE Answered(d)
    BY <1>3, <2>1 DEF Answered
  <2>2. CASE Asked(d)
    <3>1. PICK i \in 1 .. m : outbound[i] = [call |-> d, field |-> Parameters]
      BY <1>1, <2>2 DEF Asked
    <3>2. i \in 1 .. m + 1 /\ outbound'[i] = [call |-> d, field |-> Parameters]
      BY <1>4, <3>1
    <3> QED  BY <1>4, <3>2 DEF Asked
  <2> QED  BY <1>5, <2>1, <2>2 DEF NoWakeupMissed, Asked, Answered
<1>6. CASE pc[d] # "wait"
  <2>1. d = c /\ field[c] = Parameters
    BY <1>2, <1>6 DEF WriteField
  <2>2. m + 1 \in 1 .. m + 1
    OBVIOUS
  <2> QED  BY <1>4, <2>1, <2>2 DEF Asked
<1> QED  BY <1>5, <1>6

LEMMA NextWakeup ==
  IInv /\ FrameInv /\ NoWakeupMissed /\ [Next]_vars => NoWakeupMissed'
<1> SUFFICES ASSUME IInv, FrameInv, NoWakeupMissed, [Next]_vars
             PROVE  NoWakeupMissed'
  OBVIOUS
<1> USE DEF caller, connection, stream, server, history
<1>0. TypeOK /\ pc \in [Calls -> PCs]
  BY DEF IInv, ExchangeInv, TypeOK
<1>1. ASSUME UNCHANGED <<outbound, inbound>>,
             ~garbled' => ~garbled,
             socket' = "open" => socket = "open",
             \A c \in Calls : pc'[c] = "wait" => pc[c] = "wait"
      PROVE  NoWakeupMissed'
  BY <1>1 DEF NoWakeupMissed
<1>2. ASSUME NEW d \in Calls, NEW o, NEW h, Start(d, o, h)
      PROVE  NoWakeupMissed'
  <2>1. PICK state \in {"write", "failed"} : Enter(d, o, h, state)
    BY <1>2 DEF Start, Begin, EncoderThrows
  <2>2. UNCHANGED <<outbound, inbound, socket>>
    BY <2>1 DEF Enter
  <2>3. ~garbled' => ~garbled
    BY <1>2 DEF Start, Begin, EncoderThrows
  <2>4. \A c \in Calls : pc'[c] = "wait" => pc[c] = "wait"
    BY <1>0, <2>1 DEF Enter
  <2> QED  BY <1>1, <2>2, <2>3, <2>4
<1>3. ASSUME NEW d \in Calls, WriteField(d)
      PROVE  NoWakeupMissed'
  BY <1>0, <1>3, WriteFieldWakeup
<1>4. ASSUME NEW d \in Calls, WriteRejected(d) \/ PrepareThrows(d)
      PROVE  NoWakeupMissed'
  <2>1. /\ UNCHANGED <<outbound, inbound, socket>>
        /\ ~garbled' => ~garbled
        /\ pc' = [pc EXCEPT ![d] = "failed"]
    BY <1>4 DEF WriteRejected, PrepareThrows
  <2>2. \A c \in Calls : pc'[c] = "wait" => pc[c] = "wait"
    BY <1>0, <2>1
  <2> QED  BY <1>1, <2>1, <2>2
<1>5. ASSUME NEW n \in 1 .. Len(inbound), Deliver(n)
      PROVE  NoWakeupMissed'
  <2>1. \A c \in Calls : pc'[c] # "wait"
    BY <1>5 DEF Deliver
  <2> QED  BY <2>1 DEF NoWakeupMissed
<1>6. ASSUME ReadReplyHeader \/ MisreadReplyHeader
             \/ FinishCreate \/ FinishAttributes
      PROVE  NoWakeupMissed'
  <2>1. PICK e : e = Head(jobs)
    OBVIOUS
  <2>2. \E state \in {"read", "done", "failed"} :
          pc' = [pc EXCEPT ![e] = state]
    BY <1>6, <2>1 DEF ReadReplyHeader, MisreadReplyHeader, FinishCreate,
                      FinishAttributes, Resume
  <2>3. UNCHANGED <<outbound, inbound, garbled, socket>>
    BY <1>6 DEF ReadReplyHeader, MisreadReplyHeader, FinishCreate,
                FinishAttributes
  <2>4. \A c \in Calls : pc'[c] = "wait" => pc[c] = "wait"
    BY <1>0, <2>2
  <2> QED  BY <1>1, <2>3, <2>4
<1>7. CASE Close \/ PeerClose
  BY <1>7 DEF Close, PeerClose, NoWakeupMissed
<1>8. ASSUME NEW v \in Verdicts, NEW n \in 2 .. 3, ServerAnswers(v, n)
      PROVE  NoWakeupMissed'
  <2> SUFFICES ASSUME ~garbled, socket = "open",
                      NEW d \in Calls, pc[d] = "wait"
               PROVE  Asked(d)' \/ Answered(d)'
    BY <1>8 DEF ServerAnswers, NoWakeupMissed, Asked, Answered
  <2>1. Asked(d) \/ Answered(d)
    BY DEF NoWakeupMissed, Asked, Answered
  <2> QED  BY <1>0, <1>8, <2>1, ServerAnswersWakeup
<1>9. CASE ServerRefuses
  <2>1. garbled
    BY <1>0, <1>9, FramedIsWhole DEF ServerRefuses
  <2> QED  BY <1>9, <2>1 DEF ServerRefuses, NoWakeupMissed
<1>10. CASE UNCHANGED vars
  BY <1>1, <1>10 DEF vars
<1> QED
  BY <1>2, <1>3, <1>4, <1>5, <1>6, <1>7, <1>8, <1>9, <1>10
     DEF Next, SetServerAttributes, CreateRequestParameterBlock,
         PrepareAndDescribe

\* As long as the stream is framed and the connection lives, no call waits for
\* something that is neither asked nor answered: the chunk that carries its
\* reply still lies ahead of it, for any number of overlapping calls.
THEOREM WakeupsNeverMissed == Spec => []NoWakeupMissed
<1>1. Init => NoWakeupMissed
  BY DEF Init, NoWakeupMissed
<1> QED
  BY <1>1, Invariance, InitFrameInv, NextFrameInv, NextWakeup, PTL DEF Spec

-----------------------------------------------------------------------------
(* Each call is resumed once *)

Waiters == {c \in Calls : pc[c] = "wait"}
Queued == {c \in Calls : pc[c] \in {"woken", "read"}}

\* Among the microtasks, calls that have read their header come last.
ReadersLast ==
  \A i, j \in 1 .. Len(jobs) :
    i < j /\ pc[jobs[i]] = "read" => pc[jobs[j]] = "read"

\* Both lists, by name.
LEMMA ListsOf ==
  EachResumedOnce <=>
    /\ ListedOnce(listeners, Waiters)
    /\ ListedOnce(jobs, Queued)
    /\ ReadersLast
BY DEF EachResumedOnce, Waiters, Queued, ReadersLast

LEMMA EmptyList ==
  /\ ListedOnce(<<>>, {})
  /\ \A group : ListedOnce(<<>>, group) => group = {}
<1>1. Len(<<>>) = 0 /\ 1 .. 0 = {}
  BY EmptySeq
<1> QED  BY <1>1 DEF ListedOnce

\* What is added to a list was not in it.
LEMMA ListAppend ==
  ASSUME NEW list \in Seq(Calls), NEW group, ListedOnce(list, group),
         NEW c \in Calls, c \notin group
  PROVE  ListedOnce(Append(list, c), group \cup {c})
<1>1. PICK m \in Nat : m = Len(list)
  BY LenProperties
<1>2. PICK longer \in Seq(Calls) : longer = Append(list, c)
  BY AppendProperties
<1>3. /\ Len(longer) = m + 1 /\ longer[m + 1] = c
      /\ \A i \in 1 .. m : longer[i] = list[i]
  BY <1>1, <1>2, AppendProperties
<1>4. /\ {list[i] : i \in 1 .. m} = group
      /\ \A i, j \in 1 .. m : list[i] = list[j] => i = j
  BY <1>1 DEF ListedOnce
<1>5. {longer[i] : i \in 1 .. (m + 1)} = group \cup {c}
  <2>1. 1 .. (m + 1) = (1 .. m) \cup {m + 1}
    BY <1>1
  <2> QED  BY <1>3, <1>4, <2>1
<1>6. ASSUME NEW i \in 1 .. (m + 1), NEW j \in 1 .. (m + 1),
             longer[i] = longer[j]
      PROVE  i = j
  <2>1. \A k \in 1 .. m : longer[k] # c
    BY <1>3, <1>4
  <2>2. i \in 1 .. m \/ i = m + 1
    BY <1>1
  <2>3. j \in 1 .. m \/ j = m + 1
    BY <1>1
  <2> QED  BY <1>3, <1>4, <1>6, <2>1, <2>2, <2>3
<1> QED  BY <1>2, <1>3, <1>5, <1>6 DEF ListedOnce

\* What is taken off the head of a list is not in it any more.
LEMMA ListTail ==
  ASSUME NEW list \in Seq(Calls), list # <<>>, NEW group,
         ListedOnce(list, group)
  PROVE  /\ Head(list) \in group
         /\ ListedOnce(Tail(list), group \ {Head(list)})
<1>1. PICK m \in Nat : m = Len(list)
  BY LenProperties
<1>2. m > 0
  BY <1>1, NonEmpty
<1>3. PICK rest \in Seq(Calls) : rest = Tail(list)
  BY HeadTailProperties
<1>4. /\ Len(rest) = m - 1 /\ Head(list) = list[1]
      /\ \A i \in 1 .. (m - 1) : rest[i] = list[i + 1]
  BY <1>1, <1>3, NonEmpty, HeadTailProperties
<1>5. /\ {list[i] : i \in 1 .. m} = group
      /\ \A i, j \in 1 .. m : list[i] = list[j] => i = j
  BY <1>1 DEF ListedOnce
<1>6. ASSUME NEW x
      PROVE  x \in {rest[i] : i \in 1 .. (m - 1)} <=> x \in group \ {list[1]}
  <2>1. ASSUME NEW i \in 1 .. (m - 1), x = rest[i]
        PROVE  x \in group \ {list[1]}
    <3>1. i + 1 \in 1 .. m /\ 1 \in 1 .. m /\ i + 1 # 1
      BY <1>2
    <3> QED  BY <1>4, <1>5, <2>1, <3>1
  <2>2. ASSUME NEW k \in 1 .. m, x = list[k], x # list[1]
        PROVE  x \in {rest[i] : i \in 1 .. (m - 1)}
    <3>1. k - 1 \in 1 .. (m - 1) /\ (k - 1) + 1 = k
      BY <1>2, <2>2
    <3> QED  BY <1>4, <2>2, <3>1
  <2> QED  BY <1>5, <2>1, <2>2
<1>7. ASSUME NEW i \in 1 .. (m - 1), NEW j \in 1 .. (m - 1), rest[i] = rest[j]
      PROVE  i = j
  <2>1. i + 1 \in 1 .. m /\ j + 1 \in 1 .. m
    BY <1>2
  <2>2. i + 1 = j + 1
    BY <1>4, <1>5, <1>7, <2>1
  <2> QED  BY <2>2
<1>8. list[1] \in group
  BY <1>2, <1>5
<1>9. {rest[i] : i \in 1 .. (m - 1)} = group \ {list[1]}
  BY <1>6
<1> QED  BY <1>3, <1>4, <1>7, <1>8, <1>9 DEF ListedOnce

\* Steps that leave the lists alone, and who waits and who is queued.
LEMMA ListsKept ==
  ASSUME TypeOK, EachResumedOnce, listeners' = listeners, jobs' = jobs,
         \A c \in Calls : \/ pc'[c] = pc[c]
                          \/ {pc[c], pc'[c]} \cap {"wait", "woken", "read"} = {}
  PROVE  EachResumedOnce'
<1>1. Waiters' = Waiters /\ Queued' = Queued
  BY DEF Waiters, Queued
<1>2. ListedOnce(listeners, Waiters) /\ ListedOnce(jobs, Queued) /\ ReadersLast
  BY ListsOf
<1>3. ASSUME NEW i \in 1 .. Len(jobs)
      PROVE  pc'[jobs[i]] = "read" <=> pc[jobs[i]] = "read"
  <2>1. jobs[i] \in Calls
    BY ElementOfSeq DEF TypeOK
  <2> QED  BY <2>1
<1>4. ReadersLast'
  BY <1>2, <1>3 DEF ReadersLast
<1> QED
  BY <1>1, <1>2, <1>4
     DEF EachResumedOnce, ListedOnce, Waiters, Queued, ReadersLast

\* The call at the head of the microtasks runs: it settles, or goes to the end
\* of the queue with its header read.
LEMMA ResumeListed ==
  ASSUME TypeOK, EachResumedOnce, jobs # <<>>,
         NEW state \in {"read", "done", "failed"}, Resume(Head(jobs), state),
         state = "read" => pc[Head(jobs)] = "woken",
         listeners' = listeners
  PROVE  EachResumedOnce'
<1>1. ListedOnce(listeners, Waiters) /\ ListedOnce(jobs, Queued) /\ ReadersLast
  BY ListsOf
<1>2. jobs \in Seq(Calls) /\ pc \in [Calls -> PCs]
  BY DEF TypeOK
<1>3. PICK c : c = Head(jobs)
  OBVIOUS
<1>4. c \in Queued /\ ListedOnce(Tail(jobs), Queued \ {c})
  BY <1>1, <1>2, <1>3, ListTail
<1>5. c \in Calls /\ pc[c] \in {"woken", "read"}
  BY <1>4 DEF Queued
<1>6. pc' = [pc EXCEPT ![c] = state]
  BY <1>3 DEF Resume
<1>7. Waiters' = Waiters
  BY <1>2, <1>5, <1>6 DEF Waiters
<1>8. PICK rest \in Seq(Calls) : rest = Tail(jobs)
  BY <1>2, HeadTailProperties
<1>9. ListedOnce(rest, Queued \ {c})
  BY <1>4, <1>8
\* What is left of the queue is in its order.
<1>10. PICK m \in Nat : m = Len(jobs)
  BY <1>2, LenProperties
<1>11. /\ Len(rest) = m - 1 /\ m > 0
       /\ \A i \in 1 .. (m - 1) : rest[i] = jobs[i + 1]
  BY <1>2, <1>8, <1>10, NonEmpty, HeadTailProperties
<1>12. ASSUME NEW i \in 1 .. (m - 1)
       PROVE  rest[i] \in Queued /\ rest[i] # c /\ pc'[rest[i]] = pc[rest[i]]
  <2>1. rest[i] \in Queued \ {c}
    BY <1>9, <1>11 DEF ListedOnce
  <2>2. rest[i] \in Calls
    BY <2>1 DEF Queued
  <2> QED  BY <1>2, <1>5, <1>6, <2>1, <2>2
<1>13. ASSUME NEW i \in 1 .. (m - 1), NEW j \in 1 .. (m - 1), i < j,
              pc'[rest[i]] = "read"
       PROVE  pc'[rest[j]] = "read"
  <2>1. i + 1 \in 1 .. m /\ j + 1 \in 1 .. m /\ i + 1 < j + 1
    BY <1>11, <1>13
  <2>2. pc[jobs[i + 1]] = "read" => pc[jobs[j + 1]] = "read"
    BY <1>1, <1>10, <2>1 DEF ReadersLast
  <2> QED  BY <1>11, <1>12, <1>13, <2>2
<1>14. CASE state = "read"
  <2>1. jobs' = Append(rest, c) /\ pc'[c] = "read"
    BY <1>2, <1>3, <1>5, <1>6, <1>8, <1>14 DEF Resume
  <2>2. ListedOnce(jobs', (Queued \ {c}) \cup {c})
    BY <1>5, <1>9, <2>1, ListAppend
  <2>3. Queued' = (Queued \ {c}) \cup {c}
    BY <1>2, <1>5, <1>6, <1>14 DEF Queued
  <2>4. /\ Len(jobs') = m /\ jobs'[m] = c
        /\ \A i \in 1 .. (m - 1) : jobs'[i] = rest[i]
    BY <1>5, <1>8, <1>11, <2>1, AppendProperties
  <2>5. ASSUME NEW i \in 1 .. m, NEW j \in 1 .. m, i < j,
               pc'[jobs'[i]] = "read"
        PROVE  pc'[jobs'[j]] = "read"
    <3>1. i \in 1 .. (m - 1) /\ (j \in 1 .. (m - 1) \/ j = m)
      BY <2>5
    <3> QED  BY <1>13, <2>1, <2>4, <2>5, <3>1
  <2>6. ReadersLast'
    BY <2>4, <2>5 DEF ReadersLast
  <2> QED
    BY <1>1, <1>7, <2>2, <2>3, <2>6
       DEF EachResumedOnce, ListedOnce, Waiters, Queued, ReadersLast
<1>15. CASE state # "read"
  <2>1. jobs' = rest
    BY <1>3, <1>8, <1>15 DEF Resume
  <2>2. Queued' = Queued \ {c}
    BY <1>2, <1>5, <1>6, <1>15 DEF Queued
  <2>3. ReadersLast'
    BY <1>11, <1>13, <2>1 DEF ReadersLast
  <2> QED
    BY <1>1, <1>7, <1>9, <2>1, <2>2, <2>3
       DEF EachResumedOnce, ListedOnce, Waiters, Queued, ReadersLast
<1> QED  BY <1>14, <1>15

LEMMA WriteFieldListed ==
  ASSUME TypeOK, EachResumedOnce, NEW d \in Calls, WriteField(d)
  PROVE  EachResumedOnce'
<1>1. /\ pc \in [Calls -> PCs] /\ listeners \in Seq(Calls)
      /\ pc[d] = "write" /\ jobs' = jobs /\ jobs = <<>>
  BY DEF TypeOK, WriteField
<1>2. ListedOnce(listeners, Waiters) /\ ListedOnce(jobs, Queued)
  BY ListsOf
<1>3. CASE field[d] = Parameters
  <2>1. listeners' = Append(listeners, d) /\ pc' = [pc EXCEPT ![d] = "wait"]
    BY <1>3 DEF WriteField
  <2>2. d \notin Waiters
    BY <1>1 DEF Waiters
  <2>3. ListedOnce(listeners', Waiters \cup {d})
    BY <1>1, <1>2, <2>1, <2>2, ListAppend
  <2>4. Waiters' = Waiters \cup {d} /\ Queued' = Queued
    BY <1>1, <2>1 DEF Waiters, Queued
  <2>5. ReadersLast'
    <3>1. Len(jobs') = 0
      BY <1>1, EmptySeq
    <3> QED  BY <3>1 DEF ReadersLast
  <2> QED
    BY <1>1, <1>2, <2>3, <2>4, <2>5
       DEF EachResumedOnce, ListedOnce, Waiters, Queued, ReadersLast
<1>4. CASE field[d] # Parameters
  <2>1. pc' = pc /\ listeners' = listeners
    BY <1>4 DEF WriteField
  <2> QED  BY <1>1, <2>1, ListsKept
<1> QED  BY <1>3, <1>4

\* A chunk wakes every listener, in their order.
LEMMA DeliverListed ==
  ASSUME TypeOK, EachResumedOnce, NEW n \in 1 .. Len(inbound), Deliver(n)
  PROVE  EachResumedOnce'
<1>1. /\ pc \in [Calls -> PCs] /\ listeners \in Seq(Calls) /\ jobs = <<>>
      /\ jobs' = listeners /\ listeners' = <<>>
      /\ \A c \in Calls : pc'[c] = IF pc[c] = "wait" THEN "woken" ELSE pc[c]
  BY DEF TypeOK, Deliver
<1>2. ListedOnce(listeners, Waiters) /\ Queued = {}
  BY <1>1, ListsOf, EmptyList
<1>3. Queued' = Waiters
  BY <1>1, <1>2 DEF Queued, Waiters
<1>4. Waiters' = {}
  BY <1>1 DEF Waiters
<1>5. ASSUME NEW i \in 1 .. Len(listeners)
      PROVE  pc'[jobs'[i]] = "woken"
  <2>1. listeners[i] \in Waiters
    BY <1>2 DEF ListedOnce
  <2> QED  BY <1>1, <2>1 DEF Waiters
<1>6. ReadersLast'
  BY <1>1, <1>5 DEF ReadersLast
<1>7. ListedOnce(listeners', Waiters')
  BY <1>1, <1>4, EmptyList
<1> QED
  BY <1>1, <1>2, <1>3, <1>6, <1>7
     DEF EachResumedOnce, ListedOnce, Waiters, Queued, ReadersLast

LEMMA NextListed == TypeOK /\ EachResumedOnce /\ [Next]_vars => EachResumedOnce'
<1> SUFFICES ASSUME TypeOK, EachResumedOnce, [Next]_vars
             PROVE  EachResumedOnce'
  OBVIOUS
<1> USE DEF caller, connection, stream, server, history
<1>1. pc \in [Calls -> PCs]
  BY DEF TypeOK
<1>2. ASSUME NEW d \in Calls, NEW o, NEW h, Start(d, o, h)
      PROVE  EachResumedOnce'
  <2>1. /\ listeners' = listeners /\ jobs' = jobs
        /\ pc[d] = "idle"
        /\ \E state \in {"write", "failed"} : pc' = [pc EXCEPT ![d] = state]
    BY <1>2 DEF Start, Begin, EncoderThrows, Enter
  <2> QED  BY <1>1, <2>1, ListsKept
<1>3. ASSUME NEW d \in Calls, WriteRejected(d) \/ PrepareThrows(d)
      PROVE  EachResumedOnce'
  <2>1. /\ listeners' = listeners /\ jobs' = jobs
        /\ pc[d] = "write" /\ pc' = [pc EXCEPT ![d] = "failed"]
    BY <1>3 DEF WriteRejected, PrepareThrows
  <2> QED  BY <1>1, <2>1, ListsKept
<1>4. ASSUME ReadReplyHeader \/ MisreadReplyHeader
      PROVE  EachResumedOnce'
  <2>1. /\ listeners' = listeners /\ jobs # <<>> /\ pc[Head(jobs)] = "woken"
        /\ Resume(Head(jobs), "read") \/ Resume(Head(jobs), "failed")
    BY <1>4 DEF ReadReplyHeader, MisreadReplyHeader
  <2> QED  BY <2>1, ResumeListed
<1>5. ASSUME FinishCreate \/ FinishAttributes
      PROVE  EachResumedOnce'
  <2>1. /\ listeners' = listeners /\ jobs # <<>>
        /\ Resume(Head(jobs), "done") \/ Resume(Head(jobs), "failed")
    BY <1>5 DEF FinishCreate, FinishAttributes
  <2> QED  BY <2>1, ResumeListed
<1>6. ASSUME Close \/ PeerClose \/ ServerRefuses
      PROVE  EachResumedOnce'
  BY <1>6, ListsKept DEF Close, PeerClose, ServerRefuses
<1>7. ASSUME NEW v \in Verdicts, NEW n \in 2 .. 3, ServerAnswers(v, n)
      PROVE  EachResumedOnce'
  BY <1>7, ListsKept DEF ServerAnswers
<1>8. CASE UNCHANGED vars
  BY <1>8, ListsKept DEF vars
<1> QED
  BY <1>2, <1>3, <1>4, <1>5, <1>6, <1>7, <1>8, WriteFieldListed, DeliverListed
     DEF Next, SetServerAttributes, CreateRequestParameterBlock,
         PrepareAndDescribe

LEMMA InitListed == Init => EachResumedOnce
<1> SUFFICES ASSUME Init PROVE EachResumedOnce
  OBVIOUS
<1>1. /\ listeners = <<>> /\ jobs = <<>> /\ Len(<<>>) = 0
      /\ Waiters = {} /\ Queued = {}
  BY EmptySeq DEF Init, Waiters, Queued
<1>2. ReadersLast
  BY <1>1 DEF ReadersLast
<1> QED  BY <1>1, <1>2, EmptyList, ListsOf

\* Whoever else is under way, and however chunks are cut, a call that waits is
\* woken by one chunk, reads one header and settles once: no listener is left
\* behind by a call that settled, and none is missing.
THEOREM ResumedOnce == Spec => []EachResumedOnce
<1>1. IInv => TypeOK
  BY DEF IInv, ExchangeInv
<1> QED  BY <1>1, Invariance, InitListed, NextListed, PTL DEF Spec

-----------------------------------------------------------------------------
(* Calls never wait on one another *)

\* prepareAndDescribe() throws before it waits for anything.
PrepareStops ==
  \A c \in Calls : op[c] = "prepare" =>
    /\ pc[c] \notin {"wait", "woken", "read"}
    /\ pc[c] = "write" => field[c] \in {Header, Template}

LEMMA PrepareKept ==
  ASSUME PrepareStops, op' = op, field' = field,
         \A c \in Calls : \/ pc'[c] = pc[c] \/ pc'[c] \in Settled
                          \/ pc[c] \in {"wait", "woken"}
  PROVE  PrepareStops'
BY DEF PrepareStops, Settled

LEMMA NextPrepareStops ==
  TypeOK /\ IdleInv /\ PrepareStops /\ [Next]_vars => PrepareStops'
<1> SUFFICES ASSUME TypeOK, IdleInv, PrepareStops, [Next]_vars
             PROVE  PrepareStops'
  OBVIOUS
<1> USE DEF caller, connection, stream, server, history
<1>1. /\ pc \in [Calls -> PCs] /\ op \in [Calls -> Ops]
      /\ field \in [Calls -> Fields] /\ jobs \in Seq(Calls)
  BY DEF TypeOK
<1>2. ASSUME NEW d \in Calls, NEW o, NEW h, Start(d, o, h)
      PROVE  PrepareStops'
  <2>1. /\ op' = [op EXCEPT ![d] = o]
        /\ \E state \in {"write", "failed"} : pc' = [pc EXCEPT ![d] = state]
        /\ field' = field /\ pc[d] = "idle" /\ field[d] = Header
    BY <1>2 DEF Start, Begin, EncoderThrows, Enter, IdleInv
  <2> QED  BY <1>1, <2>1 DEF PrepareStops
<1>3. ASSUME NEW d \in Calls, WriteField(d)
      PROVE  PrepareStops'
  <2>1. /\ op' = op /\ pc[d] = "write"
        /\ \A c \in Calls : c # d => pc'[c] = pc[c] /\ field'[c] = field[c]
    BY <1>1, <1>3 DEF WriteField
  <2>2. ASSUME op[d] = "prepare"
        PROVE  pc'[d] = "write" /\ field'[d] = Template
    <3>1. field[d] = Header
      BY <1>3, <2>1, <2>2 DEF WriteField, Abandons, PrepareStops
    <3> QED
      BY <1>1, <1>3, <2>1, <3>1
         DEF WriteField, Header, Template, Parameters
  <2> QED  BY <2>1, <2>2 DEF PrepareStops
<1>4. ASSUME NEW d \in Calls, WriteRejected(d) \/ PrepareThrows(d)
      PROVE  PrepareStops'
  <2>1. op' = op /\ field' = field /\ pc' = [pc EXCEPT ![d] = "failed"]
    BY <1>4 DEF WriteRejected, PrepareThrows
  <2> QED  BY <1>1, <2>1, PrepareKept DEF Settled
<1>5. ASSUME NEW n \in 1 .. Len(inbound), Deliver(n)
      PROVE  PrepareStops'
  BY <1>5, PrepareKept DEF Deliver
<1>6. ASSUME ReadReplyHeader \/ MisreadReplyHeader
             \/ FinishCreate \/ FinishAttributes
      PROVE  PrepareStops'
  <2>1. PICK c : c = Head(jobs)
    OBVIOUS
  <2>2. /\ op' = op /\ field' = field
        /\ \E state \in {"read"} \cup Settled :
             /\ pc' = [pc EXCEPT ![c] = state]
             /\ state = "read" => pc[c] = "woken"
    BY <1>6, <2>1 DEF ReadReplyHeader, MisreadReplyHeader, FinishCreate,
                      FinishAttributes, Resume, Settled
  <2> QED  BY <1>1, <2>2, PrepareKept
<1>7. ASSUME Close \/ PeerClose \/ ServerRefuses
      PROVE  PrepareStops'
  BY <1>7, PrepareKept DEF Close, PeerClose, ServerRefuses
<1>8. ASSUME NEW v \in Verdicts, NEW n \in 2 .. 3, ServerAnswers(v, n)
      PROVE  PrepareStops'
  BY <1>8, PrepareKept DEF ServerAnswers
<1>9. CASE UNCHANGED vars
  BY <1>9, PrepareKept DEF vars
<1> QED
  BY <1>2, <1>3, <1>4, <1>5, <1>6, <1>7, <1>8, <1>9
     DEF Next, SetServerAttributes, CreateRequestParameterBlock,
         PrepareAndDescribe

\* The guards of the steps that fairness is about: a microtask, a write, a
\* chunk, an answer to three units.
CanProceed ==
  \/ /\ jobs # <<>>
     /\ \/ pc[Head(jobs)] = "woken"
        \/ pc[Head(jobs)] = "read" /\ op[Head(jobs)] \in {"create", "attributes"}
  \/ /\ jobs = <<>>
     /\ \/ \E c \in Calls : pc[c] = "write"
        \/ inbound # <<>>
        \/ Len(outbound) >= Parameters

\* As long as the stream is framed and the connection lives, there is no state
\* in which calls are under way and everybody waits: overlapping calls never
\* wait on one another, and no wakeup leaves a call without its turn.
THEOREM CallsNeverStuck ==
  Spec => [](~garbled /\ socket = "open" /\ (\E c \in Calls : Active(c))
               => CanProceed)
<1> DEFINE Stuck ==
      ~garbled /\ socket = "open" /\ (\E c \in Calls : Active(c)) /\ ~CanProceed
<1>1. ASSUME TypeOK, EachResumedOnce, PrepareStops, RequestsFramed,
             NoWakeupMissed, Stuck
      PROVE  FALSE
  <2>1. PICK c \in Calls : Active(c)
    BY <1>1
  <2>2. ListedOnce(jobs, Queued)
    BY <1>1, ListsOf
  <2>3. jobs = <<>>
    <3>1. SUFFICES ASSUME jobs # <<>> PROVE FALSE
      OBVIOUS
    <3>2. Head(jobs) \in Queued
      BY <1>1, <2>2, <3>1, ListTail DEF TypeOK
    <3> QED
      BY <1>1, <3>1, <3>2 DEF Queued, CanProceed, PrepareStops, TypeOK, Ops
  <2>4. pc[c] = "wait"
    <3>1. c \notin Queued
      BY <2>2, <2>3, EmptyList
    <3> QED
      BY <1>1, <2>1, <2>3, <3>1
         DEF Queued, Active, CanProceed, TypeOK, PCs, Settled
  <2>5. CASE inbound = <<>>
    <3>1. Len(inbound) = 0
      BY <2>5, EmptySeq
    <3>2. PICK m \in Nat : m = Len(outbound)
      BY <1>1, LenProperties DEF TypeOK
    <3>3. PICK i \in 1 .. m : outbound[i] = [call |-> c, field |-> 3]
      BY <1>1, <2>4, <3>1, <3>2 DEF NoWakeupMissed, Parameters
    <3>4. outbound[i].field = ((i - 1) % 3) + 1
      BY <1>1, <3>2 DEF RequestsFramed, Parameters
    <3>5. (i - 1) % 3 = 2
      BY ONLY <3>2, <3>3, <3>4, i \in 1 .. m
    <3>6. i >= 3
      BY ONLY <3>2, <3>5, i \in 1 .. m
    <3> QED  BY <1>1, <2>3, <3>2, <3>6 DEF CanProceed, Parameters
  <2> QED  BY <1>1, <2>3, <2>5 DEF CanProceed
<1>2. TypeOK /\ EachResumedOnce /\ PrepareStops /\ RequestsFramed /\ NoWakeupMissed => (~garbled /\ socket = "open" /\ (\E c \in Calls : Active(c)) => CanProceed)
  BY <1>1
<1>3. IInv => TypeOK /\ IdleInv
  BY DEF IInv, ExchangeInv
<1>4. Init => PrepareStops
  BY DEF Init, PrepareStops
<1> QED
  BY <1>2, <1>3, <1>4, Invariance, ResumedOnce, RequestsStayFramed,
     WakeupsNeverMissed, NextPrepareStops, PTL DEF Spec

-----------------------------------------------------------------------------
(* The exchanges of finitely many calls end *)

\* What is ahead of a call, stage by stage.
LEMMA AheadTable ==
  ASSUME TypeOK, NEW c \in Calls
  PROVE  /\ field[c] \in 1 .. 3
         /\ pc[c] = "idle" => Ahead(c) = 14
         /\ pc[c] = "write" => Ahead(c) = 16 - 3 * field[c]
         /\ pc[c] = "wait" => Ahead(c) = 3
         /\ pc[c] = "woken" => Ahead(c) = 2
         /\ pc[c] = "read" => Ahead(c) = 1
         /\ pc[c] \in Settled => Ahead(c) = 0
         /\ Ahead(c) \in 0 .. 14
<1>1. field[c] \in 1 .. 3
  BY DEF TypeOK, Fields, Header, Parameters
<1>2. pc[c] \in PCs
  BY DEF TypeOK
<1>3. /\ pc[c] = "idle" => Ahead(c) = 14
      /\ pc[c] = "write" => Ahead(c) = 16 - 3 * field[c]
      /\ pc[c] = "wait" => Ahead(c) = 3
      /\ pc[c] = "woken" => Ahead(c) = 2
      /\ pc[c] = "read" => Ahead(c) = 1
      /\ pc[c] \in Settled => Ahead(c) = 0
  BY DEF Ahead, Settled
<1>4. Ahead(c) \in 0 .. 14
  BY <1>1, <1>2, <1>3 DEF PCs
<1> QED  BY <1>1, <1>3, <1>4

\* A set that gains no element has at most as many as before, and fewer by
\* those that it loses.
LEMMA FewerElements ==
  ASSUME NEW S, IsFiniteSet(S), NEW T \in SUBSET S
  PROVE  /\ Cardinality(T) \in Nat /\ Cardinality(S) \in Nat
         /\ Cardinality(T) <= Cardinality(S)
         /\ \A x \in S : x \notin T => Cardinality(T) < Cardinality(S)
         /\ \A x, y, z \in S :
              /\ x \notin T /\ y \notin T /\ z \notin T
              /\ x # y /\ y # z /\ x # z
              => Cardinality(T) + 3 <= Cardinality(S)
<1>1. IsFiniteSet(T) /\ Cardinality(T) <= Cardinality(S)
  BY FS_Subset
<1>2. Cardinality(T) \in Nat /\ Cardinality(S) \in Nat
  BY <1>1, FS_CardinalityType
<1>3. ASSUME NEW x \in S, x \notin T
      PROVE  /\ IsFiniteSet(T \cup {x})
             /\ Cardinality(T \cup {x}) = Cardinality(T) + 1
             /\ Cardinality(T \cup {x}) <= Cardinality(S)
  <2>1. T \cup {x} \in SUBSET S
    BY <1>3
  <2> QED  BY <1>1, <1>3, <2>1, FS_AddElement, FS_Subset
<1>4. ASSUME NEW x \in S, NEW y \in S, NEW z \in S,
             x \notin T, y \notin T, z \notin T, x # y, y # z, x # z
      PROVE  Cardinality(T) + 3 <= Cardinality(S)
  <2>1. PICK U : U = T \cup {x}
    OBVIOUS
  <2>2. IsFiniteSet(U) /\ Cardinality(U) = Cardinality(T) + 1 /\ y \notin U
    BY <1>3, <1>4, <2>1
  <2>3. PICK V : V = U \cup {y}
    OBVIOUS
  <2>4. IsFiniteSet(V) /\ Cardinality(V) = Cardinality(U) + 1
    BY <2>2, <2>3, FS_AddElement
  <2>5. z \notin V /\ V \cup {z} \in SUBSET S
    BY <1>4, <2>1, <2>3
  <2>6. Cardinality(V \cup {z}) = Cardinality(V) + 1
    BY <2>4, <2>5, FS_AddElement
  <2>7. Cardinality(V \cup {z}) <= Cardinality(S)
    BY <2>5, FS_Subset
  <2> QED  BY <1>2, <2>2, <2>4, <2>6, <2>7
<1>5. ASSUME NEW x \in S, x \notin T
      PROVE  Cardinality(T) < Cardinality(S)
  <2>1. Cardinality(T) + 1 <= Cardinality(S)
    BY <1>3, <1>5
  <2> QED  BY ONLY <1>2, <2>1
<1> QED  BY <1>1, <1>2, <1>4, <1>5

LEMMA StepsFinite ==
  IsFiniteSet(Calls) => /\ IsFiniteSet(Calls \X (1 .. 14))
                        /\ Cardinality(Calls \X (1 .. 14))
                             = 14 * Cardinality(Calls)
                        /\ Cardinality(Calls) \in Nat
<1>1. IsFiniteSet(1 .. 14) /\ Cardinality(1 .. 14) = 14
  <2>1. 1 \in Int /\ 14 \in Int
    OBVIOUS
  <2>2. /\ IsFiniteSet(1 .. 14)
        /\ Cardinality(1 .. 14) = IF 1 > 14 THEN 0 ELSE 14 - 1 + 1
    BY ONLY <2>1, FS_Interval, Zenon
  <2> QED  BY ONLY <2>2
<1> SUFFICES ASSUME IsFiniteSet(Calls)
             PROVE  /\ IsFiniteSet(Calls \X (1 .. 14))
                    /\ Cardinality(Calls \X (1 .. 14)) = 14 * Cardinality(Calls)
                    /\ Cardinality(Calls) \in Nat
  OBVIOUS
<1>2. Cardinality(Calls) \in Nat
  BY FS_CardinalityType
<1>3. /\ IsFiniteSet(Calls \X (1 .. 14))
      /\ Cardinality(Calls \X (1 .. 14)) = Cardinality(Calls) * 14
  BY <1>1, FS_Product
<1> QED  BY <1>2, <1>3

\* Calls that come no further, or nearer to their end, have fewer steps ahead.
LEMMA FewerSteps ==
  ASSUME IsFiniteSet(Calls), TypeOK, TypeOK',
         \A c \in Calls : Ahead(c)' <= Ahead(c)
  PROVE  /\ Cardinality(StepsAhead)' \in Nat /\ Cardinality(StepsAhead) \in Nat
         /\ Cardinality(StepsAhead)' <= Cardinality(StepsAhead)
         /\ \A d \in Calls :
              /\ Ahead(d)' < Ahead(d)
                   => Cardinality(StepsAhead)' < Cardinality(StepsAhead)
              /\ Ahead(d)' + 3 <= Ahead(d)
                   => Cardinality(StepsAhead)' + 3 <= Cardinality(StepsAhead)
<1>1. PICK S : S = StepsAhead
  OBVIOUS
<1>2. PICK T : T = StepsAhead'
  OBVIOUS
<1>3. \A c \in Calls : Ahead(c) \in 0 .. 14
  BY AheadTable
<1>4. ASSUME NEW c \in Calls PROVE Ahead(c)' \in Int /\ Ahead(c)' >= 0
  <2>1. /\ field'[c] \in 1 .. 3 /\ pc'[c] \in PCs
    BY DEF TypeOK, Fields, Header, Parameters
  <2>2. /\ pc'[c] = "idle" => Ahead(c)' = 14
        /\ pc'[c] = "write" => Ahead(c)' = 16 - 3 * field'[c]
        /\ pc'[c] = "wait" => Ahead(c)' = 3
        /\ pc'[c] = "woken" => Ahead(c)' = 2
        /\ pc'[c] = "read" => Ahead(c)' = 1
        /\ pc'[c] \in Settled => Ahead(c)' = 0
    BY DEF Ahead, Settled
  <2> QED  BY <2>1, <2>2 DEF PCs
<1>5. \A w : w \in S <=> w \in Calls \X (1 .. 14) /\ w[2] <= Ahead(w[1])
  BY <1>1 DEF StepsAhead
<1>6. \A w : w \in T <=> w \in Calls \X (1 .. 14) /\ w[2] <= Ahead(w[1])'
  BY <1>2 DEF StepsAhead
<1>7. IsFiniteSet(S)
  <2>1. S \in SUBSET (Calls \X (1 .. 14))
    BY <1>5
  <2> QED  BY <2>1, StepsFinite, FS_Subset
<1>8. T \in SUBSET S
  <2>1. ASSUME NEW w \in T PROVE w \in S
    <3>1. PICK c \in Calls, i \in 1 .. 14 : w = <<c, i>>
      BY <1>6
    <3>2. i <= Ahead(c)'
      BY <1>6, <3>1
    <3>3. i <= Ahead(c)
      BY <1>3, <1>4, <3>2
    <3> QED  BY <1>5, <3>1, <3>3
  <2> QED  BY <2>1
<1>9. ASSUME NEW d \in Calls, NEW i \in 1 .. 14, i <= Ahead(d), ~(i <= Ahead(d)')
      PROVE  <<d, i>> \in S /\ <<d, i>> \notin T
  BY <1>5, <1>6, <1>9
<1>10. ASSUME NEW d \in Calls, Ahead(d)' < Ahead(d)
       PROVE  Cardinality(T) < Cardinality(S)
  <2>1. PICK a \in 0 .. 14 : a = Ahead(d)
    BY <1>3
  <2>2. a \in 1 .. 14 /\ a <= Ahead(d) /\ ~(a <= Ahead(d)')
    BY <1>4, <1>10, <2>1
  <2> QED  BY <1>7, <1>8, <1>9, <2>2, FewerElements
<1>11. ASSUME NEW d \in Calls, Ahead(d)' + 3 <= Ahead(d)
       PROVE  Cardinality(T) + 3 <= Cardinality(S)
  <2>1. PICK a \in 0 .. 14 : a = Ahead(d)
    BY <1>3
  <2>2. a \in 1 .. 14 /\ a <= Ahead(d) /\ ~(a <= Ahead(d)')
    BY <1>4, <1>11, <2>1
  <2>3. a - 1 \in 1 .. 14 /\ a - 1 <= Ahead(d) /\ ~(a - 1 <= Ahead(d)')
    BY <1>4, <1>11, <2>1
  <2>4. a - 2 \in 1 .. 14 /\ a - 2 <= Ahead(d) /\ ~(a - 2 <= Ahead(d)')
    BY <1>4, <1>11, <2>1
  <2>5. /\ <<d, a>> \in S /\ <<d, a>> \notin T
        /\ <<d, a - 1>> \in S /\ <<d, a - 1>> \notin T
        /\ <<d, a - 2>> \in S /\ <<d, a - 2>> \notin T
    BY <1>9, <2>2, <2>3, <2>4
  <2>6. a # a - 1 /\ a - 1 # a - 2 /\ a # a - 2
    BY <2>1
  <2>7. /\ <<d, a>> # <<d, a - 1>> /\ <<d, a - 1>> # <<d, a - 2>>
        /\ <<d, a>> # <<d, a - 2>>
    BY <2>6
  <2> QED  BY <1>7, <1>8, <2>5, <2>7, FewerElements
<1>12. /\ Cardinality(T) \in Nat /\ Cardinality(S) \in Nat
       /\ Cardinality(T) <= Cardinality(S)
  BY <1>7, <1>8, FewerElements
<1> QED  BY <1>1, <1>2, <1>10, <1>11, <1>12

\* The numbers that Remaining adds up.
Numbers(a, o, n, k) ==
  /\ a = Cardinality(StepsAhead) /\ a \in Nat
  /\ o = Len(outbound) /\ o \in Nat
  /\ n = Len(inbound) /\ n \in Nat
  /\ k = (IF socket = "open" THEN 1 ELSE 0) /\ k \in 0 .. 1
  /\ Remaining = a + 2 * o + n + k

LEMMA NumbersExist ==
  ASSUME IsFiniteSet(Calls)
  PROVE  TypeOK => \E a, o, n, k : Numbers(a, o, n, k)
<1> SUFFICES ASSUME TypeOK PROVE \E a, o, n, k : Numbers(a, o, n, k)
  OBVIOUS
<1>1. Cardinality(StepsAhead) \in Nat
  <2>1. StepsAhead \in SUBSET (Calls \X (1 .. 14))
    BY DEF StepsAhead
  <2> QED  BY <2>1, StepsFinite, FS_Subset, FS_CardinalityType
<1>2. Len(outbound) \in Nat /\ Len(inbound) \in Nat
  BY LenProperties DEF TypeOK
<1>3. Numbers(Cardinality(StepsAhead), Len(outbound), Len(inbound),
              IF socket = "open" THEN 1 ELSE 0)
  BY <1>1, <1>2 DEF Numbers, Remaining
<1> QED  BY <1>3

LEMMA DeliverLowers ==
  ASSUME TypeOK, NEW n \in 1 .. Len(inbound), Deliver(n)
  PROVE  Len(inbound') < Len(inbound)
<1>1. PICK m \in Nat : m = Len(inbound)
  BY LenProperties DEF TypeOK
<1>2. /\ inbound \in Seq(ReplyPart) /\ n \in Nat /\ n \in 1 .. m
      /\ inbound' = Drop(inbound, n)
  BY <1>1 DEF TypeOK, Deliver
<1>3. n <= Len(inbound)
  BY <1>1, <1>2
<1>4. Len(inbound') = Len(inbound) - n
  BY ONLY <1>2, <1>3, DropType
<1> QED  BY <1>1, <1>2, <1>4

LEMMA AnswerLowers ==
  ASSUME TypeOK, NEW v \in Verdicts, NEW n \in 2 .. 3, ServerAnswers(v, n)
  PROVE  /\ Len(outbound') = Len(outbound) - 3
         /\ Len(inbound') <= Len(inbound) + 3
<1>1. /\ outbound \in Seq(RequestField) /\ inbound \in Seq(ReplyPart)
      /\ Len(outbound) \in Nat /\ Len(inbound) \in Nat
  BY LenProperties DEF TypeOK
<1>2. /\ Len(outbound) >= 3 /\ outbound' = Drop(outbound, 3) /\ 3 \in Nat
      /\ \/ inbound' = inbound
         \/ inbound' = inbound \o Reply(outbound[1].call, v, n)
  BY DEF ServerAnswers, Parameters
<1>3. Len(outbound') = Len(outbound) - 3
  BY <1>1, <1>2, DropType
<1>4. PICK c \in Calls : c = outbound[1].call
  <2>1. 1 \in 1 .. Len(outbound)
    BY <1>1, <1>2
  <2>2. outbound[1] \in RequestField
    BY ONLY <1>1, <2>1, ElementOfSeq
  <2> QED  BY <2>2 DEF RequestField
<1>5. PICK r \in Seq(ReplyPart) : r = Reply(c, v, n) /\ Len(r) = n
  BY ReplyType
<1>6. Len(inbound \o r) = Len(inbound) + Len(r)
  BY <1>1, <1>5, ConcatProperties
<1> QED  BY <1>1, <1>2, <1>3, <1>4, <1>5, <1>6

LEMMA RefusalLowers ==
  ASSUME TypeOK, ServerRefuses
  PROVE  /\ Len(outbound') <= Len(outbound) - 3
         /\ Len(inbound') <= Len(inbound) + 2
<1>1. /\ outbound \in Seq(RequestField) /\ inbound \in Seq(ReplyPart)
      /\ Len(outbound) \in Nat /\ Len(inbound) \in Nat
  BY LenProperties DEF TypeOK
<1>2. Len(outbound) >= 3 /\ 3 \in Nat
  BY DEF ServerRefuses, Parameters
<1>3. CASE outbound' = <<>> /\ inbound' = inbound
  BY <1>1, <1>2, <1>3, EmptySeq
<1>4. ASSUME outbound' = Drop(outbound, 3),
             \/ inbound' = inbound
             \/ inbound' = inbound \o Reply(outbound[1].call, "error", 2)
      PROVE  /\ Len(outbound') <= Len(outbound) - 3
             /\ Len(inbound') <= Len(inbound) + 2
  <2>1. Len(outbound') = Len(outbound) - 3
    BY <1>1, <1>2, <1>4, DropType
  <2>2. PICK c \in Calls : c = outbound[1].call
    <3>1. 1 \in 1 .. Len(outbound)
      BY <1>1, <1>2
    <3>2. outbound[1] \in RequestField
      BY ONLY <1>1, <3>1, ElementOfSeq
    <3> QED  BY <3>2 DEF RequestField
  <2>3. PICK r \in Seq(ReplyPart) : r = Reply(c, "error", 2) /\ Len(r) = 2
    BY ReplyType DEF Verdicts
  <2>4. Len(inbound \o r) = Len(inbound) + Len(r)
    BY <1>1, <2>3, ConcatProperties
  <2>5. inbound' = inbound \/ inbound' = inbound \o r
    BY <1>4, <2>2, <2>3
  <2>6. Len(inbound') = Len(inbound) \/ Len(inbound') = Len(inbound) + 2
    BY <2>3, <2>4, <2>5
  <2> QED  BY ONLY <1>1, <2>1, <2>6
<1> QED  BY <1>3, <1>4 DEF ServerRefuses, Parameters

\* The call at the head of the microtasks comes nearer to its end.
LEMMA ResumeLowers ==
  ASSUME TypeOK, TypeOK', NEW c \in Calls,
         pc'[c] \in {"read", "done", "failed"}, field' = field,
         \A d \in Calls : d # c => pc'[d] = pc[d],
         \/ pc[c] = "woken"
         \/ pc[c] = "read" /\ pc'[c] # "read"
  PROVE  Ahead(c)' < Ahead(c) /\ \A d \in Calls : Ahead(d)' <= Ahead(d)
<1>1. \A d \in Calls : d # c => Ahead(d)' = Ahead(d)
  BY DEF Ahead
<1>2. /\ Ahead(c)' = IF pc'[c] = "read" THEN 1 ELSE 0
      /\ Ahead(c) = IF pc[c] = "woken" THEN 2 ELSE 1
  BY DEF Ahead
<1>3. Ahead(c)' < Ahead(c)
  BY <1>2
<1>4. \A d \in Calls : Ahead(d) \in 0 .. 14
  BY AheadTable
<1>5. ASSUME NEW d \in Calls PROVE Ahead(d)' <= Ahead(d)
  BY <1>1, <1>2, <1>4
<1> QED  BY <1>3, <1>5

\* A method entry takes one step of the call, a write three at least, and
\* whatever settles a call that writes, all of them.
LEMMA StartLowers ==
  ASSUME TypeOK, TypeOK', IdleInv, NEW c \in Calls, NEW p, NEW h, Start(c, p, h)
  PROVE  Ahead(c)' < Ahead(c) /\ \A d \in Calls : Ahead(d)' <= Ahead(d)
<1>1. /\ pc[c] = "idle" /\ field[c] = 1 /\ field' = field
      /\ \E state \in {"write", "failed"} : pc' = [pc EXCEPT ![c] = state]
      /\ pc \in [Calls -> PCs]
  BY DEF TypeOK, IdleInv, Start, Begin, EncoderThrows, Enter, Header
<1>2. \A d \in Calls : d # c => Ahead(d)' = Ahead(d)
  BY <1>1 DEF Ahead
<1>3. Ahead(c)' \in {0, 13} /\ Ahead(c) = 14
  BY <1>1 DEF Ahead
<1>4. \A d \in Calls : Ahead(d) \in 0 .. 14
  BY AheadTable
<1>5. ASSUME NEW d \in Calls PROVE Ahead(d)' <= Ahead(d)
  BY <1>2, <1>3, <1>4
<1> QED  BY <1>3, <1>5

LEMMA WriteFieldLowers ==
  ASSUME TypeOK, TypeOK', NEW c \in Calls, WriteField(c)
  PROVE  Ahead(c)' + 3 <= Ahead(c) /\ \A d \in Calls : Ahead(d)' <= Ahead(d)
<1>1. /\ pc[c] = "write" /\ pc \in [Calls -> PCs]
      /\ field \in [Calls -> Fields]
      /\ \A d \in Calls : d # c => pc'[d] = pc[d] /\ field'[d] = field[d]
  BY DEF TypeOK, WriteField
<1>2. \A d \in Calls : d # c => Ahead(d)' = Ahead(d)
  BY <1>1 DEF Ahead
<1>3. PICK f \in 1 .. 3 : f = field[c]
  BY AheadTable
<1>4. Ahead(c) = 16 - 3 * f
  BY <1>1, <1>3, AheadTable
<1>5. Ahead(c)' + 3 <= Ahead(c)
  <2>1. CASE f = 3
    <3>1. pc'[c] = "wait"
      BY <1>1, <1>3, <2>1 DEF WriteField, Parameters
    <3>2. Ahead(c)' = 3
      BY <3>1 DEF Ahead
    <3> QED  BY <1>4, <2>1, <3>2
  <2>2. CASE f # 3
    <3>1. pc'[c] = "write" /\ field'[c] = f + 1
      BY <1>1, <1>3, <2>2 DEF WriteField, Parameters
    <3>2. Ahead(c)' = 16 - 3 * (f + 1)
      BY <3>1 DEF Ahead
    <3> QED  BY <1>4, <2>2, <3>2
  <2> QED  BY <2>1, <2>2
<1>6. \A d \in Calls : Ahead(d) \in 0 .. 14
  BY AheadTable
<1>7. c # c \/ Ahead(c)' <= Ahead(c)
  <2>1. Ahead(c)' \in Int
    <3>1. CASE f = 3
      <4>1. pc'[c] = "wait"
        BY <1>1, <1>3, <3>1 DEF WriteField, Parameters
      <4> QED  BY <4>1 DEF Ahead
    <3>2. CASE f # 3
      <4>1. pc'[c] = "write" /\ field'[c] = f + 1
        BY <1>1, <1>3, <3>2 DEF WriteField, Parameters
      <4>2. Ahead(c)' = 16 - 3 * (f + 1)
        BY <4>1 DEF Ahead
      <4> QED  BY <1>3, <4>2
    <3> QED  BY <3>1, <3>2
  <2> QED  BY <1>4, <1>5, <2>1
<1>8. ASSUME NEW d \in Calls PROVE Ahead(d)' <= Ahead(d)
  BY <1>2, <1>6, <1>7
<1> QED  BY <1>5, <1>8

LEMMA GiveUpLowers ==
  ASSUME TypeOK, TypeOK', NEW c \in Calls, WriteRejected(c) \/ PrepareThrows(c)
  PROVE  Ahead(c)' < Ahead(c) /\ \A d \in Calls : Ahead(d)' <= Ahead(d)
<1>1. /\ pc[c] = "write" /\ pc' = [pc EXCEPT ![c] = "failed"] /\ field' = field
      /\ pc \in [Calls -> PCs]
  BY DEF TypeOK, WriteRejected, PrepareThrows
<1>2. \A d \in Calls : d # c => Ahead(d)' = Ahead(d)
  BY <1>1 DEF Ahead
<1>3. Ahead(c)' = 0
  BY <1>1 DEF Ahead
<1>4. \A d \in Calls : Ahead(d) \in 0 .. 14
  BY AheadTable
<1>5. Ahead(c) > 0
  BY <1>1, AheadTable
<1>6. ASSUME NEW d \in Calls PROVE Ahead(d)' <= Ahead(d)
  BY <1>2, <1>3, <1>4
<1> QED  BY <1>3, <1>5, <1>6

LEMMA WakeLowers ==
  ASSUME TypeOK, NEW n, Deliver(n)
  PROVE  \A d \in Calls : Ahead(d)' <= Ahead(d)
<1>1. /\ field' = field
      /\ \A d \in Calls : pc'[d] = IF pc[d] = "wait" THEN "woken" ELSE pc[d]
  BY DEF Deliver
<1> SUFFICES ASSUME NEW d \in Calls PROVE Ahead(d)' <= Ahead(d)
  OBVIOUS
<1>2. Ahead(d) \in 0 .. 14
  BY AheadTable
<1>3. CASE pc[d] = "wait"
  <2>1. pc'[d] = "woken"
    BY <1>1, <1>3
  <2>2. Ahead(d)' = 2
    BY <2>1 DEF Ahead
  <2> QED  BY <1>3, <2>2, AheadTable
<1>4. CASE pc[d] # "wait"
  <2>1. Ahead(d)' = Ahead(d)
    BY <1>1, <1>4 DEF Ahead
  <2> QED  BY <1>2, <2>1
<1> QED  BY <1>3, <1>4

\* Steps that leave the calls where they are.
LEMMA StepsKept ==
  ASSUME UNCHANGED <<pc, field>>
  PROVE  StepsAhead' = StepsAhead
BY DEF StepsAhead, Ahead

\* Every step lowers what is left of the exchanges.
LEMMA NextLowers ==
  ASSUME IsFiniteSet(Calls), TypeOK, TypeOK', IdleInv, Next,
         (TypeOK => \E a, o, n, k : Numbers(a, o, n, k))'
  PROVE  Remaining' < Remaining
<1> USE DEF caller, connection, stream, server, history
<1>1. PICK a, o, n, k : Numbers(a, o, n, k)
  BY NumbersExist
<1>2. PICK a2, o2, n2, k2 : Numbers(a2, o2, n2, k2)'
  OBVIOUS
<1>3. /\ a = Cardinality(StepsAhead) /\ a2 = Cardinality(StepsAhead)'
      /\ o = Len(outbound) /\ o2 = Len(outbound')
      /\ n = Len(inbound) /\ n2 = Len(inbound')
      /\ k = (IF socket = "open" THEN 1 ELSE 0)
      /\ k2 = (IF socket' = "open" THEN 1 ELSE 0)
  BY <1>1, <1>2 DEF Numbers
<1>4. /\ a \in Nat /\ o \in Nat /\ n \in Nat /\ k \in 0 .. 1
      /\ a2 \in Nat /\ o2 \in Nat /\ n2 \in Nat /\ k2 \in 0 .. 1
  BY <1>1, <1>2 DEF Numbers
<1>5. Remaining = a + 2 * o + n + k /\ Remaining' = a2 + 2 * o2 + n2 + k2
  BY <1>1, <1>2 DEF Numbers
<1> SUFFICES a2 + 2 * o2 + n2 + k2 < a + 2 * o + n + k
  BY <1>5
<1>6. ASSUME NEW c \in Calls, NEW p, NEW h, Start(c, p, h)
      PROVE  a2 + 2 * o2 + n2 + k2 < a + 2 * o + n + k
  <2>1. a2 < a
    BY <1>3, <1>6, StartLowers, FewerSteps
  <2>2. o2 = o /\ n2 = n /\ k2 = k
    BY <1>3, <1>6 DEF Start, Begin, EncoderThrows, Enter
  <2> QED  BY ONLY <1>4, <2>1, <2>2
<1>7. ASSUME NEW c \in Calls, WriteField(c)
      PROVE  a2 + 2 * o2 + n2 + k2 < a + 2 * o + n + k
  <2>1. a2 + 3 <= a
    BY <1>3, <1>7, WriteFieldLowers, FewerSteps
  <2>2. n2 = n /\ k2 = k
    BY <1>3, <1>7 DEF WriteField
  <2>3. o2 = o + 1
    <3>1. /\ outbound \in Seq(RequestField)
          /\ [call |-> c, field |-> field[c]] \in RequestField
          /\ outbound' = Append(outbound, [call |-> c, field |-> field[c]])
      BY <1>7 DEF WriteField, TypeOK, RequestField
    <3> QED  BY <1>3, <3>1, AppendProperties
  <2> QED  BY ONLY <1>4, <2>1, <2>2, <2>3
<1>8. ASSUME NEW c \in Calls, WriteRejected(c) \/ PrepareThrows(c)
      PROVE  a2 + 2 * o2 + n2 + k2 < a + 2 * o + n + k
  <2>1. a2 < a
    BY <1>3, <1>8, GiveUpLowers, FewerSteps
  <2>2. o2 = o /\ n2 = n /\ k2 = k
    BY <1>3, <1>8 DEF WriteRejected, PrepareThrows
  <2> QED  BY ONLY <1>4, <2>1, <2>2
<1>9. ASSUME NEW i \in 1 .. Len(inbound), Deliver(i)
      PROVE  a2 + 2 * o2 + n2 + k2 < a + 2 * o + n + k
  <2>1. a2 <= a
    BY <1>3, <1>9, WakeLowers, FewerSteps
  <2>2. n2 < n
    BY <1>3, <1>9, DeliverLowers
  <2>3. o2 = o /\ k2 = k
    BY <1>3, <1>9 DEF Deliver
  <2> QED  BY ONLY <1>4, <2>1, <2>2, <2>3
<1>10. ASSUME ReadReplyHeader \/ MisreadReplyHeader
              \/ FinishCreate \/ FinishAttributes
       PROVE  a2 + 2 * o2 + n2 + k2 < a + 2 * o + n + k
  <2>1. PICK c \in Calls : c = Head(jobs)
    BY <1>10, HeadTailProperties
       DEF TypeOK, ReadReplyHeader, MisreadReplyHeader, FinishCreate,
           FinishAttributes
  <2>2. /\ field' = field
        /\ \/ /\ pc[c] = "woken"
              /\ Resume(c, "read") \/ Resume(c, "failed")
           \/ /\ pc[c] = "read"
              /\ Resume(c, "done") \/ Resume(c, "failed")
    BY <1>10, <2>1 DEF ReadReplyHeader, MisreadReplyHeader, FinishCreate,
                       FinishAttributes
  <2>3. Ahead(c)' < Ahead(c) /\ \A d \in Calls : Ahead(d)' <= Ahead(d)
    <3>1. pc \in [Calls -> PCs]
      BY DEF TypeOK
    <3>2. /\ pc'[c] \in {"read", "done", "failed"}
          /\ \A d \in Calls : d # c => pc'[d] = pc[d]
          /\ \/ pc[c] = "woken"
             \/ pc[c] = "read" /\ pc'[c] # "read"
      BY <2>2, <3>1 DEF Resume
    <3> QED  BY <2>2, <3>2, ResumeLowers
  <2>4. a2 < a
    BY <1>3, <2>3, FewerSteps
  <2>5. o2 = o /\ n2 = n /\ k2 = k
    BY <1>3, <1>10 DEF ReadReplyHeader, MisreadReplyHeader, FinishCreate,
                       FinishAttributes
  <2> QED  BY ONLY <1>4, <2>4, <2>5
<1>11. CASE Close \/ PeerClose
  <2>1. /\ a2 = a /\ k = 1 /\ k2 = 0
        /\ o2 = o \/ o2 = 0
        /\ n2 = n \/ n2 = 0
    BY <1>3, <1>11, StepsKept, EmptySeq DEF Close, PeerClose
  <2> QED  BY ONLY <1>4, <2>1
<1>12. ASSUME NEW v \in Verdicts, NEW i \in 2 .. 3, ServerAnswers(v, i)
       PROVE  a2 + 2 * o2 + n2 + k2 < a + 2 * o + n + k
  <2>1. a2 = a /\ k2 = k
    BY <1>3, <1>12, StepsKept DEF ServerAnswers
  <2>2. o2 = o - 3 /\ n2 <= n + 3
    BY <1>3, <1>12, AnswerLowers
  <2> QED  BY ONLY <1>4, <2>1, <2>2
<1>13. CASE ServerRefuses
  <2>1. a2 = a /\ k2 <= k
    BY <1>3, <1>13, StepsKept DEF ServerRefuses
  <2>2. o2 <= o - 3 /\ n2 <= n + 2
    BY <1>3, <1>13, RefusalLowers
  <2> QED  BY ONLY <1>4, <2>1, <2>2
<1> QED
  BY <1>6, <1>7, <1>8, <1>9, <1>10, <1>11, <1>12, <1>13
     DEF Next, SetServerAttributes, CreateRequestParameterBlock,
         PrepareAndDescribe

LEMMA InitRemaining ==
  ASSUME IsFiniteSet(Calls)
  PROVE  Init => Remaining = 14 * Cardinality(Calls) + 1
<1> SUFFICES ASSUME Init PROVE Remaining = 14 * Cardinality(Calls) + 1
  OBVIOUS
<1>1. Len(outbound) = 0 /\ Len(inbound) = 0 /\ socket = "open"
  BY EmptySeq DEF Init
<1>2. \A c \in Calls : Ahead(c) = 14
  BY DEF Init, Ahead
<1>3. StepsAhead = Calls \X (1 .. 14)
  BY <1>2 DEF StepsAhead
<1> QED  BY <1>1, <1>3, StepsFinite DEF Remaining

LEMMA RemainingInNat ==
  ASSUME IsFiniteSet(Calls)
  PROVE  TypeOK => Remaining \in Nat
<1> SUFFICES ASSUME TypeOK PROVE Remaining \in Nat
  OBVIOUS
<1>1. PICK a, o, n, k : Numbers(a, o, n, k)
  BY NumbersExist
<1>2. /\ Remaining = a + 2 * o + n + k
      /\ a \in Nat /\ o \in Nat /\ n \in Nat /\ k \in 0 .. 1
  BY <1>1 DEF Numbers
<1>3. a + 2 * o + n + k \in Nat
  BY ONLY <1>2
<1> QED  BY <1>2, <1>3

\* The steps of finitely many calls run out, however they overlap and whatever
\* the server, the network and close() do: each lowers what is left, which is
\* never negative.  With CallsNeverStuck this is what CallSettles says, but
\* for the fairness that makes a step happen that can.
THEOREM ExchangeStepsRunOut ==
  ASSUME IsFiniteSet(Calls)
  PROVE  Spec => StepsRunOut /\ [](Remaining \in 0 .. 14 * Cardinality(Calls) + 1)
<1> DEFINE Left == Remaining \in 0 .. 14 * Cardinality(Calls) + 1
           Counted == TypeOK => \E a, o, n, k : Numbers(a, o, n, k)
<1>1. IInv /\ IInv' /\ Counted' /\ [Next]_vars => [Remaining' < Remaining]_vars
  BY NextLowers DEF IInv, ExchangeInv
<1>2. Init => Left
  <2>1. 14 * Cardinality(Calls) + 1 \in Nat
    BY StepsFinite
  <2> QED  BY <2>1, InitRemaining
<1>3. (IInv /\ IInv' /\ Counted' /\ (Remaining \in Nat)' /\ Left /\ [Next]_vars)
        => Left'
  <2> SUFFICES ASSUME IInv, IInv', Counted', Remaining' \in Nat, Left, [Next]_vars
               PROVE  Left'
    OBVIOUS
  <2>1. CASE UNCHANGED vars
    <3>1. Remaining' = Remaining
      BY <2>1, StepsKept
         DEF vars, caller, connection, stream, server, history, Remaining
    <3> QED  BY <3>1
  <2>2. CASE Next
    <3>1. Remaining' < Remaining
      BY <2>2, NextLowers DEF IInv, ExchangeInv
    <3>2. 14 * Cardinality(Calls) + 1 \in Nat
      BY StepsFinite
    <3> QED  BY <3>1, <3>2
  <2> QED  BY <2>1, <2>2
<1>4. IInv => Remaining \in Nat
  BY RemainingInNat DEF IInv, ExchangeInv
<1>5. IInv => Counted
  BY NumbersExist DEF IInv, ExchangeInv
<1> QED
  BY <1>1, <1>2, <1>3, <1>4, <1>5, Invariance, PTL DEF Spec, StepsRunOut

-----------------------------------------------------------------------------
(* Calls made one after the other *)

\* What callers do that await each call before they make the next one, and a
\* network that never cuts a reply.
Serial ==
  (\E c \in Calls : pc[c] = "idle" /\ pc'[c] # "idle")
    => \A c \in Calls : ~Active(c)
Uncut == \A n \in 1 .. Len(inbound) : Deliver(n) => ~CutsReply(n)

\* A call is not clean only if it began after the connection was lost: it has
\* not written anything and never will.
Unclean(c) ==
  /\ pc[c] \in {"idle", "write", "failed"}
  /\ verdict[c] = "none"
  /\ pc[c] = "write" => socket # "open"
  /\ \A i \in 1 .. Len(outbound) : outbound[i].call # c

Quiet ==
  socket = "open" /\ (\A c \in Calls : ~Active(c))
    => inbound = <<>> /\ outbound = <<>>

NoPrepare == \A c \in Calls : pc[c] = "write" => op[c] # "prepare"

SerialInv ==
  /\ \A c \in Calls : ~clean[c] => Unclean(c)
  /\ Quiet
  /\ NoPrepare
  /\ ~garbled

\* Nothing is under way but the call that is resumed.
LEMMA ResumedQuiet ==
  ASSUME IInv, SerialInv, NEW c \in Calls, pc[c] \in {"woken", "read"}
  PROVE  clean[c] /\ inbound = <<>> /\ outbound = <<>>
<1>1. clean[c]
  BY DEF SerialInv, Unclean
<1>2. Active(c)
  BY DEF Active, Settled
<1>3. Stage(c)
  BY <1>1, <1>2 DEF IInv, ExchangeInv, CleanInv, Good
<1> QED  BY <1>1, <1>3 DEF Stage, Woken, Reading

\* Steps that lose no cleanness, leave the calls alone and write nothing.
LEMMA UncleanKept ==
  ASSUME SerialInv, NEW c \in Calls, ~clean'[c], clean'[c] = clean[c],
         verdict'[c] = verdict[c],
         pc'[c] = pc[c],
         socket' = "open" => socket = "open",
         \A i \in 1 .. Len(outbound') :
           \/ outbound'[i].call # c
           \/ \E j \in 1 .. Len(outbound) : outbound'[i] = outbound[j]
  PROVE  Unclean(c)'
BY DEF SerialInv, Unclean

\* The steps of a call that is alone.
LEMMA StartSerial ==
  ASSUME IInv, SerialInv, Serial, "prepare" \notin Methods,
         NEW c \in Calls, NEW o, NEW h, Start(c, o, h)
  PROVE  SerialInv'
<1> USE DEF connection, server
<1>0. TypeOK /\ IdleInv /\ OutboundInv
  BY DEF IInv, ExchangeInv
<1>1. /\ pc \in [Calls -> PCs] /\ op \in [Calls -> Ops] /\ pc[c] = "idle"
      /\ \E state \in {"write", "failed"} : pc' = [pc EXCEPT ![c] = state]
      /\ op' = [op EXCEPT ![c] = o] /\ o # "prepare"
      /\ UNCHANGED <<verdict, socket, outbound, inbound>>
  BY <1>0 DEF TypeOK, Start, Begin, EncoderThrows, Enter
<1>2. pc'[c] \in {"write", "failed"}
  BY <1>1
<1>3. ASSUME NEW d \in Calls, Active(d)
      PROVE  FALSE
  BY <1>1, <1>2, <1>3 DEF Serial
<1>4. ASSUME NEW d \in Calls, ~clean'[d]
      PROVE  Unclean(d)'
  <2>1. CASE d = c
    <3>1. ~(inbound = <<>> /\ outbound = <<>>)
      BY <1>3, <1>4, <2>1 DEF Start, Begin, EncoderThrows, Enter
    <3>2. socket # "open"
      BY <1>3, <3>1 DEF SerialInv, Quiet
    <3>3. verdict[c] = "none"
      BY <1>0, <1>1 DEF IdleInv
    <3>4. \A i \in 1 .. Len(outbound) : outbound[i].call # c
      BY <1>0, <1>1 DEF OutboundInv
    <3> QED  BY <1>1, <2>1, <3>2, <3>3, <3>4 DEF Unclean
  <2>2. CASE d # c
    <3>1. ~clean[d] /\ pc'[d] = pc[d]
      BY <1>1, <1>3, <1>4, <2>2 DEF Start, Begin, EncoderThrows, Enter
    <3> QED  BY <1>1, <3>1 DEF SerialInv, Unclean
  <2> QED  BY <2>1, <2>2
<1>5. Quiet'
  BY <1>1, <1>3 DEF SerialInv, Quiet
<1>6. NoPrepare'
  BY <1>1 DEF SerialInv, NoPrepare
<1>7. ~garbled'
  <2>1. \A d \in Calls : pc[d] # "write"
    BY <1>3 DEF Active, Settled
  <2> QED  BY <2>1 DEF SerialInv, Start, Begin, EncoderThrows, Enter
<1> QED  BY <1>4, <1>5, <1>6, <1>7 DEF SerialInv

LEMMA WriteFieldSerial ==
  ASSUME IInv, SerialInv, NEW c \in Calls, WriteField(c)
  PROVE  SerialInv'
<1> USE DEF server, history
<1>0. TypeOK
  BY DEF IInv, ExchangeInv
<1>1. /\ pc \in [Calls -> PCs] /\ pc[c] = "write" /\ socket = "open"
      /\ pc'[c] \in {"write", "wait"} /\ op' = op
      /\ \A d \in Calls : d # c => pc'[d] = pc[d]
      /\ UNCHANGED <<verdict, clean, garbled, socket>>
      /\ outbound' = Append(outbound, [call |-> c, field |-> field[c]])
  BY <1>0 DEF TypeOK, WriteField
<1>2. clean[c]
  BY <1>1 DEF SerialInv, Unclean
<1>3. PICK m \in Nat : m = Len(outbound)
  BY <1>0, LenProperties DEF TypeOK
<1>4. /\ Len(outbound') = m + 1
      /\ \A i \in 1 .. m : outbound'[i] = outbound[i]
      /\ outbound'[m + 1].call = c
  <2>1. /\ outbound \in Seq(RequestField)
        /\ [call |-> c, field |-> field[c]] \in RequestField
    BY <1>0 DEF TypeOK, RequestField
  <2> QED  BY <1>1, <1>3, <2>1, AppendProperties
<1>5. ASSUME NEW d \in Calls, ~clean'[d]
      PROVE  Unclean(d)'
  <2>1. d # c
    BY <1>1, <1>2, <1>5
  <2>2. ASSUME NEW i \in 1 .. Len(outbound')
        PROVE  outbound'[i].call # d
    <3>1. i \in 1 .. m \/ i = m + 1
      BY <1>3, <1>4
    <3> QED
      BY <1>1, <1>3, <1>4, <1>5, <2>1, <3>1 DEF SerialInv, Unclean
  <2> QED  BY <1>1, <1>5, <2>1, <2>2 DEF SerialInv, Unclean
<1>6. Active(c)'
  BY <1>1 DEF Active, Settled
<1> QED  BY <1>1, <1>5, <1>6 DEF SerialInv, Quiet, NoPrepare

LEMMA DeliverSerial ==
  ASSUME IInv, SerialInv, NEW n \in 1 .. Len(inbound), Deliver(n), ~CutsReply(n)
  PROVE  SerialInv'
<1>1. /\ \A c \in Calls : pc'[c] = IF pc[c] = "wait" THEN "woken" ELSE pc[c]
      /\ \A c \in Calls : clean'[c] = clean[c]
      /\ UNCHANGED <<op, verdict, garbled, socket, outbound>>
  BY DEF Deliver, server, IInv, ExchangeInv, TypeOK
<1>2. ASSUME NEW c \in Calls, ~clean'[c]
      PROVE  Unclean(c)'
  BY <1>1, <1>2 DEF SerialInv, Unclean
<1>3. Quiet'
  <2>1. SUFFICES ASSUME socket = "open", \A c \in Calls : ~Active(c)'
                 PROVE  FALSE
    BY <1>1 DEF Quiet
  <2>2. \A c \in Calls : ~Active(c)
    BY <1>1, <2>1 DEF Active, Settled
  <2>3. Len(inbound) = 0
    BY <2>1, <2>2, EmptySeq DEF SerialInv, Quiet
  <2> QED  BY <2>3
<1>4. NoPrepare'
  BY <1>1 DEF SerialInv, NoPrepare
<1> QED  BY <1>1, <1>2, <1>3, <1>4 DEF SerialInv

LEMMA ResumeSerial ==
  ASSUME IInv, SerialInv, ReadReplyHeader \/ MisreadReplyHeader
                          \/ FinishCreate \/ FinishAttributes
  PROVE  SerialInv'
<1> USE DEF server, history, connection
<1>0. TypeOK
  BY DEF IInv, ExchangeInv
<1>1. PICK c \in Calls : c = Head(jobs)
  BY <1>0, HeadTailProperties
     DEF TypeOK, ReadReplyHeader, MisreadReplyHeader, FinishCreate,
         FinishAttributes
<1>2. /\ pc[c] \in {"woken", "read"} /\ pc \in [Calls -> PCs]
      /\ \E state \in {"read", "done", "failed"} :
           pc' = [pc EXCEPT ![c] = state]
      /\ UNCHANGED <<op, verdict, clean, garbled, socket, outbound, inbound>>
  BY <1>0, <1>1
     DEF TypeOK, ReadReplyHeader, MisreadReplyHeader, FinishCreate,
         FinishAttributes, Resume
<1>3. clean[c] /\ inbound = <<>> /\ outbound = <<>>
  BY <1>2, ResumedQuiet
<1>4. ASSUME NEW d \in Calls, ~clean'[d]
      PROVE  Unclean(d)'
  BY <1>2, <1>3, <1>4 DEF SerialInv, Unclean
<1> QED  BY <1>2, <1>3, <1>4 DEF SerialInv, Quiet, NoPrepare

\* The server carries out no request of a call that is not clean.
LEMMA ServerSerial ==
  ASSUME IInv, SerialInv,
         \/ \E v \in Verdicts, n \in 2 .. 3 : ServerAnswers(v, n)
         \/ ServerRefuses
  PROVE  SerialInv'
<1> USE DEF caller, server, history
<1>0. TypeOK
  BY DEF IInv, ExchangeInv
<1>1. PICK m \in Nat : m = Len(outbound)
  BY <1>0, LenProperties DEF TypeOK
<1>2. m >= 3 /\ UNCHANGED <<op, pc, clean, garbled>>
  BY <1>1 DEF ServerAnswers, ServerRefuses, Parameters
<1>3. PICK c \in Calls : c = outbound[1].call
  <2>1. outbound[1] \in RequestField
    BY <1>0, <1>1, <1>2, ElementOfSeq DEF TypeOK
  <2> QED  BY <2>1 DEF RequestField
<1>4. clean[c]
  <2>1. 1 \in 1 .. Len(outbound)
    BY <1>1, <1>2
  <2> QED  BY <1>3, <2>1 DEF SerialInv, Unclean
<1>5. \A d \in Calls : d # c => verdict'[d] = verdict[d]
  BY <1>0, <1>3 DEF TypeOK, ServerAnswers, ServerRefuses
<1>6. outbound' = Drop(outbound, 3) \/ outbound' = <<>>
  BY DEF ServerAnswers, ServerRefuses, Parameters
<1>7. ASSUME NEW i \in 1 .. Len(outbound')
      PROVE  \E j \in 1 .. Len(outbound) : outbound'[i] = outbound[j]
  <2>1. CASE outbound' = <<>>
    <3>1. Len(outbound') = 0
      BY <2>1, EmptySeq
    <3> QED  BY <3>1
  <2>2. CASE outbound' = Drop(outbound, 3)
    <3>1. outbound \in Seq(RequestField) /\ 3 \in Nat /\ 3 <= Len(outbound)
      BY <1>0, <1>1, <1>2 DEF TypeOK
    <3>2. /\ Len(outbound') = Len(outbound) - 3
          /\ \A k \in 1 .. (Len(outbound) - 3) : outbound'[k] = outbound[3 + k]
      BY <2>2, <3>1, DropType
    <3>3. 3 + i \in 1 .. Len(outbound) /\ i \in 1 .. (Len(outbound) - 3)
      BY <1>1, <1>2, <3>2
    <3> QED  BY <3>2, <3>3
  <2> QED  BY <1>6, <2>1, <2>2
<1>8. socket' = "open" => socket = "open"
  BY DEF ServerAnswers, ServerRefuses
<1>9. ASSUME NEW d \in Calls, ~clean'[d]
      PROVE  Unclean(d)'
  <2>1. d # c /\ clean'[d] = clean[d] /\ pc'[d] = pc[d]
    BY <1>2, <1>4, <1>9
  <2>2. verdict'[d] = verdict[d]
    BY <1>5, <2>1
  <2>3. \A i \in 1 .. Len(outbound') :
          \/ outbound'[i].call # d
          \/ \E j \in 1 .. Len(outbound) : outbound'[i] = outbound[j]
    BY <1>7
  <2> QED  BY <1>8, <1>9, <2>1, <2>2, <2>3, UncleanKept
<1>10. Quiet'
  <2>1. SUFFICES ASSUME socket' = "open", \A d \in Calls : ~Active(d)'
                 PROVE  FALSE
    BY DEF Quiet
  <2>2. outbound = <<>>
    BY <1>2, <1>8, <2>1 DEF SerialInv, Quiet, Active
  <2> QED  BY <1>1, <1>2, <2>2, EmptySeq
<1>11. NoPrepare'
  BY <1>2 DEF SerialInv, NoPrepare
<1> QED  BY <1>2, <1>9, <1>10, <1>11 DEF SerialInv

LEMMA CloseSerial ==
  ASSUME IInv, SerialInv, Close \/ PeerClose
  PROVE  SerialInv'
<1> USE DEF caller, server, history
<1>1. /\ UNCHANGED <<op, pc, verdict, clean, garbled>> /\ socket' # "open"
      /\ outbound' = outbound \/ outbound' = <<>>
  BY DEF Close, PeerClose
<1>2. ASSUME NEW d \in Calls, ~clean'[d]
      PROVE  Unclean(d)'
  <2>1. \A i \in 1 .. Len(outbound') :
          outbound' = outbound \/ i \in 1 .. 0
    BY <1>1, EmptySeq
  <2> QED  BY <1>1, <1>2, <2>1 DEF SerialInv, Unclean
<1> QED  BY <1>1, <1>2 DEF SerialInv, Quiet, NoPrepare

LEMMA NextSerialInv ==
  ASSUME "prepare" \notin Methods
  PROVE  IInv /\ SerialInv /\ [Next]_vars /\ [Serial]_vars /\ [Uncut]_vars
           => SerialInv'
<1> SUFFICES ASSUME IInv, SerialInv, [Next]_vars, [Serial]_vars, [Uncut]_vars
             PROVE  SerialInv'
  OBVIOUS
<1> USE DEF caller, connection, stream, server, history
<1>1. ASSUME NEW d \in Calls, NEW o, NEW h, Start(d, o, h)
      PROVE  SerialInv'
  <2>1. CASE UNCHANGED vars
    <3>1. pc[d] = "idle" /\ pc'[d] # "idle"
      BY <1>1
         DEF Start, Begin, EncoderThrows, Enter, IInv, ExchangeInv, TypeOK
    <3> QED  BY <2>1, <3>1 DEF vars
  <2>2. CASE Serial
    BY <1>1, <2>2, StartSerial
  <2> QED  BY <2>1, <2>2
<1>2. ASSUME NEW d \in Calls, WriteRejected(d)
      PROVE  SerialInv'
  <2>1. /\ pc \in [Calls -> PCs] /\ pc[d] = "write" /\ socket # "open"
        /\ pc' = [pc EXCEPT ![d] = "failed"]
        /\ UNCHANGED <<op, verdict, clean, garbled, socket, outbound>>
    BY <1>2 DEF WriteRejected, IInv, ExchangeInv, TypeOK
  <2> QED  BY <2>1 DEF SerialInv, Unclean, Quiet, NoPrepare
<1>3. ASSUME NEW d \in Calls, PrepareThrows(d)
      PROVE  SerialInv'
  BY <1>3 DEF PrepareThrows, Abandons, SerialInv, NoPrepare
<1>4. CASE UNCHANGED vars
  BY <1>4 DEF vars, SerialInv, Unclean, Quiet, NoPrepare, Active
<1>5. ASSUME NEW n \in 1 .. Len(inbound), Deliver(n)
      PROVE  SerialInv'
  <2>1. CASE UNCHANGED vars
    BY <1>4, <2>1
  <2>2. CASE Uncut
    BY <1>5, <2>2, DeliverSerial DEF Uncut
  <2> QED  BY <2>1, <2>2
<1> QED
  BY <1>1, <1>2, <1>3, <1>4, <1>5, WriteFieldSerial, ResumeSerial,
     CloseSerial, ServerSerial
     DEF Next, SetServerAttributes, CreateRequestParameterBlock,
         PrepareAndDescribe

\* Callers that await each call before they make the next one are served well,
\* as long as prepareAndDescribe() is not among the calls and no chunk ends
\* inside a reply: each call settles as the server decided on its own request,
\* and the current request parameter block is one that the server holds,
\* whatever the calls before it did and wherever the connection is lost.
THEOREM SerialCallsAgree ==
  ASSUME "prepare" \notin Methods
  PROVE  Spec /\ [][Serial]_vars /\ [][Uncut]_vars
           => [](/\ \A c \in Calls :
                      /\ pc[c] = "done" => verdict[c] = "ok" /\ heard[c].call = c
                      /\ pc[c] = "failed" => verdict[c] # "ok"
                 /\ currentRPB \in created \cup {NoRPB}
                 /\ ~garbled)
<1> DEFINE Served ==
      /\ \A c \in Calls :
           /\ pc[c] = "done" => verdict[c] = "ok" /\ heard[c].call = c
           /\ pc[c] = "failed" => verdict[c] # "ok"
      /\ currentRPB \in created \cup {NoRPB}
      /\ ~garbled
<1>1. IInv /\ SerialInv => Served
  <2> SUFFICES ASSUME IInv, SerialInv PROVE Served
    OBVIOUS
  <2>1. CurrentRPBCreated /\ \A c \in Calls : clean[c] => Outcome(c)
    BY DEF IInv, ExchangeInv, CleanInv, Good
  <2>2. \A c \in Calls : ~clean[c] =>
          /\ pc[c] # "done"
          /\ pc[c] = "failed" => verdict[c] # "ok"
    BY DEF SerialInv, Unclean
  <2> QED
    BY <2>1, <2>2 DEF Outcome, CurrentRPBCreated, SerialInv
<1>2. Init => SerialInv
  <2> SUFFICES ASSUME Init PROVE SerialInv
    OBVIOUS
  <2>1. Len(outbound) = 0
    BY EmptySeq DEF Init
  <2> QED  BY <2>1 DEF Init, SerialInv, Unclean, Quiet, NoPrepare
<1> QED
  BY <1>1, <1>2, Invariance, NextSerialInv, PTL DEF Spec
=============================================================================
