-------------------------- MODULE RemoteCallProofs --------------------------
(* Exchange implements RemoteCall, for every set of calls and every MaxID:  *)
(* a step of an exchange is a step of the remote call or leaves it alone.   *)
EXTENDS ExchangeProofs

-----------------------------------------------------------------------------
(* No request is carried out twice *)

\* The header of a request is on the wire at most once, and no more when the
\* request has been answered.
HeadersOnce ==
  \A i \in 1 .. Len(outbound) : outbound[i].field = Header =>
    /\ verdict[outbound[i].call] = "none"
    /\ field[outbound[i].call] # Header
    /\ \A j \in 1 .. Len(outbound) :
         outbound[j] = outbound[i] => j = i

\* A call that has not written its header has not been answered.
AnsweredLater == \A c \in Calls : field[c] = Header => verdict[c] = "none"

HeaderInv == HeadersOnce /\ AnsweredLater

\* What remains on the wire after the first n units.
LEMMA DropHeaders ==
  ASSUME TypeOK, NEW n \in Nat, n <= Len(outbound),
         outbound' = Drop(outbound, n),
         HeadersOnce, UNCHANGED field,
         \A c \in Calls : verdict'[c] # verdict[c] =>
           \A i \in n + 1 .. Len(outbound) :
             outbound[i].field = Header => outbound[i].call # c
  PROVE  HeadersOnce'
<1>1. PICK m \in Nat : m = Len(outbound)
  BY LenProperties DEF TypeOK
<1>2. PICK m2 \in Nat : m2 = Len(outbound') /\ m2 = m - n
  BY <1>1, DropType DEF TypeOK
<1>3. \A i \in 1 .. m2 : outbound'[i] = outbound[n + i]
  <2>1. PICK s \in Seq(RequestField) : s = outbound
    BY DEF TypeOK
  <2>2. \A i \in 1 .. (Len(s) - n) : Drop(s, n)[i] = s[n + i]
    BY DropType
  <2> QED  BY <1>1, <1>2, <2>1, <2>2
<1> SUFFICES ASSUME NEW i \in 1 .. m2, outbound'[i].field = Header
             PROVE  /\ verdict'[outbound'[i].call] = "none"
                    /\ field'[outbound'[i].call] # Header
                    /\ \A j \in 1 .. m2 : outbound'[j] = outbound'[i] => j = i
  BY <1>2 DEF HeadersOnce
<1>4. n + i \in n + 1 .. m /\ n + i \in 1 .. m
  BY <1>2
<1>5. outbound'[i] = outbound[n + i]
  BY <1>3
<1>6. /\ verdict[outbound[n + i].call] = "none"
      /\ field[outbound[n + i].call] # Header
      /\ \A j \in 1 .. m : outbound[j] = outbound[n + i] => j = n + i
  BY <1>1, <1>4, <1>5 DEF HeadersOnce
<1>7. outbound[n + i].call \in Calls
  <2>1. outbound[n + i] \in RequestField
    BY <1>1, <1>4, ElementOfSeq DEF TypeOK
  <2> QED  BY <2>1 DEF RequestField
<1>8. verdict'[outbound[n + i].call] = "none"
  BY <1>1, <1>4, <1>5, <1>6, <1>7
<1>9. ASSUME NEW j \in 1 .. m2, outbound'[j] = outbound'[i]
      PROVE  j = i
  <2>1. n + j \in 1 .. m /\ outbound[n + j] = outbound[n + i]
    BY <1>2, <1>3, <1>5, <1>9
  <2> QED  BY <1>6, <2>1
<1> QED  BY <1>5, <1>6, <1>8, <1>9

LEMMA WriteFieldHeaders ==
  ASSUME IInv, HeaderInv, NEW c \in Calls, WriteField(c)
  PROVE  HeaderInv'
<1> DEFINE unit == [call |-> c, field |-> field[c]]
<1>1. /\ outbound' = Append(outbound, unit) /\ UNCHANGED verdict
      /\ field[c] = Parameters => field' = field
      /\ field[c] # Parameters => field' = [field EXCEPT ![c] = field[c] + 1]
  BY DEF WriteField, server, NextField, Parameters, Header
<1>2. /\ field \in [Calls -> Fields] /\ outbound \in Seq(RequestField)
      /\ field[c] \in Fields
  BY DEF IInv, ExchangeInv, TypeOK
<1>3. PICK m \in Nat : m = Len(outbound)
  BY <1>2, LenProperties
<1>4. /\ Len(outbound') = m + 1
      /\ \A i \in 1 .. m : outbound'[i] = outbound[i]
      /\ outbound'[m + 1] = unit
  BY <1>1, <1>2, <1>3, AppendProperties DEF RequestField
<1>5. /\ field'[c] # Header
      /\ \A d \in Calls : d # c => field'[d] = field[d]
  BY <1>1, <1>2 DEF Fields, Header, Parameters
<1>6. AnsweredLater'
  BY <1>1, <1>5 DEF HeaderInv, AnsweredLater
<1>7. \A i \in 1 .. m : outbound[i] \in RequestField
  BY <1>2, <1>3, ElementOfSeq
<1>8. ASSUME NEW i \in 1 .. m, outbound[i].field = Header
      PROVE  /\ verdict'[outbound[i].call] = "none"
             /\ field'[outbound[i].call] # Header
             /\ \A j \in 1 .. m + 1 : outbound'[j] = outbound[i] => j = i
  <2>1. /\ verdict[outbound[i].call] = "none"
        /\ field[outbound[i].call] # Header
        /\ \A j \in 1 .. m : outbound[j] = outbound[i] => j = i
    BY <1>3, <1>8 DEF HeaderInv, HeadersOnce
  <2>2. outbound[i].call \in Calls
    BY <1>7 DEF RequestField
  <2>3. field'[outbound[i].call] # Header
    BY <1>5, <2>1, <2>2
  <2>4. unit # outbound[i]
    <3> SUFFICES ASSUME unit = outbound[i] PROVE FALSE
      OBVIOUS
    <3>1. outbound[i].call = c /\ outbound[i].field = field[c]
      OBVIOUS
    <3> QED  BY <1>8, <2>1, <3>1
  <2>5. \A j \in 1 .. m + 1 : outbound'[j] = outbound[i] => j = i
    <3> SUFFICES ASSUME NEW j \in 1 .. m + 1, outbound'[j] = outbound[i]
                 PROVE  j = i
      OBVIOUS
    <3>1. j \in 1 .. m \/ j = m + 1
      OBVIOUS
    <3> QED  BY <1>4, <2>1, <2>4, <3>1
  <2> QED  BY <1>1, <2>1, <2>3, <2>5
<1>9. ASSUME unit.field = Header
      PROVE  /\ verdict'[unit.call] = "none"
             /\ field'[unit.call] # Header
             /\ \A j \in 1 .. m + 1 : outbound'[j] = unit => j = m + 1
  <2>1. verdict[c] = "none"
    BY <1>9 DEF HeaderInv, AnsweredLater
  <2>2. ASSUME NEW j \in 1 .. m, outbound[j] = unit PROVE FALSE
    <3>1. outbound[j].field = Header /\ outbound[j].call = c
      BY <1>9, <2>2
    <3>2. field[outbound[j].call] # Header
      BY <1>3, <3>1 DEF HeaderInv, HeadersOnce
    <3> QED  BY <1>9, <3>1, <3>2
  <2>3. \A j \in 1 .. m + 1 : outbound'[j] = unit => j = m + 1
    <3> SUFFICES ASSUME NEW j \in 1 .. m + 1, outbound'[j] = unit
                 PROVE  j = m + 1
      OBVIOUS
    <3>1. j \in 1 .. m \/ j = m + 1
      OBVIOUS
    <3> QED  BY <1>4, <2>2, <3>1
  <2> QED  BY <1>1, <1>5, <2>1, <2>3
<1>10. HeadersOnce'
  <2> SUFFICES ASSUME NEW i \in 1 .. m + 1, outbound'[i].field = Header
               PROVE  /\ verdict'[outbound'[i].call] = "none"
                      /\ field'[outbound'[i].call] # Header
                      /\ \A j \in 1 .. m + 1 :
                           outbound'[j] = outbound'[i] => j = i
    BY <1>4 DEF HeadersOnce
  <2>1. CASE i \in 1 .. m
    BY <1>4, <1>8, <2>1
  <2>2. CASE i = m + 1
    BY <1>4, <1>9, <2>2
  <2> QED  BY <2>1, <2>2
<1> QED  BY <1>6, <1>10 DEF HeaderInv

\* The server answers the request whose header it takes off the wire.
LEMMA AnsweredCall ==
  ASSUME TypeOK, NEW v \in Verdicts, NEW n \in 2 .. 3, ServerAnswers(v, n)
  PROVE  \E c \in Calls :
           /\ \A i \in 1 .. 3 : outbound[i] = [call |-> c, field |-> i]
           /\ verdict' = [verdict EXCEPT ![c] = v]
           /\ Len(outbound) \in Nat /\ Len(outbound) >= 3
           /\ outbound' = Drop(outbound, 3)
<1>1. Len(outbound) >= Parameters /\ WellFramed
  BY DEF ServerAnswers
<1>2. PICK c \in Calls :
        \A i \in 1 .. 3 : outbound[i] = [call |-> c, field |-> i]
  BY <1>1, Framed
<1>3. outbound[1].call = c
  BY <1>2
<1>4. verdict' = [verdict EXCEPT ![c] = v] /\ outbound' = Drop(outbound, 3)
  BY <1>3 DEF ServerAnswers, Parameters
<1>5. Len(outbound) \in Nat /\ Len(outbound) >= 3
  BY <1>1, LenProperties DEF TypeOK, Parameters
<1> QED  BY <1>2, <1>4, <1>5

LEMMA ServerAnswersHeaders ==
  ASSUME IInv, HeaderInv, NEW v \in Verdicts, NEW n \in 2 .. 3,
         ServerAnswers(v, n)
  PROVE  HeaderInv'
<1>0. TypeOK /\ verdict \in [Calls -> Verdicts \cup {"none"}]
  BY DEF IInv, ExchangeInv, TypeOK
<1>1. PICK c \in Calls :
        /\ \A i \in 1 .. 3 : outbound[i] = [call |-> c, field |-> i]
        /\ verdict' = [verdict EXCEPT ![c] = v]
        /\ Len(outbound) \in Nat /\ Len(outbound) >= 3
        /\ outbound' = Drop(outbound, 3)
  BY <1>0, AnsweredCall
<1>2. UNCHANGED field
  BY DEF ServerAnswers, caller
<1>3. outbound[1] = [call |-> c, field |-> Header] /\ 1 \in 1 .. Len(outbound)
  BY <1>1 DEF Header
<1>4. \A d \in Calls : d # c => verdict'[d] = verdict[d]
  BY <1>0, <1>1
<1>5. ASSUME NEW i \in 4 .. Len(outbound), outbound[i].field = Header,
             outbound[i].call = c
      PROVE  FALSE
  <2>1. outbound[i] \in RequestField /\ i \in 1 .. Len(outbound) /\ i # 1
    <3>1. i \in 1 .. Len(outbound) /\ i # 1
      BY <1>1
    <3> QED  BY <1>0, <3>1, ElementOfSeq DEF TypeOK
  <2>2. outbound[i] = outbound[1]
    BY <1>3, <1>5, <2>1 DEF RequestField
  <2>3. outbound[1].field = Header
    BY <1>3
  <2> QED  BY <1>3, <2>1, <2>2, <2>3 DEF HeaderInv, HeadersOnce
<1>6. \A d \in Calls : verdict'[d] # verdict[d] =>
        \A i \in 3 + 1 .. Len(outbound) :
          outbound[i].field = Header => outbound[i].call # d
  BY <1>4, <1>5
<1>7. HeadersOnce'
  BY <1>0, <1>1, <1>2, <1>6, DropHeaders DEF HeaderInv
<1>8. field[c] # Header
  BY <1>3 DEF HeaderInv, HeadersOnce
<1>9. AnsweredLater'
  BY <1>2, <1>4, <1>8 DEF HeaderInv, AnsweredLater
<1> QED  BY <1>7, <1>9 DEF HeaderInv

LEMMA NextHeaderInv == IInv /\ HeaderInv /\ [Next]_vars => HeaderInv'
<1> SUFFICES ASSUME IInv, HeaderInv, [Next]_vars
             PROVE  HeaderInv'
  OBVIOUS
<1> USE DEF caller, connection, stream, server, history
<1>1. ASSUME UNCHANGED <<outbound, verdict, field>> PROVE HeaderInv'
  BY <1>1 DEF HeaderInv, HeadersOnce, AnsweredLater
<1>2. ASSUME outbound' = <<>>, UNCHANGED <<verdict, field>> PROVE HeaderInv'
  <2>1. Len(outbound') = 0
    BY <1>2, EmptySeq
  <2>2. HeadersOnce'
    BY <2>1 DEF HeadersOnce
  <2> QED  BY <1>2, <2>2 DEF HeaderInv, AnsweredLater
<1>3. CASE UNCHANGED vars
  BY <1>1, <1>3 DEF vars
<1>4. CASE \/ \E c \in Calls : SetServerAttributes(c)
           \/ \E c \in Calls, h \in Handles : CreateRequestParameterBlock(c, h)
           \/ \E c \in Calls : PrepareAndDescribe(c)
  BY <1>1, <1>4 DEF SetServerAttributes, CreateRequestParameterBlock,
                    PrepareAndDescribe, Start, Begin, EncoderThrows, Enter
<1>5. CASE \E c \in Calls : WriteField(c)
  BY <1>5, WriteFieldHeaders
<1>6. CASE \E c \in Calls : WriteRejected(c) \/ PrepareThrows(c)
  BY <1>1, <1>6 DEF WriteRejected, PrepareThrows
<1>7. CASE \E n \in 1 .. Len(inbound) : Deliver(n)
  BY <1>1, <1>7 DEF Deliver
<1>8. CASE ReadReplyHeader \/ MisreadReplyHeader
  BY <1>1, <1>8 DEF ReadReplyHeader, MisreadReplyHeader
<1>9. CASE FinishCreate \/ FinishAttributes
  BY <1>1, <1>9 DEF FinishCreate, FinishAttributes
<1>10. CASE Close
  BY <1>1, <1>10 DEF Close
<1>11. CASE PeerClose
  BY <1>2, <1>11 DEF PeerClose
<1>12. CASE \E v \in Verdicts, n \in 2 .. 3 : ServerAnswers(v, n)
  BY <1>12, ServerAnswersHeaders
<1>13. CASE ServerRefuses
  <2>1. CASE outbound' = <<>>
    BY <1>2, <1>13, <2>1 DEF ServerRefuses
  <2>2. CASE outbound' = Drop(outbound, Parameters)
    <3>1. /\ UNCHANGED <<verdict, field>> /\ Parameters \in Nat
          /\ Parameters <= Len(outbound)
      BY <1>13, LenProperties DEF ServerRefuses, IInv, ExchangeInv, TypeOK,
                                  Parameters
    <3>2. HeadersOnce'
      BY <2>2, <3>1, DropHeaders DEF IInv, ExchangeInv, HeaderInv
    <3> QED  BY <3>1, <3>2 DEF HeaderInv, AnsweredLater
  <2> QED  BY <1>13, <2>1, <2>2 DEF ServerRefuses
<1> QED
  BY <1>3, <1>4, <1>5, <1>6, <1>7, <1>8, <1>9, <1>10, <1>11, <1>12, <1>13
     DEF Next

LEMMA InitHeaderInv == Init => HeaderInv
<1> SUFFICES ASSUME Init PROVE HeaderInv
  OBVIOUS
<1>1. outbound = <<>> /\ verdict = [c \in Calls |-> "none"]
  BY DEF Init
<1>2. Len(outbound) = 0
  BY <1>1, EmptySeq
<1> QED  BY <1>1, <1>2 DEF HeaderInv, HeadersOnce, AnsweredLater

-----------------------------------------------------------------------------
(* The refinement *)

\* What the phase of a call says of it.
LEMMA PhaseType ==
  ASSUME TypeOK, NEW c \in Calls
  PROVE  /\ Phase(c) = "idle" <=> pc[c] = "idle"
         /\ Phase(c) = "pending" <=> Active(c)
         /\ Phase(c) = "ok" <=> pc[c] = "done"
         /\ Phase(c) = "error" <=> pc[c] = "failed"
<1>1. pc[c] \in PCs
  BY DEF TypeOK
<1>2. \/ pc[c] = "idle" \/ pc[c] = "write" \/ pc[c] = "wait"
      \/ pc[c] = "woken" \/ pc[c] = "read" \/ pc[c] = "done"
      \/ pc[c] = "failed"
  BY <1>1 DEF PCs, Settled
<1> QED  BY <1>2 DEF Phase, Active, Settled

\* A step that neither moves a call to another phase, nor answers one, nor
\* changes what is clean is no step of the remote call.
LEMMA NoStep ==
  ASSUME \A c \in Calls : Phase(c)' = Phase(c), UNCHANGED <<verdict, clean>>
  PROVE  UNCHANGED Remote!vars
BY DEF Remote!vars

\* A call that moves on stays pending, or returns what it should.
LEMMA CallMoves ==
  ASSUME IInv, IInv', NEW c \in Calls, Active(c),
         NEW s \in PCs \ {"idle"}, pc' = [pc EXCEPT ![c] = s],
         UNCHANGED <<verdict, clean>>
  PROVE  [Remote!Next]_Remote!vars
<1>1. TypeOK /\ TypeOK' /\ CleanInv'
  BY DEF IInv, ExchangeInv
<1>2. /\ pc'[c] = s
      /\ \A d \in Calls : d # c => pc'[d] = pc[d]
  BY <1>1 DEF TypeOK
<1>3. \A d \in Calls : d # c => Phase(d)' = Phase(d)
  BY <1>2 DEF Phase
<1>4. Phase(c) = "pending"
  BY <1>1, PhaseType
<1>5. CASE s \notin Settled
  <2>1. Phase(c)' = "pending"
    BY <1>2, <1>5 DEF Phase, PCs, Settled
  <2>2. \A d \in Calls : Phase(d)' = Phase(d)
    BY <1>3, <1>4, <2>1
  <2> QED  BY <2>2, NoStep
<1>6. CASE s \in Settled
  <2> DEFINE outcome == IF s = "done" THEN "ok" ELSE "error"
  <2>1. Phase(c)' = outcome
    BY <1>2, <1>6 DEF Phase, Settled
  <2>2. clean[c] => (outcome = "ok" <=> verdict[c] = "ok")
    <3>1. clean'[c] => Outcome(c)'
      BY <1>1 DEF CleanInv, Good
    <3> QED  BY <1>2, <1>6, <3>1 DEF Outcome, Settled
  <2>3. [d \in Calls |-> Phase(d)'] =
          [[d \in Calls |-> Phase(d)] EXCEPT ![c] = outcome]
    BY <1>3, <2>1
  <2>4. Remote!Return(c, outcome)
    BY <1>4, <2>2, <2>3 DEF Remote!Return, Remote!Pending
  <2>5. outcome \in {"ok", "error"}
    OBVIOUS
  <2> QED  BY <2>4, <2>5 DEF Remote!Next
<1> QED  BY <1>5, <1>6

\* A method entry is a call: every call under way stops being reliable.
LEMMA StartCalls ==
  ASSUME IInv, NEW c \in Calls, NEW o, NEW h, Start(c, o, h)
  PROVE  Remote!Next
<1> DEFINE own == /\ inbound = <<>> /\ outbound = <<>>
                  /\ \A e \in Calls : ~Active(e)
           S == {d \in Calls : Active(d)}
<1>1. TypeOK
  BY DEF IInv, ExchangeInv
<1>2. PICK state \in {"write", "failed"} : Enter(c, o, h, state)
  BY DEF Start, Begin, EncoderThrows
<1>3. /\ pc[c] = "idle" /\ pc' = [pc EXCEPT ![c] = state]
      /\ verdict' = verdict
      /\ clean' = [d \in Calls |-> IF d = c THEN own ELSE clean[d] /\ ~Active(d)]
  BY <1>2 DEF Enter, server
<1>4. PICK next \in {"pending", "error"} :
        next = IF state = "write" THEN "pending" ELSE "error"
  OBVIOUS
<1>5. Phase(c) = "idle" /\ Phase(c)' = next
  BY <1>1, <1>3, <1>4 DEF Phase, TypeOK
<1>6. \A d \in Calls : d # c => Phase(d)' = Phase(d)
  BY <1>1, <1>3 DEF Phase, TypeOK
<1>7. [d \in Calls |-> Phase(d)'] =
        [[d \in Calls |-> Phase(d)] EXCEPT ![c] = next]
  BY <1>5, <1>6
<1>8. \A d \in Calls : Active(d) <=> d \in S /\ Phase(d) = "pending"
  BY <1>1, PhaseType
<1>9. clean' = [d \in Calls |->
                  IF d = c THEN own
                  ELSE clean[d] /\ ~(d \in S /\ Phase(d) = "pending")]
  BY <1>3, <1>8, Zenon
<1>10. own \in BOOLEAN /\ S \in SUBSET Calls
  OBVIOUS
<1> HIDE DEF own, S
<1>11. Remote!Call(c)
  <2>1. [d \in Calls |-> Phase(d)][c] = "idle" /\ verdict' = verdict
    BY <1>3, <1>5
  <2>2. \E n \in {"pending", "error"} :
          [d \in Calls |-> Phase(d)]' =
            [[d \in Calls |-> Phase(d)] EXCEPT ![c] = n]
    BY <1>7
  <2>3. \A d \in Calls : Phase(d) = "pending" <=> Remote!Pending(d)
    BY DEF Remote!Pending
  <2>4. clean' = [d \in Calls |->
                    IF d = c THEN own
                    ELSE clean[d] /\ ~(d \in S /\ Remote!Pending(d))]
    BY <1>9, <2>3, Zenon
  <2> QED  BY <1>10, <2>1, <2>2, <2>4, Zenon DEF Remote!Call
<1> QED  BY <1>11 DEF Remote!Next

\* A 'data' event that cuts a reply is a disturbance of the calls that wait.
LEMMA DeliverDisturbs ==
  ASSUME IInv, NEW n, Deliver(n)
  PROVE  Remote!Next
<1> DEFINE S == {d \in Calls : pc[d] = "wait" /\ CutsReply(n)}
<1>1. TypeOK
  BY DEF IInv, ExchangeInv
<1>2. /\ pc' = [d \in Calls |-> IF pc[d] = "wait" THEN "woken" ELSE pc[d]]
      /\ verdict' = verdict
      /\ clean' = [d \in Calls |->
                     clean[d] /\ ~(pc[d] = "wait" /\ CutsReply(n))]
  BY DEF Deliver, server
<1>3. \A d \in Calls : Phase(d)' = Phase(d)
  BY <1>2 DEF Phase
<1>4. \A d \in Calls : pc[d] = "wait" /\ CutsReply(n)
                         <=> d \in S /\ Phase(d) = "pending"
  BY DEF Phase
<1>5. clean' = [d \in Calls |->
                  clean[d] /\ ~(d \in S /\ Phase(d) = "pending")]
  BY <1>2, <1>4, Zenon
<1>6. S \in SUBSET Calls
  OBVIOUS
<1> HIDE DEF S
<1>7. Remote!Disturbance
  BY <1>2, <1>3, <1>5, <1>6 DEF Remote!Disturbance, Remote!Pending
<1> QED  BY <1>7 DEF Remote!Next

\* The server carries out a request, or refuses it, once, and never one of a
\* clean call that has settled.
LEMMA ServerExecutes ==
  ASSUME IInv, HeaderInv, NEW v \in Verdicts, NEW n \in 2 .. 3,
         ServerAnswers(v, n)
  PROVE  Remote!Next
<1>1. TypeOK /\ OutboundInv
  BY DEF IInv, ExchangeInv
<1>2. PICK c \in Calls :
        /\ \A i \in 1 .. 3 : outbound[i] = [call |-> c, field |-> i]
        /\ verdict' = [verdict EXCEPT ![c] = v]
        /\ Len(outbound) \in Nat /\ Len(outbound) >= 3
  BY <1>1, AnsweredCall
<1>3. /\ outbound[1] = [call |-> c, field |-> Header] /\ 1 \in 1 .. Len(outbound)
      /\ outbound[3] = [call |-> c, field |-> Parameters]
      /\ 3 \in 1 .. Len(outbound)
  BY <1>2 DEF Header, Parameters
<1>4. verdict[c] = "none"
  BY <1>3 DEF HeaderInv, HeadersOnce
<1>5. pc[c] # "idle" /\ (clean[c] => pc[c] = "wait")
  BY <1>1, <1>3 DEF OutboundInv
<1>6. Phase(c) = "pending" \/ (Phase(c) # "idle" /\ ~clean[c])
  BY <1>1, <1>5, PhaseType DEF Active, Settled
<1>7. /\ clean' = clean
      /\ \A d \in Calls : Phase(d)' = Phase(d)
  BY DEF ServerAnswers, caller, history, Phase
<1>8. Remote!Execute(c, v)
  BY <1>2, <1>4, <1>6, <1>7 DEF Remote!Execute, Remote!Pending
<1> QED  BY <1>8 DEF Remote!Next, Verdicts

LEMMA StepRefines ==
  IInv /\ IInv' /\ HeaderInv /\ [Next]_vars => [Remote!Next]_Remote!vars
<1> SUFFICES ASSUME IInv, IInv', HeaderInv, [Next]_vars
             PROVE  [Remote!Next]_Remote!vars
  OBVIOUS
<1> USE DEF caller, connection, stream, server, history
<1>0. TypeOK /\ pc \in [Calls -> PCs]
  BY DEF IInv, ExchangeInv, TypeOK
<1>1. ASSUME UNCHANGED <<pc, verdict, clean>> PROVE UNCHANGED Remote!vars
  <2>1. \A c \in Calls : Phase(c)' = Phase(c)
    BY <1>1 DEF Phase
  <2> QED  BY <1>1, <2>1, NoStep
<1>2. CASE UNCHANGED vars
  BY <1>1, <1>2 DEF vars
<1>3. CASE \/ \E c \in Calls : SetServerAttributes(c)
           \/ \E c \in Calls, h \in Handles : CreateRequestParameterBlock(c, h)
           \/ \E c \in Calls : PrepareAndDescribe(c)
  BY <1>3, StartCalls DEF SetServerAttributes, CreateRequestParameterBlock,
                          PrepareAndDescribe
<1>4. ASSUME NEW c \in Calls, WriteField(c)
      PROVE  [Remote!Next]_Remote!vars
  <2>1. pc[c] = "write" /\ UNCHANGED <<verdict, clean>>
    BY <1>4 DEF WriteField
  <2>2. pc' = [pc EXCEPT ![c] = "write"] \/ pc' = [pc EXCEPT ![c] = "wait"]
    BY <1>0, <1>4, <2>1 DEF WriteField
  <2>3. Active(c) /\ {"write", "wait"} \subseteq PCs \ {"idle"}
    BY <2>1 DEF Active, Settled, PCs
  <2> QED  BY <2>1, <2>2, <2>3, CallMoves
<1>5. ASSUME NEW c \in Calls, WriteRejected(c) \/ PrepareThrows(c)
      PROVE  [Remote!Next]_Remote!vars
  <2>1. /\ pc[c] = "write" /\ pc' = [pc EXCEPT ![c] = "failed"]
        /\ UNCHANGED <<verdict, clean>>
    BY <1>5 DEF WriteRejected, PrepareThrows
  <2>2. Active(c) /\ "failed" \in PCs \ {"idle"}
    BY <2>1 DEF Active, Settled, PCs
  <2> QED  BY <2>1, <2>2, CallMoves
<1>6. CASE \E n \in 1 .. Len(inbound) : Deliver(n)
  BY <1>6, DeliverDisturbs
<1>7. ASSUME jobs # <<>>,
             NEW s \in PCs \ {"idle"}, Resume(Head(jobs), s),
             pc[Head(jobs)] \in {"woken", "read"},
             UNCHANGED <<verdict, clean>>
      PROVE  [Remote!Next]_Remote!vars
  <2>1. Head(jobs) \in Calls
    BY <1>0, <1>7, HeadTailProperties DEF TypeOK
  <2>2. Active(Head(jobs))
    BY <1>7 DEF Active, Settled
  <2>3. PICK c \in Calls : c = Head(jobs)
    BY <2>1
  <2>4. pc' = [pc EXCEPT ![c] = s]
    BY <1>7, <2>3 DEF Resume
  <2> QED  BY <1>7, <2>2, <2>3, <2>4, CallMoves
<1>8. {"failed", "read", "done"} \subseteq PCs \ {"idle"}
  BY DEF PCs, Settled
<1>9. CASE ReadReplyHeader \/ MisreadReplyHeader
  BY <1>7, <1>8, <1>9 DEF ReadReplyHeader, MisreadReplyHeader
<1>10. CASE FinishCreate \/ FinishAttributes
  BY <1>7, <1>8, <1>10 DEF FinishCreate, FinishAttributes
<1>11. CASE Close \/ PeerClose
  BY <1>1, <1>11 DEF Close, PeerClose
<1>12. CASE \E v \in Verdicts, n \in 2 .. 3 : ServerAnswers(v, n)
  BY <1>12, ServerExecutes
<1>13. CASE ServerRefuses
  BY <1>1, <1>13 DEF ServerRefuses
<1> QED
  BY <1>2, <1>3, <1>4, <1>5, <1>6, <1>9, <1>10, <1>11, <1>12, <1>13 DEF Next

LEMMA InitRefines == Init => Remote!Init
<1> SUFFICES ASSUME Init PROVE Remote!Init
  OBVIOUS
<1>1. \A c \in Calls : Phase(c) = "idle"
  BY DEF Init, Phase
<1> QED  BY <1>1 DEF Init, Remote!Init

\* Every behaviour of an exchange is one of the remote call: a request is
\* carried out at most once, a call settles at most once, and a clean call
\* returns what the server did and is never carried out after it failed.
THEOREM RemoteCallImplemented == Spec => ImplementsRemoteCall
<1>1. Init => Remote!Init
  BY InitRefines
<1>2. IInv /\ IInv' /\ HeaderInv /\ [Next]_vars => [Remote!Next]_Remote!vars
  BY StepRefines
<1>3. IInv /\ HeaderInv /\ [Next]_vars => HeaderInv'
  BY NextHeaderInv
<1> QED
  BY <1>1, <1>2, <1>3, InitHeaderInv, Invariance, PTL
     DEF Spec, ImplementsRemoteCall, Remote!Spec

=============================================================================
