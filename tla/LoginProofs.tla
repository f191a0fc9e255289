---------------------------- MODULE LoginProofs ----------------------------
(* Theorems about Login, for every set of levels and of accounts. *)
EXTENDS Login, SequenceTheorems, TLAPS

-----------------------------------------------------------------------------
(* The inductive invariant *)

\* What the step and pc say of the sockets, whatever becomes of the replies.
Sockets ==
  /\ pc = "connect" => /\ step \in {GetInfo, RandomSeeds}
                       /\ socket[Host(step)] \in {"none", "gone"}
  /\ pc # "connect" => socket[Host(step)] \in {"open", "gone"}
  /\ step <= SignonInfo => socket["database"] = "none"
  /\ step > SignonInfo => socket["signon"] = "closed"
  /\ pc = "resolved" => step = SetServerAttributes

\* The caller has woken to something, and read the level if anything.
Caller ==
  /\ pc = "woken" => internalBuffer # <<>>
  /\ passwordLevel \in {Absent, level}

\* Nothing is on its way.
Quiet == requests = <<>> /\ inbound = <<>>

\* The request of this exchange is all that is on its way.
Asked ==
  /\ inbound = <<>>
  /\ requests = <<[step |-> step,
                   seed |-> IF step \in Substitutes THEN serverSeed
                            ELSE NoSeed]>>

\* b is the whole reply to this exchange.
IsAnswer(b) ==
  \E v \in Verdicts, n \in 2 .. 4 :
    /\ n \in Sizes(step, v)
    /\ b = Reply(step, v, n, seed[Host(step)])
    /\ refused <=> v = "error"
    /\ v = "ok" /\ step \in Substitutes => granted[Host(step)] = "ok"

\* As long as no reply has been cut, an exchange has at most one request or
\* one reply, and the stages so far have left what they should.
Conversation ==
  /\ pc \in {"connect", "send", "resolved"} => Quiet /\ ~refused
  /\ pc = "wait" => /\ internalBuffer = <<>>
                    /\ \/ (Asked \/ Quiet) /\ ~refused
                       \/ requests = <<>> /\ IsAnswer(inbound)
  /\ pc = "woken" => Quiet /\ IsAnswer(internalBuffer)
  /\ pc = "rejected" => Quiet

Stages ==
  /\ step \in Substitutes => serverSeed = seed[Host(step)]
  /\ step > SignonInfo => granted["signon"] = "ok"
  /\ step > StartServer => granted["database"] = "ok"

Uncut == ~cut => Conversation /\ Stages

IInv == TypeOK /\ Sockets /\ Caller /\ Uncut /\ RejectedHasCause

-----------------------------------------------------------------------------
(* Lemmas about the operators of the model *)

\* Dropping a prefix of a sequence leaves a sequence over the same set.
LEMMA DropType ==
  ASSUME NEW X, NEW s \in Seq(X), NEW n \in Nat
  PROVE  /\ Drop(s, n) \in Seq(X)
         /\ n = Len(s) => Drop(s, n) = <<>>
<1>1. PICK m \in Nat : m = Len(s)
  BY LenProperties
<1>2. \A k \in n + 1 .. m : s[k] \in X
  BY <1>1, ElementOfSeq
<1>3. /\ SubSeq(s, n + 1, m) \in Seq(X)
      /\ Len(SubSeq(s, n + 1, m)) = IF n + 1 <= m THEN m - (n + 1) + 1 ELSE 0
  BY <1>2, SubSeqProperties
<1>4. n = m => Len(SubSeq(s, n + 1, m)) = 0
  BY <1>3
<1> QED  BY <1>1, <1>3, <1>4, EmptySeq DEF Drop

\* A prefix of a sequence is a sequence over the same set; the longest one is
\* the sequence.
LEMMA PrefixType ==
  ASSUME NEW X, NEW s \in Seq(X), NEW n \in 1 .. Len(s)
  PROVE  /\ SubSeq(s, 1, n) \in Seq(X)
         /\ SubSeq(s, 1, n) # <<>>
         /\ n = Len(s) => SubSeq(s, 1, n) = s
<1>1. PICK m \in Nat : m = Len(s)
  BY LenProperties
<1>2. \A k \in 1 .. n : s[k] \in X
  BY <1>1, ElementOfSeq
<1>3. /\ SubSeq(s, 1, n) \in Seq(X)
      /\ Len(SubSeq(s, 1, n)) = n
      /\ \A k \in 1 .. n : SubSeq(s, 1, n)[k] = s[k]
  BY <1>1, <1>2, SubSeqProperties
<1>4. SubSeq(s, 1, n) # <<>>
  BY <1>1, <1>3, EmptySeq
<1>5. ASSUME n = Len(s) PROVE SubSeq(s, 1, n) = s
  BY <1>1, <1>3, <1>5, SeqEqual
<1> QED  BY <1>3, <1>4, <1>5

\* Exchanges have a host.
LEMMA HostType ==
  ASSUME NEW s \in Steps
  PROVE  /\ Host(s) \in Hosts
         /\ s <= SignonInfo => Host(s) = "signon"
         /\ s > SignonInfo => Host(s) = "database"
BY DEF Host, Hosts, Steps, SignonInfo

\* A reply is a sequence of parts of one size.
LEMMA ReplyType ==
  ASSUME NEW s \in Steps, NEW v \in Verdicts, NEW n \in 2 .. 4, NEW x \in Nat
  PROVE  /\ Reply(s, v, n, x) \in Seq(Parts)
         /\ Len(Reply(s, v, n, x)) = n
         /\ Reply(s, v, n, x) # <<>>
<1>1. Reply(s, v, n, x) \in [1 .. n -> Parts]
  BY DEF Reply, Parts
<1>2. Reply(s, v, n, x) \in Seq(Parts) /\ Len(Reply(s, v, n, x)) = n
  BY <1>1, SeqDef, LenProperties
<1>3. Reply(s, v, n, x) # <<>>
  BY <1>2, EmptySeq
<1> QED  BY <1>2, <1>3

\* A whole reply to the exchange under way is read, or refuses.
LEMMA AnswerRead ==
  ASSUME step \in Steps, seed \in [Hosts -> Nat], NEW b, IsAnswer(b)
  PROVE  /\ HasHeader(b)
         /\ b[1].step = step
         /\ Refuses(b[1]) <=> refused
         /\ ~refused => /\ Whole(b)
                        /\ b[1].seed = seed[Host(step)]
                        /\ step \in Substitutes => granted[Host(step)] = "ok"
<1>1. PICK v \in Verdicts, n \in 2 .. 4 :
        /\ n \in Sizes(step, v)
        /\ b = Reply(step, v, n, seed[Host(step)])
        /\ refused <=> v = "error"
        /\ v = "ok" /\ step \in Substitutes => granted[Host(step)] = "ok"
  BY DEF IsAnswer
<1>2. PICK x \in Nat : x = seed[Host(step)]
  BY HostType
<1>3. /\ Len(b) = n
      /\ \A k \in 1 .. n : /\ b[k].step = step /\ b[k].verdict = v
                           /\ b[k].part = k /\ b[k].size = n
                           /\ b[k].seed = x
  <2>1. b = Reply(step, v, n, x)
    BY <1>1, <1>2
  <2>2. PICK s \in Steps : s = step
    OBVIOUS
  <2>3. Len(Reply(s, v, n, x)) = n
    BY ReplyType
  <2>4. \A k \in 1 .. n : /\ Reply(s, v, n, x)[k].step = s
                          /\ Reply(s, v, n, x)[k].verdict = v
                          /\ Reply(s, v, n, x)[k].part = k
                          /\ Reply(s, v, n, x)[k].size = n
                          /\ Reply(s, v, n, x)[k].seed = x
    BY DEF Reply
  <2> QED  BY ONLY <2>1, <2>2, <2>3, <2>4
<1>4. 1 \in 1 .. n /\ 2 \in 1 .. n
  OBVIOUS
<1>5. HasHeader(b)
  BY <1>3, <1>4 DEF HasHeader
<1>6. Refuses(b[1]) <=> v = "error"
  BY <1>3, <1>4 DEF Refuses
<1>7. Whole(b)
  BY <1>3, <1>4 DEF Whole, PayloadRead
<1>8. v = "ok" \/ v = "error"
  BY DEF Verdicts
<1> QED  BY <1>1, <1>2, <1>3, <1>4, <1>5, <1>6, <1>7, <1>8

\* Only its last part ends a reply.
LEMMA AnswerLast ==
  ASSUME step \in Steps, seed \in [Hosts -> Nat], NEW b, IsAnswer(b),
         NEW k \in 1 .. Len(b), b[k].part >= b[k].size
  PROVE  k = Len(b)
<1>1. PICK v \in Verdicts, n \in 2 .. 4 : b = Reply(step, v, n, seed[Host(step)])
  BY DEF IsAnswer
<1>2. PICK x \in Nat : x = seed[Host(step)]
  BY HostType
<1>3. PICK s \in Steps : s = step
  OBVIOUS
<1>4. b = Reply(s, v, n, x)
  BY <1>1, <1>2, <1>3
<1>5. Len(Reply(s, v, n, x)) = n
  BY ReplyType
<1>6. k \in 1 .. n
  BY <1>4, <1>5
<1>7. b[k].part = k /\ b[k].size = n
  BY <1>4, <1>6 DEF Reply
<1>8. Len(b) = n
  BY ONLY <1>4, <1>5
<1>9. k >= n
  BY <1>7
<1> QED  BY ONLY <1>6, <1>8, <1>9

\* A login whose names fit is encoded below level 2.
LEMMA CausesToReject ==
  ASSUME account \in Accounts, level \in PasswordLevels,
         NEW l \in {Absent, level}, ~CredentialsEncode(l)
  PROVE  ~Fits \/ level >= 2
<1>1. account.user \in Nat /\ account.password \in Nat
  BY AccountsAssumption
<1>2. level \in Int /\ Absent < 2
  BY PasswordLevelsAssumption DEF Absent
<1> QED  BY <1>1, <1>2 DEF CredentialsEncode, NameFits, Fits

-----------------------------------------------------------------------------
(* Preservation *)

LEMMA InitInv == Init => IInv
<1> SUFFICES ASSUME Init PROVE IInv
  OBVIOUS
<1> USE DEF Init, Absent, NoSeed, GetInfo, GetSeeds, SignonInfo, RandomSeeds,
            StartServer, SetServerAttributes
<1>1. TypeOK
  <2>1. <<>> \in Seq(Parts) /\ <<>> \in Seq(Requests)
    BY EmptySeq
  <2>2. /\ seed \in [Hosts -> Nat]
        /\ socket \in [Hosts -> {"none", "open", "closed", "gone"}]
        /\ granted \in [Hosts -> Verdicts \cup {"none"}]
    OBVIOUS
  <2>3. step \in Steps /\ serverSeed \in Nat
    BY DEF Steps
  <2> QED  BY <2>1, <2>2, <2>3 DEF TypeOK
<1>2. Sockets
  BY HostType DEF Sockets, Steps, Hosts
<1>3. Caller
  BY DEF Caller
<1>4. Uncut
  BY DEF Uncut, Conversation, Stages, Quiet, Substitutes
<1>5. RejectedHasCause
  BY DEF RejectedHasCause
<1> QED  BY <1>1, <1>2, <1>3, <1>4, <1>5 DEF IInv

LEMMA StutterInv == ASSUME IInv, UNCHANGED vars PROVE IInv'
<1> USE DEF vars, fixed, caller, server
<1>1. TypeOK'
  BY DEF IInv, TypeOK
<1>2. Sockets' /\ Caller'
  BY DEF IInv, Sockets, Caller
<1>3. Uncut'
  BY DEF IInv, Uncut, Conversation, Stages, Quiet, Asked, IsAnswer
<1>4. RejectedHasCause'
  BY DEF IInv, RejectedHasCause, ForeignCause, Fits
<1> QED  BY <1>1, <1>2, <1>3, <1>4 DEF IInv

LEMMA ConnectInv ==
  ASSUME IInv, Connect \/ ConnectRefused
  PROVE  IInv'
<1> USE DEF fixed, caller, server
<1>1. step \in Steps /\ Host(step) \in Hosts
  BY HostType DEF IInv, TypeOK
<1>2. TypeOK'
  <2>1. socket' \in [Hosts -> {"none", "open", "closed", "gone"}]
    BY DEF IInv, TypeOK, Connect, ConnectRefused
  <2> QED  BY <2>1 DEF IInv, TypeOK, Connect, ConnectRefused
<1>3. Sockets'
  <2>1. socket \in [Hosts -> {"none", "open", "closed", "gone"}]
    BY DEF IInv, TypeOK
  <2>2. /\ step' = step
        /\ pc = "connect"
        /\ \/ pc' = "send" /\ socket'[Host(step)] = "open"
           \/ pc' = "connect" /\ socket'[Host(step)] = "gone"
        /\ \A h \in Hosts : h # Host(step) => socket'[h] = socket[h]
    BY <1>1, <2>1 DEF Connect, ConnectRefused
  <2>3. /\ step <= SignonInfo => Host(step) = "signon"
        /\ step > SignonInfo => Host(step) = "database"
    BY <1>1, HostType
  <2>4. "signon" \in Hosts /\ "database" \in Hosts
    BY DEF Hosts
  <2>5. Host(step') = Host(step)
    BY <2>2
  <2> QED  BY <2>2, <2>3, <2>4, <2>5 DEF IInv, Sockets
<1>4. Caller'
  BY DEF IInv, Caller, Connect, ConnectRefused
<1>5. Uncut'
  <2> SUFFICES ASSUME ~cut' PROVE Conversation' /\ Stages'
    BY DEF Uncut
  <2>1. Conversation /\ Stages
    BY DEF IInv, Uncut, Connect, ConnectRefused
  <2>2. Conversation'
    BY <2>1 DEF Conversation, Quiet, Connect, ConnectRefused
  <2>3. Stages'
    BY <2>1 DEF Stages, Connect, ConnectRefused
  <2> QED  BY <2>2, <2>3
<1>6. RejectedHasCause'
  BY DEF RejectedHasCause, Connect, ConnectRefused
<1> QED  BY <1>2, <1>3, <1>4, <1>5, <1>6 DEF IInv

LEMMA SendInv == ASSUME IInv, Send PROVE IInv'
<1> USE DEF Send, fixed
<1> DEFINE r == [step |-> step,
                 seed |-> IF step \in Substitutes THEN serverSeed ELSE NoSeed]
<1>1. step \in Steps /\ serverSeed \in Nat /\ requests \in Seq(Requests)
  BY DEF IInv, TypeOK
<1>2. r \in Requests
  BY <1>1 DEF Requests, NoSeed
<1>3. requests' = Append(requests, r)
  OBVIOUS
<1>4. TypeOK'
  <2>1. requests' \in Seq(Requests)
    BY <1>1, <1>2, <1>3, AppendProperties
  <2>2. internalBuffer' \in Seq(Parts)
    BY EmptySeq
  <2> QED  BY <2>1, <2>2 DEF IInv, TypeOK
<1>5. Sockets' /\ Caller'
  BY DEF IInv, Sockets, Caller
<1>6. Uncut'
  <2> SUFFICES ASSUME ~cut' PROVE Conversation' /\ Stages'
    BY DEF Uncut
  <2>1. Conversation /\ Stages
    BY DEF IInv, Uncut
  <2>2. requests = <<>> /\ inbound = <<>> /\ ~refused
    BY <2>1 DEF Conversation, Quiet
  <2>3. Append(<<>>, r) = <<r>>
    OBVIOUS
  <2>4. Asked'
    BY <1>3, <2>2, <2>3 DEF Asked
  <2>5. Conversation'
    BY <2>2, <2>4 DEF Conversation
  <2>6. Stages'
    BY <2>1 DEF Stages
  <2> QED  BY <2>5, <2>6
<1>7. RejectedHasCause'
  BY DEF RejectedHasCause
<1> QED  BY <1>4, <1>5, <1>6, <1>7 DEF IInv

\* Only a connection that went away makes a send fail.
LEMMA SendRejectedInv == ASSUME IInv, SendRejected PROVE IInv'
<1> USE DEF SendRejected, fixed, server
<1>1. TypeOK'
  BY DEF IInv, TypeOK
<1>2. Sockets' /\ Caller'
  BY DEF IInv, Sockets, Caller
<1>3. Uncut'
  <2> SUFFICES ASSUME ~cut' PROVE Conversation' /\ Stages'
    BY DEF Uncut
  <2>1. Conversation /\ Stages
    BY DEF IInv, Uncut
  <2>2. Conversation'
    BY <2>1 DEF Conversation, Quiet
  <2>3. Stages'
    BY <2>1 DEF Stages
  <2> QED  BY <2>2, <2>3
<1>4. RejectedHasCause'
  <2>1. Host(step) \in Hosts /\ socket[Host(step)] = "gone"
    BY HostType DEF IInv, TypeOK, Sockets
  <2> QED  BY <2>1 DEF RejectedHasCause, ForeignCause
<1> QED  BY <1>1, <1>2, <1>3, <1>4 DEF IInv

LEMMA DeliverInv ==
  ASSUME IInv, NEW n \in 1 .. Len(inbound), Deliver(n)
  PROVE  IInv'
<1> USE DEF Deliver, server, fixed
<1>1. /\ inbound \in Seq(Parts) /\ internalBuffer \in Seq(Parts)
      /\ n \in Nat /\ step \in Steps
  BY LenProperties DEF IInv, TypeOK
<1>2. /\ SubSeq(inbound, 1, n) \in Seq(Parts)
      /\ SubSeq(inbound, 1, n) # <<>>
      /\ n = Len(inbound) => SubSeq(inbound, 1, n) = inbound
  BY <1>1, PrefixType
<1>3. Drop(inbound, n) \in Seq(Parts) /\ (n = Len(inbound) => Drop(inbound, n) = <<>>)
  BY <1>1, DropType
<1>4. /\ internalBuffer \o SubSeq(inbound, 1, n) \in Seq(Parts)
      /\ internalBuffer \o SubSeq(inbound, 1, n) # <<>>
  <2>1. PICK t \in Seq(Parts) : t = SubSeq(inbound, 1, n) /\ t # <<>>
    BY <1>2
  <2>2. PICK b \in Seq(Parts) : b = internalBuffer
    BY <1>1
  <2>3. b \o t \in Seq(Parts) /\ Len(b \o t) = Len(b) + Len(t)
    BY ConcatProperties
  <2>4. Len(t) # 0 /\ Len(t) \in Nat /\ Len(b) \in Nat
    BY <2>1, EmptySeq, LenProperties
  <2>5. b \o t # <<>>
    BY <2>3, <2>4, EmptySeq
  <2> QED  BY ONLY <2>1, <2>2, <2>3, <2>5
<1>5. pc' \in {"send", "woken"} /\ (pc = "send" => pc' = "send")
      /\ (pc = "wait" => pc' = "woken")
  BY DEF Wakes
<1>6. TypeOK'
  <2>1. cut' \in BOOLEAN
    OBVIOUS
  <2>2. internalBuffer' \in Seq(Parts) /\ inbound' \in Seq(Parts)
    BY <1>1, <1>3, <1>4
  <2> QED  BY <1>5, <2>1, <2>2 DEF IInv, TypeOK
<1>7. Sockets'
  BY <1>5 DEF IInv, Sockets
<1>8. Caller'
  BY <1>4, <1>5 DEF IInv, Caller
<1>9. Uncut'
  <2> SUFFICES ASSUME ~cut' PROVE Conversation' /\ Stages'
    BY DEF Uncut
  <2>1. ~cut /\ inbound[n].part >= inbound[n].size
    <3>1. inbound[n] \in Parts
      BY <1>1, ElementOfSeq
    <3>2. inbound[n].part \in Int /\ inbound[n].size \in Int
      BY <3>1 DEF Parts
    <3>3. ~cut /\ ~(inbound[n].part < inbound[n].size)
      OBVIOUS
    <3> QED  BY ONLY <3>2, <3>3
  <2>2. Conversation /\ Stages
    BY <2>1 DEF IInv, Uncut
  <2>3. inbound # <<>>
    BY <1>1, EmptySeq
  <2>4. pc = "wait" /\ internalBuffer = <<>> /\ requests = <<>> /\ IsAnswer(inbound)
    BY <2>2, <2>3 DEF Conversation, Quiet, Asked
  <2>5. n = Len(inbound)
    BY <1>1, <2>1, <2>4, AnswerLast DEF IInv, TypeOK
  <2>6. internalBuffer' = inbound
    BY <1>1, <1>2, <2>4, <2>5, ConcatEmptySeq
  <2>7. inbound' = <<>> /\ requests' = <<>>
    BY <1>3, <2>4, <2>5
  <2>8. IsAnswer(internalBuffer)'
    BY <2>4, <2>6 DEF IsAnswer
  <2>9. Conversation'
    BY <1>5, <2>4, <2>7, <2>8 DEF Conversation, Quiet
  <2>10. Stages'
    BY <2>2 DEF Stages
  <2> QED  BY <2>9, <2>10
<1>10. RejectedHasCause'
  BY <1>5 DEF RejectedHasCause
<1> QED  BY <1>6, <1>7, <1>8, <1>9, <1>10 DEF IInv

\* What the code between two exchanges leaves.
LEMMA ProceedInv ==
  ASSUME IInv, pc = "woken", Proceed(passwordLevel'),
         passwordLevel' \in {Absent, level}, UNCHANGED <<account, level>>
  PROVE  /\ step' \in Steps
         /\ pc' \in {"connect", "send", "resolved", "rejected"}
         /\ socket' \in [Hosts -> {"none", "open", "closed", "gone"}]
         /\ inbound' \in Seq(Parts) /\ requests' \in Seq(Requests)
         /\ Sockets'
         /\ RejectedHasCause'
<1>1. /\ step \in Steps
      /\ socket \in [Hosts -> {"none", "open", "closed", "gone"}]
      /\ inbound \in Seq(Parts) /\ requests \in Seq(Requests)
      /\ account \in Accounts /\ level \in PasswordLevels
  BY DEF IInv, TypeOK
<1>2. /\ socket[Host(step)] \in {"open", "gone"}
      /\ step <= SignonInfo => socket["database"] = "none"
      /\ step > SignonInfo => socket["signon"] = "closed"
  BY DEF IInv, Sockets
<1>3. CASE /\ BringsSeed(step) /\ ~CredentialsEncode(passwordLevel')
           /\ pc' = "rejected"
           /\ UNCHANGED <<step, socket, inbound, requests>>
  <2>1. RejectedHasCause'
    <3>1. ~Fits \/ level >= 2
      BY <1>1, <1>3, CausesToReject
    <3>2. (~Fits \/ level >= 2)'
      BY <3>1 DEF Fits
    <3> QED  BY <3>2 DEF RejectedHasCause
  <2>2. Sockets'
    BY <1>2, <1>3 DEF Sockets
  <2> QED  BY <1>1, <1>3, <2>1, <2>2
<1>4. CASE /\ step = SignonInfo
           /\ pc' = "connect" /\ step' = RandomSeeds
           /\ socket' = SocketsAfter(step)
           /\ inbound' = <<>> /\ requests' = <<>>
  <2>1. socket' = [socket EXCEPT !["signon"] = "closed"]
    BY <1>4 DEF SocketsAfter
  <2>2. /\ socket' \in [Hosts -> {"none", "open", "closed", "gone"}]
        /\ socket'["signon"] = "closed" /\ socket'["database"] = "none"
    <3>1. "signon" \in Hosts /\ "database" \in Hosts
      BY DEF Hosts
    <3>2. socket["database"] = "none"
      BY <1>2, <1>4 DEF SignonInfo
    <3> QED  BY <1>1, <2>1, <3>1, <3>2
  <2>3. step' \in Steps /\ step' > SignonInfo /\ Host(step') = "database"
        /\ ~(step' <= SignonInfo)
    BY <1>4 DEF RandomSeeds, SignonInfo, Host, Steps, GetInfo, SetServerAttributes
  <2>4. Sockets'
    BY <1>4, <2>2, <2>3 DEF Sockets
  <2>5. inbound' \in Seq(Parts) /\ requests' \in Seq(Requests)
    BY <1>4, EmptySeq
  <2> QED  BY <1>4, <2>2, <2>3, <2>4, <2>5 DEF RejectedHasCause
<1>5. CASE /\ LastExchange(step)
           /\ pc' = "resolved"
           /\ UNCHANGED <<step, socket, inbound, requests>>
  <2>1. Sockets'
    BY <1>2, <1>5 DEF Sockets, LastExchange
  <2> QED  BY <1>1, <1>5, <2>1 DEF RejectedHasCause
<1>6. CASE /\ step # SignonInfo /\ ~LastExchange(step)
           /\ BringsSeed(step) => CredentialsEncode(passwordLevel')
           /\ pc' = "send" /\ step' = NextExchange(step)
           /\ UNCHANGED <<socket, inbound, requests>>
  <2>1. /\ step' \in Steps
        /\ step' <= SignonInfo <=> step <= SignonInfo
        /\ step' > SignonInfo <=> step > SignonInfo
    BY <1>1, <1>6 DEF LastExchange, NextExchange, Steps, GetInfo, SignonInfo,
                      SetServerAttributes
  <2>2. Host(step') = Host(step)
    BY <2>1 DEF Host
  <2>3. Sockets'
    BY <1>2, <1>6, <2>1, <2>2 DEF Sockets
  <2> QED  BY <1>1, <1>6, <2>1, <2>3 DEF RejectedHasCause
<1> QED  BY <1>3, <1>4, <1>5, <1>6 DEF Proceed

\* A reply that was read leaves what the next exchange needs.
LEMMA StageDone ==
  ASSUME step \in Steps, ReadReply, Stages,
         internalBuffer[1].seed = seed[Host(step)],
         step \in Substitutes => granted[Host(step)] = "ok"
  PROVE  Stages'
<1> USE DEF ReadReply, GetInfo, GetSeeds, SignonInfo, RandomSeeds, StartServer,
            SetServerAttributes, Substitutes
<1>1. UNCHANGED <<seed, granted>>
  OBVIOUS
<1>2. CASE step' = step
  <2>1. step \in Substitutes => serverSeed' = serverSeed
    BY DEF BringsSeed
  <2> QED  BY <1>1, <1>2, <2>1 DEF Stages
<1>3. CASE step = SignonInfo /\ step' = RandomSeeds
  <2>1. granted["signon"] = "ok"
    BY <1>3 DEF Host
  <2> QED  BY <1>1, <1>3, <2>1 DEF Stages
<1>4. CASE step # SignonInfo /\ step # SetServerAttributes /\ step' = step + 1
  <2>1. step = GetInfo \/ step = GetSeeds \/ step = RandomSeeds \/ step = StartServer
    BY <1>4 DEF Steps
  <2>2. CASE step = GetInfo
    BY <1>1, <1>4, <2>2 DEF Stages
  <2>3. CASE step = GetSeeds
    BY <1>1, <1>4, <2>3 DEF Stages, BringsSeed, Host
  <2>4. CASE step = RandomSeeds
    BY <1>1, <1>4, <2>4 DEF Stages, BringsSeed, Host
  <2>5. CASE step = StartServer
    BY <1>1, <1>4, <2>5 DEF Stages, Host
  <2> QED  BY <2>1, <2>2, <2>3, <2>4, <2>5
<1> QED  BY <1>2, <1>3, <1>4 DEF Proceed, LastExchange, NextExchange

LEMMA ReadReplyInv == ASSUME IInv, ReadReply PROVE IInv'
<1> USE DEF ReadReply, fixed
<1>1. passwordLevel' \in {Absent, level}
  BY DEF IInv, Caller
<1>2. /\ step' \in Steps
      /\ pc' \in {"connect", "send", "resolved", "rejected"}
      /\ socket' \in [Hosts -> {"none", "open", "closed", "gone"}]
      /\ inbound' \in Seq(Parts) /\ requests' \in Seq(Requests)
      /\ Sockets'
      /\ RejectedHasCause'
  BY <1>1, ProceedInv
<1>3. TypeOK'
  <2>1. internalBuffer[1] \in Parts
    <3>1. PICK m \in Nat : m = Len(internalBuffer)
      BY LenProperties DEF IInv, TypeOK
    <3>2. 1 \in 1 .. m
      BY <3>1 DEF HasHeader
    <3> QED  BY <3>1, <3>2, ElementOfSeq DEF IInv, TypeOK
  <2>2. serverSeed' \in Nat
    BY <2>1 DEF IInv, TypeOK, Parts
  <2>3. passwordLevel' \in PasswordLevels \cup {Absent}
    BY <1>1 DEF IInv, TypeOK
  <2> QED  BY <1>2, <2>2, <2>3 DEF IInv, TypeOK
<1>4. Caller'
  BY <1>1, <1>2 DEF Caller
<1>5. Uncut'
  <2> SUFFICES ASSUME ~cut' PROVE Conversation' /\ Stages'
    BY DEF Uncut
  <2>1. Conversation /\ Stages
    BY DEF IInv, Uncut
  <2>2. /\ step \in Steps /\ seed \in [Hosts -> Nat]
        /\ requests = <<>> /\ inbound = <<>>
        /\ IsAnswer(internalBuffer)
    BY <2>1 DEF IInv, TypeOK, Conversation, Quiet
  <2>3. /\ ~refused
        /\ internalBuffer[1].seed = seed[Host(step)]
        /\ step \in Substitutes => granted[Host(step)] = "ok"
    BY <2>2, AnswerRead
  <2>4. requests' = <<>> /\ inbound' = <<>> /\ ~refused'
    BY <2>2, <2>3 DEF Proceed
  <2>5. Conversation'
    BY <1>2, <2>4 DEF Conversation, Quiet
  <2>6. Stages'
    BY <2>1, <2>2, <2>3, StageDone DEF IInv
  <2> QED  BY <2>5, <2>6
<1> QED  BY <1>2, <1>3, <1>4, <1>5 DEF IInv

LEMMA ReadRefusalInv == ASSUME IInv, ReadRefusal PROVE IInv'
<1> USE DEF ReadRefusal, Fails, fixed
<1>1. TypeOK'
  BY DEF IInv, TypeOK
<1>2. Sockets' /\ Caller'
  BY DEF IInv, Sockets, Caller
<1>3. Uncut'
  <2> SUFFICES ASSUME ~cut' PROVE Conversation' /\ Stages'
    BY DEF Uncut
  <2>1. Conversation /\ Stages
    BY DEF IInv, Uncut
  <2> QED  BY <2>1 DEF Conversation, Stages, Quiet
<1>4. RejectedHasCause'
  <2>1. ~cut => refused
    <3> SUFFICES ASSUME ~cut PROVE refused
      OBVIOUS
    <3>1. /\ step \in Steps /\ seed \in [Hosts -> Nat]
          /\ IsAnswer(internalBuffer)
      BY DEF IInv, TypeOK, Uncut, Conversation
    <3> QED  BY <3>1, AnswerRead
  <2>2. ForeignCause'
    BY <2>1 DEF ForeignCause
  <2> QED  BY <2>2 DEF RejectedHasCause
<1> QED  BY <1>1, <1>2, <1>3, <1>4 DEF IInv

\* Nothing is misread unless a reply has been cut.
LEMMA MisreadInv == ASSUME IInv, Misread PROVE IInv'
<1> USE DEF fixed
<1>1. pc = "woken" /\ UNCHANGED <<fixed, internalBuffer, seed, granted, refused, cut>>
  BY DEF Misread
<1>2. cut
  <2> SUFFICES ASSUME ~cut PROVE FALSE
    OBVIOUS
  <2>1. step \in Steps /\ seed \in [Hosts -> Nat] /\ IsAnswer(internalBuffer)
    BY <1>1 DEF IInv, TypeOK, Uncut, Conversation
  <2>2. /\ HasHeader(internalBuffer)
        /\ internalBuffer[1].step = step
        /\ Refuses(internalBuffer[1]) <=> refused
        /\ ~refused => Whole(internalBuffer)
    BY <2>1, AnswerRead
  <2> QED  BY <2>2 DEF Misread
<1>3. ForeignCause'
  BY <1>1, <1>2 DEF ForeignCause
<1>4. Uncut' /\ RejectedHasCause'
  BY <1>1, <1>2, <1>3 DEF Uncut, RejectedHasCause
<1>5. internalBuffer[1] \in Parts
  <2>1. PICK m \in Nat : m = Len(internalBuffer)
    BY LenProperties DEF IInv, TypeOK
  <2>2. m # 0
    BY <1>1, <2>1, EmptySeq DEF IInv, TypeOK, Caller
  <2>3. 1 \in 1 .. m
    BY <2>2
  <2> QED  BY <2>1, <2>3, ElementOfSeq DEF IInv, TypeOK
<1>6. CASE Fails
  <2>1. TypeOK'
    BY <1>1, <1>6 DEF IInv, TypeOK, Fails
  <2>2. Sockets' /\ Caller'
    BY <1>1, <1>6 DEF IInv, Sockets, Caller, Fails
  <2> QED  BY <1>4, <2>1, <2>2 DEF IInv
<1>7. CASE /\ passwordLevel' = IF step = GetInfo THEN level ELSE passwordLevel
           /\ serverSeed' \in (IF BringsSeed(step)
                               THEN {NoSeed, internalBuffer[1].seed}
                               ELSE {serverSeed})
           /\ Proceed(passwordLevel')
  <2>1. passwordLevel' \in {Absent, level}
    BY <1>7 DEF IInv, Caller
  <2>2. /\ step' \in Steps
        /\ pc' \in {"connect", "send", "resolved", "rejected"}
        /\ socket' \in [Hosts -> {"none", "open", "closed", "gone"}]
        /\ inbound' \in Seq(Parts) /\ requests' \in Seq(Requests)
        /\ Sockets'
    BY <1>1, <1>7, <2>1, ProceedInv
  <2>3. serverSeed' \in Nat
    BY <1>5, <1>7 DEF IInv, TypeOK, Parts, NoSeed
  <2>4. passwordLevel' \in PasswordLevels \cup {Absent}
    BY <2>1 DEF IInv, TypeOK
  <2>5. TypeOK'
    BY <1>1, <2>2, <2>3, <2>4 DEF IInv, TypeOK
  <2>6. Caller'
    BY <1>1, <2>1, <2>2 DEF Caller
  <2> QED  BY <1>4, <2>2, <2>5, <2>6 DEF IInv
<1> QED  BY <1>6, <1>7 DEF Misread

LEMMA ServerAnswersInv ==
  ASSUME IInv, NEW v \in Verdicts, NEW n \in 2 .. 4, ServerAnswers(v, n)
  PROVE  IInv'
<1> USE DEF fixed, caller
<1> DEFINE r == Head(requests)
           h == Host(r.step)
<1>1. /\ requests # <<>> /\ n \in Sizes(r.step, v)
      /\ seed' = IF GivesSeed(r.step) THEN [seed EXCEPT ![h] = @ + 1] ELSE seed
      /\ granted' = IF r.step \in Substitutes THEN [granted EXCEPT ![h] = v]
                    ELSE granted
      /\ refused' = (refused \/ v = "error")
      /\ inbound' = inbound \o Reply(r.step, v, n, seed'[h])
      /\ requests' = Tail(requests)
      /\ UNCHANGED <<fixed, caller, socket, internalBuffer, cut>>
  BY DEF ServerAnswers
<1>2. /\ requests \in Seq(Requests) /\ inbound \in Seq(Parts)
      /\ seed \in [Hosts -> Nat] /\ granted \in [Hosts -> Verdicts \cup {"none"}]
  BY DEF IInv, TypeOK
<1>3. r \in Requests /\ Tail(requests) \in Seq(Requests)
  BY <1>1, <1>2, HeadTailProperties
<1>4. r.step \in Steps /\ h \in Hosts
  BY <1>3, HostType DEF Requests
<1>5. seed' \in [Hosts -> Nat] /\ granted' \in [Hosts -> Verdicts \cup {"none"}]
  BY <1>1, <1>2, <1>4
<1>6. TypeOK'
  <2>1. PICK s \in Steps : s = r.step
    BY <1>4
  <2>2. PICK x \in Nat : x = seed'[h]
    BY <1>4, <1>5
  <2>3. PICK b \in Seq(Parts) : b = Reply(s, v, n, x)
    BY ReplyType
  <2>4. inbound' = inbound \o b
    BY <1>1, <2>1, <2>2, <2>3
  <2>5. inbound' \in Seq(Parts)
    BY <1>2, <2>4, ConcatProperties
  <2>6. refused' \in BOOLEAN
    BY <1>1
  <2> QED  BY <1>1, <1>3, <1>5, <2>5, <2>6 DEF IInv, TypeOK
<1>7. Sockets' /\ Caller'
  BY <1>1 DEF IInv, Sockets, Caller
<1>8. Uncut'
  <2> SUFFICES ASSUME ~cut' PROVE Conversation' /\ Stages'
    BY DEF Uncut
  <2>1. Conversation /\ Stages
    BY <1>1 DEF IInv, Uncut
  <2>2. pc = "wait" /\ internalBuffer = <<>> /\ Asked /\ ~refused
    BY <1>1, <2>1, IInv DEF IInv, TypeOK, Conversation, Quiet
  <2>3. r.step = step /\ Tail(requests) = <<>>
    BY <2>2 DEF Asked
  <2>4. inbound' = Reply(step, v, n, seed'[Host(step)])
    <3>1. PICK s \in Steps : s = step
      BY <1>4, <2>3
    <3>2. PICK x \in Nat : x = seed'[Host(step)]
      BY <1>4, <1>5, <2>3
    <3>3. PICK b \in Seq(Parts) : b = Reply(s, v, n, x)
      BY ReplyType
    <3>4. inbound' = <<>> \o b
      BY <1>1, <2>2, <2>3, <3>1, <3>2, <3>3 DEF Asked
    <3>5. <<>> \o b = b
      BY ConcatEmptySeq
    <3> QED  BY <3>1, <3>2, <3>3, <3>4, <3>5
  <2>5. IsAnswer(inbound)'
    <3>1. refused' <=> v = "error"
      BY <1>1, <2>2
    <3>2. step' = step /\ n \in Sizes(step, v)
      BY <1>1, <2>3
    <3>3. step \in Substitutes => granted'[Host(step)] = v
      BY <1>1, <1>2, <1>4, <2>3
    <3> QED  BY <2>4, <3>1, <3>2, <3>3 DEF IsAnswer
  <2>6. Conversation'
    BY <1>1, <2>2, <2>3, <2>5 DEF Conversation
  <2>7. Stages'
    <3>1. step \in Substitutes => ~GivesSeed(step)
      BY DEF Substitutes, GivesSeed, GetInfo, GetSeeds, SignonInfo,
             RandomSeeds, StartServer
    <3>2. step \in Substitutes => serverSeed' = seed'[Host(step')]
      BY <1>1, <2>1, <2>3, <3>1 DEF Stages
    <3>3. step > SignonInfo => granted'["signon"] = "ok"
      <4>1. step > SignonInfo => h = "database"
        BY <1>4, <2>3, HostType
      <4>2. "signon" \in Hosts
        BY DEF Hosts
      <4> QED  BY <1>1, <1>2, <2>1, <4>1, <4>2 DEF Stages
    <3>4. step > StartServer => granted'["database"] = "ok"
      <4>1. step \in Steps /\ step > StartServer => step \notin Substitutes
        BY DEF Steps, Substitutes, StartServer, SignonInfo, GetInfo,
               SetServerAttributes
      <4> QED  BY <1>1, <1>4, <2>1, <2>3, <4>1 DEF Stages
    <3> QED  BY <1>1, <3>2, <3>3, <3>4 DEF Stages
  <2> QED  BY <2>6, <2>7
<1>9. RejectedHasCause'
  BY <1>1 DEF IInv, RejectedHasCause, ForeignCause, Fits
<1> QED  BY <1>6, <1>7, <1>8, <1>9 DEF IInv

LEMMA PeerCloseInv ==
  ASSUME IInv, NEW h \in Hosts, PeerClose(h)
  PROVE  IInv'
<1> USE DEF PeerClose, fixed, caller
<1>1. socket \in [Hosts -> {"none", "open", "closed", "gone"}]
  BY DEF IInv, TypeOK
<1>2. TypeOK'
  <2>1. /\ socket' \in [Hosts -> {"none", "open", "closed", "gone"}]
        /\ requests' \in Seq(Requests)
    BY <1>1, EmptySeq
  <2> QED  BY <2>1 DEF IInv, TypeOK
<1>3. socket'[h] = "gone" /\ \A g \in Hosts : g # h => socket'[g] = socket[g]
  BY <1>1
<1>4. Sockets'
  <2>1. Host(step) \in Hosts /\ Host(step') = Host(step)
    BY HostType DEF IInv, TypeOK
  <2>2. "signon" \in Hosts /\ "database" \in Hosts
    BY DEF Hosts
  <2> QED  BY <1>3, <2>1, <2>2 DEF IInv, Sockets
<1>5. Caller'
  BY DEF IInv, Caller
<1>6. Uncut'
  <2> SUFFICES ASSUME ~cut' PROVE Conversation' /\ Stages'
    BY DEF Uncut
  <2>1. Conversation /\ Stages
    BY DEF IInv, Uncut
  <2>2. IsAnswer(inbound) => IsAnswer(inbound)'
    BY DEF IsAnswer
  <2>3. IsAnswer(internalBuffer) => IsAnswer(internalBuffer)'
    BY DEF IsAnswer
  <2>4. Conversation'
    BY <2>1, <2>2, <2>3 DEF Conversation, Quiet, Asked
  <2>5. Stages'
    BY <2>1 DEF Stages
  <2> QED  BY <2>4, <2>5
<1>7. RejectedHasCause'
  BY <1>3 DEF RejectedHasCause, ForeignCause
<1> QED  BY <1>2, <1>4, <1>5, <1>6, <1>7 DEF IInv

LEMMA NextInv == ASSUME IInv, [Next]_vars PROVE IInv'
<1>1. CASE UNCHANGED vars
  BY <1>1, StutterInv
<1>2. CASE Connect \/ ConnectRefused
  BY <1>2, ConnectInv
<1>3. CASE Send
  BY <1>3, SendInv
<1>4. CASE SendRejected
  BY <1>4, SendRejectedInv
<1>5. CASE \E n \in 1 .. Len(inbound) : Deliver(n)
  BY <1>5, DeliverInv
<1>6. CASE ReadReply
  BY <1>6, ReadReplyInv
<1>7. CASE ReadRefusal
  BY <1>7, ReadRefusalInv
<1>8. CASE Misread
  BY <1>8, MisreadInv
<1>9. CASE \E v \in Verdicts, n \in 2 .. 4 : ServerAnswers(v, n)
  BY <1>9, ServerAnswersInv
<1>10. CASE \E h \in Hosts : PeerClose(h)
  BY <1>10, PeerCloseInv
<1> QED
  BY <1>1, <1>2, <1>3, <1>4, <1>5, <1>6, <1>7, <1>8, <1>9, <1>10 DEF Next

LEMMA Invariance == Spec => []IInv
<1> QED  BY InitInv, NextInv, PTL DEF Spec

-----------------------------------------------------------------------------
(* Theorems *)

\* Every variable keeps its type.
THEOREM TypeCorrect == Spec => []TypeOK
<1> QED  BY Invariance, PTL DEF IInv

\* No substitute that reaches a server was made with a seed it has replaced,
\* as long as no reply has been cut.
THEOREM AlwaysFresh == Spec => []SubstituteFresh
<1>1. IInv => SubstituteFresh
  <2> SUFFICES ASSUME IInv, ~cut, NEW k \in 1 .. Len(requests),
                      requests[k].step \in Substitutes
               PROVE  requests[k].seed = seed[Host(requests[k].step)]
    BY DEF SubstituteFresh
  <2>1. Conversation /\ Stages
    BY DEF IInv, Uncut
  <2>2. requests \in Seq(Requests)
    BY DEF IInv, TypeOK
  <2>3. requests # <<>>
    BY <2>2, EmptySeq
  <2>4. Asked
    BY <2>1, <2>3 DEF IInv, TypeOK, Conversation, Quiet
  <2>5. requests[k] = [step |-> step,
                       seed |-> IF step \in Substitutes THEN serverSeed
                                ELSE NoSeed]
    BY <2>4 DEF Asked
  <2> QED  BY <2>1, <2>5 DEF Stages
<1> QED  BY <1>1, Invariance, PTL

\* A login that has resolved was accepted by both servers, if it is uncut.
LEMMA ResolvedGranted == IInv => ResolvedMeansGranted
<1> SUFFICES ASSUME IInv, ~cut PROVE ResolvedMeansGranted
  BY DEF ResolvedMeansGranted
<1>1. Conversation /\ Stages
  BY DEF IInv, Uncut
<1>2. /\ step \in Steps
      /\ granted \in [Hosts -> Verdicts \cup {"none"}]
  BY DEF IInv, TypeOK
<1>3. ASSUME pc = "resolved"
      PROVE  /\ granted = [h \in Hosts |-> "ok"] /\ ~refused
             /\ socket["database"] # "closed"
  <2>1. step = SetServerAttributes /\ socket[Host(step)] \in {"open", "gone"}
    BY <1>3 DEF IInv, Sockets
  <2>2. Host(step) = "database" /\ step > SignonInfo /\ step > StartServer
    BY <2>1 DEF Host, SignonInfo, StartServer, SetServerAttributes
  <2>3. granted["signon"] = "ok" /\ granted["database"] = "ok"
    BY <1>1, <2>2 DEF Stages
  <2>4. granted = [h \in Hosts |-> "ok"]
    BY <1>2, <2>3 DEF Hosts
  <2> QED  BY <1>1, <1>3, <2>1, <2>2, <2>4 DEF Conversation
<1>4. ASSUME socket["database"] # "none"
      PROVE  granted["signon"] = "ok" /\ socket["signon"] = "closed"
  <2>1. step > SignonInfo
    BY <1>2, <1>4 DEF IInv, Sockets, Steps, GetInfo, SetServerAttributes,
                      SignonInfo
  <2> QED  BY <1>1, <2>1 DEF IInv, Sockets, Stages
<1> QED  BY <1>3, <1>4 DEF ResolvedMeansGranted

\* A login resolves only when both servers have accepted it, and has no
\* database connection before the signon server has.
THEOREM ResolvedIsGranted == Spec => []ResolvedMeansGranted
<1> QED  BY ResolvedGranted, Invariance, PTL

\* A login rejects only for a cause that lies outside of it, a name that is
\* too long, or a password level from 2 on.
THEOREM RejectedAlwaysHasCause == Spec => []RejectedHasCause
<1> QED  BY Invariance, PTL DEF IInv

\* Only the host of the exchange has an open socket.
LEMMA OpenIsHost ==
  ASSUME IInv, NEW h \in Hosts, socket[h] = "open"
  PROVE  h = Host(step)
<1>1. step \in Steps
  BY DEF IInv, TypeOK
<1>2. step <= SignonInfo \/ step > SignonInfo
  BY <1>1 DEF Steps, GetInfo, SetServerAttributes, SignonInfo
<1>3. /\ step <= SignonInfo => Host(step) = "signon"
      /\ step > SignonInfo => Host(step) = "database"
  BY <1>1, HostType
<1> QED  BY <1>2, <1>3 DEF IInv, Sockets, Hosts

\* No socket is open but the one of the exchange under way, and this one is
\* still there when the login has settled, unless the host has gone.
THEOREM OneSocketOnly == Spec => []OneSocket
<1>1. IInv => OneSocket
  <2> SUFFICES ASSUME IInv PROVE OneSocket
    OBVIOUS
  <2>1. \A h \in Hosts : socket[h] = "open" => h = Host(step)
    BY OpenIsHost
  <2>2. pc \in {"resolved", "rejected"}
          => socket[Host(step)] \in {"open", "gone"}
    BY DEF IInv, Sockets
  <2> QED  BY <2>1, <2>2 DEF OneSocket
<1> QED  BY <1>1, Invariance, PTL

-----------------------------------------------------------------------------
(* Nobody is left waiting *)

LEMMA SendIsPending ==
  ASSUME IInv, Send
  PROVE  requests' # <<>>
<1> DEFINE r == [step |-> step,
                 seed |-> IF step \in Substitutes THEN serverSeed ELSE NoSeed]
<1>1. /\ requests \in Seq(Requests) /\ r \in Requests
      /\ requests' = Append(requests, r)
  BY DEF IInv, TypeOK, Send, Requests, NoSeed
<1>2. /\ requests' \in Seq(Requests)
      /\ Len(requests') = Len(requests) + 1 /\ Len(requests) \in Nat
  BY <1>1, AppendProperties, LenProperties
<1> QED  BY <1>2, EmptySeq

LEMMA AnswerLength ==
  ASSUME IInv, NEW v \in Verdicts, NEW n \in 2 .. 4, ServerAnswers(v, n)
  PROVE  Len(inbound') = Len(inbound) + n /\ inbound' # <<>>
<1>1. /\ requests \in Seq(Requests) /\ requests # <<>>
      /\ inbound \in Seq(Parts) /\ seed \in [Hosts -> Nat]
  BY DEF IInv, TypeOK, ServerAnswers
<1>2. PICK s \in Steps : s = Head(requests).step
  <2>1. Head(requests) \in Requests
    BY <1>1, HeadTailProperties
  <2> QED  BY <2>1 DEF Requests
<1>3. PICK x \in Nat : x = seed'[Host(s)]
  <2>1. Host(s) \in Hosts
    BY HostType
  <2> QED  BY <1>1, <1>2, <2>1 DEF ServerAnswers
<1>4. PICK b \in Seq(Parts) : b = Reply(s, v, n, x)
  BY ReplyType
<1>5. Len(b) = n /\ inbound' = inbound \o b
  <2>1. Len(Reply(s, v, n, x)) = n
    BY ReplyType
  <2>2. inbound' = inbound \o Reply(s, v, n, x)
    BY <1>2, <1>3 DEF ServerAnswers
  <2> QED  BY <1>4, <2>1, <2>2
<1>6. Len(inbound') = Len(inbound) + n /\ Len(inbound) \in Nat
  BY <1>1, <1>5, ConcatProperties, LenProperties
<1>7. Len(inbound') # 0
  BY <1>6
<1> QED  BY <1>6, <1>7, EmptySeq

\* A login that waits on a live connection has something ahead of it.
SomethingAhead ==
  pc = "wait" /\ socket[Host(step)] = "open" =>
    requests # <<>> \/ inbound # <<>>

\* Requests are those of exchanges with the server that the caller talks to.
RequestsHere ==
  \A j \in 1 .. Len(requests) : Host(requests[j].step) = Host(step)

LEMMA NextNeverLeft ==
  IInv /\ SomethingAhead /\ [Next]_vars => SomethingAhead'
<1> SUFFICES ASSUME IInv, SomethingAhead, [Next]_vars
             PROVE  SomethingAhead'
  OBVIOUS
<1> USE DEF fixed, caller, server
<1>1. CASE UNCHANGED vars
  BY <1>1 DEF vars, SomethingAhead
<1>2. CASE Connect \/ ConnectRefused \/ SendRejected
  BY <1>2 DEF Connect, ConnectRefused, SendRejected, SomethingAhead
<1>3. CASE Send
  BY <1>3, SendIsPending DEF SomethingAhead
<1>4. ASSUME NEW n \in 1 .. Len(inbound), Deliver(n)
      PROVE  SomethingAhead'
  BY <1>4 DEF Deliver, Wakes, SomethingAhead
<1>5. CASE ReadReply \/ ReadRefusal \/ Misread
  BY <1>5 DEF ReadReply, ReadRefusal, Misread, Fails, Proceed, SomethingAhead
<1>6. ASSUME NEW v \in Verdicts, NEW n \in 2 .. 4, ServerAnswers(v, n)
      PROVE  SomethingAhead'
  BY <1>6, AnswerLength DEF SomethingAhead
<1>7. ASSUME NEW h \in Hosts, PeerClose(h)
      PROVE  SomethingAhead'
  <2>1. h = Host(step) /\ step' = step
    BY <1>7, OpenIsHost DEF PeerClose
  <2>2. socket'[h] = "gone"
    BY <1>7 DEF PeerClose, IInv, TypeOK
  <2> QED  BY <2>1, <2>2 DEF SomethingAhead
<1> QED
  BY <1>1, <1>2, <1>3, <1>4, <1>5, <1>6, <1>7 DEF Next

\* An exchange that is followed by another on the same socket.
LEMMA NextExchangeHost ==
  ASSUME step \in Steps, step # SignonInfo, ~LastExchange(step),
         step' = NextExchange(step)
  PROVE  step' \in Steps /\ step' = step + 1 /\ Host(step') = Host(step)
BY DEF Steps, Host, GetInfo, SignonInfo, SetServerAttributes, LastExchange,
       NextExchange

LEMMA ProceedHere ==
  ASSUME TypeOK, RequestsHere, Proceed(passwordLevel')
  PROVE  RequestsHere'
<1>1. step \in Steps
  BY DEF TypeOK
<1>2. CASE UNCHANGED <<step, requests>>
  BY <1>2 DEF RequestsHere
<1>3. CASE requests' = <<>>
  BY <1>3, EmptySeq DEF RequestsHere
<1>4. CASE /\ step # SignonInfo /\ ~LastExchange(step)
           /\ step' = NextExchange(step) /\ UNCHANGED requests
  <2>1. Host(step') = Host(step)
    BY <1>1, <1>4, NextExchangeHost
  <2> QED  BY <1>4, <2>1 DEF RequestsHere
<1> QED  BY <1>2, <1>3, <1>4 DEF Proceed

LEMMA SendHere ==
  ASSUME TypeOK, RequestsHere, Send
  PROVE  RequestsHere'
<1> DEFINE r == [step |-> step,
                 seed |-> IF step \in Substitutes THEN serverSeed ELSE NoSeed]
<1>1. /\ requests \in Seq(Requests) /\ r \in Requests /\ step' = step
      /\ requests' = Append(requests, r) /\ r.step = step
  BY DEF TypeOK, Send, Requests, NoSeed
<1> HIDE DEF r
<1>2. PICK m \in Nat : m = Len(requests)
  BY <1>1, LenProperties
<1>3. /\ Len(requests') = m + 1 /\ requests'[m + 1] = r
      /\ \A j \in 1 .. m : requests'[j] = requests[j]
  BY <1>1, <1>2, AppendProperties
<1> SUFFICES ASSUME NEW j \in 1 .. Len(requests')
             PROVE  Host(requests'[j].step) = Host(step)
  BY <1>1 DEF RequestsHere
<1>4. CASE j = m + 1
  BY <1>1, <1>3, <1>4
<1>5. CASE j \in 1 .. m
  BY <1>2, <1>3, <1>5 DEF RequestsHere
<1> QED  BY <1>2, <1>3, <1>4, <1>5

LEMMA ServerAnswersHere ==
  ASSUME TypeOK, RequestsHere, NEW v \in Verdicts, NEW n \in 2 .. 4,
         ServerAnswers(v, n)
  PROVE  RequestsHere'
<1>1. /\ requests \in Seq(Requests) /\ requests # <<>>
      /\ requests' = Tail(requests) /\ step' = step
  BY DEF TypeOK, ServerAnswers, caller
<1>2. PICK m \in Nat : m = Len(requests)
  BY <1>1, LenProperties
<1>3. /\ Len(requests') = m - 1
      /\ \A j \in 1 .. (m - 1) : requests'[j] = requests[j + 1]
  BY <1>1, <1>2, HeadTailProperties
<1> SUFFICES ASSUME NEW j \in 1 .. (m - 1)
             PROVE  Host(requests'[j].step) = Host(step)
  BY <1>1, <1>3 DEF RequestsHere
<1>4. j + 1 \in 1 .. Len(requests)
  BY <1>2
<1> QED  BY <1>3, <1>4 DEF RequestsHere

LEMMA NextHere == TypeOK /\ RequestsHere /\ [Next]_vars => RequestsHere'
<1> SUFFICES ASSUME TypeOK, RequestsHere, [Next]_vars
             PROVE  RequestsHere'
  OBVIOUS
<1> USE DEF fixed, caller, server
<1>1. CASE UNCHANGED <<step, requests>>
  BY <1>1 DEF RequestsHere
<1>2. CASE Send
  BY <1>2, SendHere
<1>3. CASE Proceed(passwordLevel')
  BY <1>3, ProceedHere
<1>4. ASSUME NEW v \in Verdicts, NEW n \in 2 .. 4, ServerAnswers(v, n)
      PROVE  RequestsHere'
  BY <1>4, ServerAnswersHere
<1>5. CASE requests' = <<>>
  BY <1>5, EmptySeq DEF RequestsHere
<1> QED
  BY <1>1, <1>2, <1>3, <1>4, <1>5
     DEF vars, Next, Connect, ConnectRefused, SendRejected, Deliver, ReadReply,
         ReadRefusal, Misread, Fails, PeerClose

LEMMA HereInvariance == Spec => [](SomethingAhead /\ RequestsHere)
<1>1. Init => SomethingAhead /\ RequestsHere
  BY EmptySeq DEF Init, SomethingAhead, RequestsHere
<1>2. IInv => TypeOK
  BY DEF IInv
<1> QED  BY <1>1, <1>2, Invariance, NextNeverLeft, NextHere, PTL DEF Spec

LEMMA HeadIsHere ==
  ASSUME TypeOK, RequestsHere, requests # <<>>
  PROVE  Host(Head(requests).step) = Host(step)
<1>1. requests \in Seq(Requests)
  BY DEF TypeOK
<1>2. Head(requests) = requests[1] /\ 1 \in 1 .. Len(requests)
  BY <1>1, EmptySeq, LenProperties, HeadTailProperties
<1> QED  BY <1>2 DEF RequestsHere

\* A login never waits on a live connection with nothing asked of its server
\* and nothing on its way: what could leave it waiting is a lost connection and
\* nothing else.
THEOREM LoginNeverLeftWaiting == Spec => []NeverLeftWaiting
<1>1. TypeOK /\ SomethingAhead /\ RequestsHere => NeverLeftWaiting
  BY HeadIsHere DEF SomethingAhead, NeverLeftWaiting
<1> QED  BY <1>1, TypeCorrect, HereInvariance, PTL

\* The guards of the steps that fairness is about: connecting, sending, taking
\* a chunk, reading, and answering, as a server may always do with a refusal.
CanProceed ==
  \/ pc = "connect" /\ socket[Host(step)] = "none"
  \/ pc = "send"
  \/ pc \in {"send", "wait"} /\ inbound # <<>>
  \/ pc = "woken"
  \/ requests # <<>> /\ socket[Host(Head(requests).step)] = "open"

\* A login that has not settled can always go on, unless the host it talks to
\* has gone: there is no state of the login in which everybody waits.
THEOREM LoginNeverStuck ==
  Spec => [](\/ pc \in {"resolved", "rejected"}
             \/ socket[Host(step)] = "gone"
             \/ CanProceed)
<1>1. IInv /\ NeverLeftWaiting =>
        \/ pc \in {"resolved", "rejected"}
        \/ socket[Host(step)] = "gone"
        \/ CanProceed
  BY DEF IInv, TypeOK, Sockets, NeverLeftWaiting, CanProceed
<1> QED  BY <1>1, Invariance, LoginNeverLeftWaiting, PTL

-----------------------------------------------------------------------------
(* Nothing is sent for names that do not fit *)

\* The level is known from the first reply on, and from the second on the names
\* have been encoded.
Encoded ==
  /\ step > GetInfo => passwordLevel = level
  /\ step > GetSeeds => CredentialsEncode(level)

\* The level that a reader leaves, from whatever bytes it took the reply.
LEMMA LevelRead ==
  ASSUME Encoded, step \in Steps,
         passwordLevel' = IF step = GetInfo THEN level ELSE passwordLevel
  PROVE  passwordLevel' = level
BY DEF Encoded, Steps, GetInfo, SetServerAttributes

LEMMA ProceedEncoded ==
  ASSUME Encoded, step \in Steps, passwordLevel' = level,
         Proceed(passwordLevel'), UNCHANGED fixed
  PROVE  Encoded'
<1> USE DEF fixed
<1>1. CredentialsEncode(level)' <=> CredentialsEncode(level)
  BY DEF CredentialsEncode
<1>2. CASE UNCHANGED step
  BY <1>1, <1>2 DEF Encoded
<1>3. CASE step = SignonInfo
  BY <1>1, <1>3 DEF Encoded, SignonInfo, GetSeeds
<1>4. CASE /\ step # SignonInfo /\ ~LastExchange(step)
           /\ BringsSeed(step) => CredentialsEncode(passwordLevel')
           /\ step' = NextExchange(step)
  <2>1. step' = step + 1 /\ step \in Int
    BY <1>4, NextExchangeHost DEF Steps, GetInfo, SetServerAttributes
  <2>2. step' > GetSeeds => CredentialsEncode(level)
    <3>1. CASE step = GetSeeds
      BY <1>4, <3>1 DEF BringsSeed
    <3>2. CASE step # GetSeeds
      BY <2>1, <3>2 DEF Encoded, GetSeeds
    <3> QED  BY <3>1, <3>2
  <2> QED  BY <1>1, <2>2 DEF Encoded
<1> QED  BY <1>2, <1>3, <1>4 DEF Proceed

LEMMA NextEncoded == TypeOK /\ Encoded /\ [Next]_vars => Encoded'
<1> SUFFICES ASSUME TypeOK, Encoded, [Next]_vars
             PROVE  Encoded'
  OBVIOUS
<1>0. step \in Steps
  BY DEF TypeOK
<1>1. CASE UNCHANGED <<account, level, step, passwordLevel>>
  BY <1>1 DEF Encoded, CredentialsEncode
<1>2. CASE ReadReply \/ Misread
  <2>1. CASE Fails
    BY <1>2, <2>1 DEF ReadReply, Misread, Fails, fixed, Encoded, CredentialsEncode
  <2>2. CASE Proceed(passwordLevel') /\ ~Fails
    <3>1. passwordLevel' = level
      BY <1>0, <1>2, <2>2, LevelRead DEF ReadReply, Misread
    <3> QED  BY <1>0, <1>2, <2>2, <3>1, ProceedEncoded DEF ReadReply, Misread
  <2> QED  BY <1>2, <2>1, <2>2 DEF ReadReply, Misread
<1>3. CASE Connect \/ ConnectRefused \/ Send \/ SendRejected
  BY <1>1, <1>3 DEF fixed, caller, Connect, ConnectRefused, Send, SendRejected
<1>4. ASSUME NEW n \in 1 .. Len(inbound), Deliver(n)
      PROVE  Encoded'
  BY <1>1, <1>4 DEF fixed, Deliver
<1>5. CASE ReadRefusal
  BY <1>1, <1>5 DEF fixed, ReadRefusal, Fails
<1>6. ASSUME NEW v \in Verdicts, NEW n \in 2 .. 4, ServerAnswers(v, n)
      PROVE  Encoded'
  BY <1>1, <1>6 DEF fixed, caller, ServerAnswers
<1>7. ASSUME NEW h \in Hosts, PeerClose(h)
      PROVE  Encoded'
  BY <1>1, <1>7 DEF fixed, caller, PeerClose
<1>8. CASE UNCHANGED vars
  BY <1>1, <1>8 DEF vars, fixed, caller
<1> QED
  BY <1>2, <1>3, <1>4, <1>5, <1>6, <1>7, <1>8 DEF Next

\* Names that do not fit, and levels from 2 on, cannot be encoded.
LEMMA UnfitNotEncoded ==
  ASSUME account \in Accounts, level \in PasswordLevels, CredentialsEncode(level)
  PROVE  Fits /\ level < 2
<1>1. account.user \in Nat /\ account.password \in Nat
  BY AccountsAssumption
<1> QED  BY <1>1 DEF CredentialsEncode, NameFits, Fits

\* No substitute is sent, and no login resolves, for a name or password that is
\* too long or at a password level from 2 on, whatever is cut or misread: the
\* causes that RejectedHasCause names besides foreign ones always reject.
THEOREM UnfitNeverResolves ==
  Spec => [](step >= SignonInfo \/ pc = "resolved" => Fits /\ level < 2)
<1>1. IInv /\ Encoded
        => (step >= SignonInfo \/ pc = "resolved" => Fits /\ level < 2)
  <2> SUFFICES ASSUME IInv, Encoded, step >= SignonInfo \/ pc = "resolved"
               PROVE  Fits /\ level < 2
    OBVIOUS
  <2>1. step > GetSeeds
    BY DEF IInv, TypeOK, Sockets, Steps, GetInfo, GetSeeds, SignonInfo,
           SetServerAttributes
  <2> QED  BY <2>1, UnfitNotEncoded DEF IInv, TypeOK, Encoded
<1>2. Init => Encoded
  BY DEF Init, Encoded, GetInfo, GetSeeds
<1>3. IInv => TypeOK
  BY DEF IInv
<1> QED  BY <1>1, <1>2, <1>3, Invariance, NextEncoded, PTL DEF Spec

-----------------------------------------------------------------------------
(* A login ends *)

PCs == {"connect", "send", "wait", "woken", "resolved", "rejected"}

\* What is left for the caller, stage by stage.
LEMMA LeftTable ==
  ASSUME NEW s \in Steps, NEW p \in PCs
  PROVE  /\ s \in 1 .. 6
         /\ p = "connect" => ExchangesLeft(s, p) = 32 * (6 - s) + 32
         /\ p = "send" => ExchangesLeft(s, p) = 32 * (6 - s) + 24
         /\ p = "wait" => ExchangesLeft(s, p) = 32 * (6 - s) + 16
         /\ p = "woken" => ExchangesLeft(s, p) = 32 * (6 - s) + 8
         /\ p \in {"resolved", "rejected"} => ExchangesLeft(s, p) = 0
         /\ ExchangesLeft(s, p) \in Nat
         /\ p \notin {"resolved", "rejected"} => ExchangesLeft(s, p) > 0
<1>1. s \in 1 .. 6 /\ SetServerAttributes = 6
  BY DEF Steps, GetInfo, SetServerAttributes
<1>2. /\ p = "connect" => StagesLeft(p) = 4
      /\ p = "send" => StagesLeft(p) = 3
      /\ p = "wait" => StagesLeft(p) = 2
      /\ p = "woken" => StagesLeft(p) = 1
      /\ p \in {"resolved", "rejected"} => StagesLeft(p) = 0
  BY DEF StagesLeft
<1> QED  BY <1>1, <1>2 DEF ExchangesLeft, PCs

LEMMA StageDrops ==
  ASSUME NEW s \in Steps
  PROVE  /\ ExchangesLeft(s, "send") < ExchangesLeft(s, "connect")
         /\ ExchangesLeft(s, "send") = ExchangesLeft(s, "wait") + 8
         /\ ExchangesLeft(s, "woken") < ExchangesLeft(s, "wait")
         /\ \A p \in PCs \ {"resolved", "rejected"} :
              ExchangesLeft(s, "rejected") < ExchangesLeft(s, p)
<1>1. /\ s \in 1 .. 6
      /\ ExchangesLeft(s, "connect") = 32 * (6 - s) + 32
      /\ ExchangesLeft(s, "send") = 32 * (6 - s) + 24
      /\ ExchangesLeft(s, "wait") = 32 * (6 - s) + 16
      /\ ExchangesLeft(s, "woken") = 32 * (6 - s) + 8
  BY LeftTable DEF PCs
<1>2. ASSUME NEW p \in PCs \ {"resolved", "rejected"}
      PROVE  ExchangesLeft(s, "rejected") < ExchangesLeft(s, p)
  <2>1. p \in {"connect", "send", "wait", "woken"}
    BY <1>2 DEF PCs
  <2>2. ExchangesLeft(s, "rejected") = 0
    BY LeftTable DEF PCs
  <2> QED  BY <1>1, <2>1, <2>2
<1>3. /\ ExchangesLeft(s, "send") < ExchangesLeft(s, "connect")
      /\ ExchangesLeft(s, "send") = ExchangesLeft(s, "wait") + 8
      /\ ExchangesLeft(s, "woken") < ExchangesLeft(s, "wait")
  BY <1>1
<1> QED  BY <1>2, <1>3

LEMMA SocketTable ==
  /\ SocketLeft("none") = 2 /\ SocketLeft("open") = 1
  /\ SocketLeft("closed") = 0 /\ SocketLeft("gone") = 0
BY DEF SocketLeft

SocketStates == {"none", "open", "closed", "gone"}

\* The numbers that Remaining adds up.
Numbers(x, q, b, u, d) ==
  /\ x = ExchangesLeft(step, pc) /\ x \in Nat
  /\ q = Len(requests) /\ q \in Nat
  /\ b = Len(inbound) /\ b \in Nat
  /\ u = SocketLeft(socket["signon"]) /\ u \in 0 .. 2
  /\ d = SocketLeft(socket["database"]) /\ d \in 0 .. 2
  /\ Remaining = x + 5 * q + b + u + d

LEMMA NumbersExist ==
  TypeOK => \E x, q, b, u, d : Numbers(x, q, b, u, d)
<1> SUFFICES ASSUME TypeOK PROVE \E x, q, b, u, d : Numbers(x, q, b, u, d)
  OBVIOUS
<1>1. ExchangesLeft(step, pc) \in Nat
  BY LeftTable DEF TypeOK, PCs
<1>2. Len(requests) \in Nat /\ Len(inbound) \in Nat
  BY LenProperties DEF TypeOK
<1>3. /\ SocketLeft(socket["signon"]) \in 0 .. 2
      /\ SocketLeft(socket["database"]) \in 0 .. 2
  BY SocketTable DEF TypeOK, Hosts
<1>4. Numbers(ExchangesLeft(step, pc), Len(requests), Len(inbound),
              SocketLeft(socket["signon"]), SocketLeft(socket["database"]))
  BY <1>1, <1>2, <1>3 DEF Numbers, Remaining
<1> QED  BY <1>4

\* No socket is opened twice.
LEMMA SocketsLower ==
  ASSUME TypeOK, Next
  PROVE  \A h \in Hosts : SocketLeft(socket'[h]) <= SocketLeft(socket[h])
<1> USE DEF fixed, caller, server
<1> DEFINE Lower == \A h \in Hosts : SocketLeft(socket'[h]) <= SocketLeft(socket[h])
<1>0. /\ socket \in [Hosts -> SocketStates]
      /\ \A h \in Hosts : SocketLeft(socket[h]) \in 0 .. 2
  <2>1. socket \in [Hosts -> SocketStates]
    BY DEF TypeOK, SocketStates
  <2>2. ASSUME NEW state \in SocketStates
        PROVE  SocketLeft(state) \in 0 .. 2
    BY <2>2, SocketTable DEF SocketStates
  <2> QED  BY <2>1, <2>2
<1>1. ASSUME UNCHANGED socket PROVE Lower
  BY <1>0, <1>1
<1>2. ASSUME NEW g \in Hosts, NEW state \in SocketStates,
             socket' = [socket EXCEPT ![g] = state],
             socket[g] = "none" \/ state \in {"closed", "gone"}
      PROVE  Lower
  BY <1>0, <1>2, SocketTable DEF SocketStates
<1>3. Host(step) \in Hosts
  BY HostType DEF TypeOK
<1>4. CASE Connect
  BY <1>2, <1>3, <1>4 DEF Connect, SocketStates
<1>5. CASE ConnectRefused
  BY <1>2, <1>3, <1>5 DEF ConnectRefused, SocketStates
<1>6. CASE socket' = SocketsAfter(step)
  BY <1>1, <1>2, <1>6 DEF SocketsAfter, SocketStates, Hosts
<1>7. ASSUME NEW g \in Hosts, PeerClose(g) PROVE Lower
  BY <1>2, <1>7 DEF PeerClose, SocketStates
<1>8. CASE ReadReply \/ ReadRefusal \/ Misread
  BY <1>1, <1>6, <1>8 DEF ReadReply, ReadRefusal, Misread, Fails, Proceed
<1>9. CASE Send \/ SendRejected
  BY <1>1, <1>9 DEF Send, SendRejected
<1>a. ASSUME NEW n \in 1 .. Len(inbound), Deliver(n) PROVE Lower
  BY <1>1, <1>a DEF Deliver
<1>b. ASSUME NEW v \in Verdicts, NEW n \in 2 .. 4, ServerAnswers(v, n)
      PROVE  Lower
  BY <1>1, <1>b DEF ServerAnswers
<1> QED
  BY <1>4, <1>5, <1>7, <1>8, <1>9, <1>a, <1>b DEF Next

LEMMA SendLowers ==
  ASSUME TypeOK, Send
  PROVE  Len(requests') = Len(requests) + 1
<1> DEFINE r == [step |-> step,
                 seed |-> IF step \in Substitutes THEN serverSeed ELSE NoSeed]
<1>1. /\ requests \in Seq(Requests) /\ r \in Requests
      /\ requests' = Append(requests, r)
  BY DEF TypeOK, Send, Requests, NoSeed
<1> QED  BY <1>1, AppendProperties

LEMMA DeliverLowers ==
  ASSUME TypeOK, NEW n \in 1 .. Len(inbound), Deliver(n)
  PROVE  Len(inbound') < Len(inbound)
<1>1. PICK m \in Nat : m = Len(inbound)
  BY LenProperties DEF TypeOK
<1>2. inbound \in Seq(Parts) /\ n \in Nat /\ inbound' = SubSeq(inbound, n + 1, m)
  BY <1>1 DEF TypeOK, Deliver, Drop
<1>3. \A i \in (n + 1) .. m : inbound[i] \in Parts
  BY <1>1, <1>2, ElementOfSeq
<1>4. n + 1 \in Int /\ m \in Int
  BY <1>1, <1>2
<1>5. Len(SubSeq(inbound, n + 1, m)) = IF n + 1 <= m THEN m - (n + 1) + 1 ELSE 0
  BY ONLY <1>2, <1>3, <1>4, SubSeqProperties
<1> QED  BY <1>1, <1>2, <1>5

\* After a reply the caller is nearer to the end.
LEMMA ProceedLowers ==
  ASSUME TypeOK, TypeOK', pc = "woken", Proceed(passwordLevel')
  PROVE  /\ ExchangesLeft(step', pc') < ExchangesLeft(step, pc)
         /\ \/ UNCHANGED <<requests, inbound>>
            \/ requests' = <<>> /\ inbound' = <<>>
<1>1. step \in Steps /\ pc \in PCs /\ step' \in Steps /\ pc' \in PCs
  BY DEF TypeOK, PCs
<1>2. ExchangesLeft(step, pc) = 32 * (6 - step) + 8 /\ step \in 1 .. 6
  BY <1>1, LeftTable
<1>3. CASE pc' \in {"rejected", "resolved"}
  BY <1>1, <1>2, <1>3, LeftTable DEF Proceed
<1>4. CASE step = SignonInfo /\ pc' = "connect" /\ step' = RandomSeeds
  BY <1>1, <1>2, <1>4, LeftTable DEF Proceed, SignonInfo, RandomSeeds
<1>5. CASE pc' = "send" /\ step' = NextExchange(step)
  BY <1>1, <1>2, <1>5, LeftTable DEF Proceed, NextExchange
<1> QED  BY <1>3, <1>4, <1>5 DEF Proceed

LEMMA ServerAnswersLowers ==
  ASSUME IInv, NEW v \in Verdicts, NEW n \in 2 .. 4, ServerAnswers(v, n)
  PROVE  /\ Len(requests') = Len(requests) - 1
         /\ Len(inbound') = Len(inbound) + n
<1>1. /\ requests \in Seq(Requests) /\ requests # <<>>
      /\ requests' = Tail(requests)
  BY DEF IInv, TypeOK, ServerAnswers
<1> QED  BY <1>1, HeadTailProperties, AnswerLength

\* Every step of a login lowers what is left of it.
LEMMA NextLowers ==
  ASSUME IInv, IInv', Next, (TypeOK => \E x, q, b, u, d : Numbers(x, q, b, u, d))'
  PROVE  Remaining' < Remaining
<1>0. /\ TypeOK /\ TypeOK'
      /\ step \in Steps /\ pc \in PCs /\ step' \in Steps /\ pc' \in PCs
  BY DEF IInv, TypeOK, PCs
<1>1. PICK x, q, b, u, d : Numbers(x, q, b, u, d)
  BY <1>0, NumbersExist
<1>2. PICK x2, q2, b2, u2, d2 : Numbers(x2, q2, b2, u2, d2)'
  BY <1>0
<1>3. u2 <= u /\ d2 <= d
  BY <1>0, <1>1, <1>2, SocketsLower DEF Numbers, Hosts
<1>4. /\ x \in Nat /\ q \in Nat /\ b \in Nat /\ u \in 0 .. 2 /\ d \in 0 .. 2
      /\ x2 \in Nat /\ q2 \in Nat /\ b2 \in Nat /\ u2 \in 0 .. 2 /\ d2 \in 0 .. 2
  BY <1>1, <1>2 DEF Numbers
<1>5. /\ x = ExchangesLeft(step, pc) /\ x2 = ExchangesLeft(step', pc')
      /\ q = Len(requests) /\ q2 = Len(requests')
      /\ b = Len(inbound) /\ b2 = Len(inbound')
      /\ u = SocketLeft(socket["signon"]) /\ u2 = SocketLeft(socket'["signon"])
      /\ d = SocketLeft(socket["database"])
      /\ d2 = SocketLeft(socket'["database"])
  BY <1>1, <1>2 DEF Numbers
<1> SUFFICES 5 * q2 + x2 + b2 + u2 + d2 < 5 * q + x + b + u + d
  BY <1>1, <1>2, <1>4 DEF Numbers
<1>6. CASE Connect
  <2>1. step' = step /\ q2 = q /\ b2 = b /\ pc = "connect" /\ pc' = "send"
    BY <1>5, <1>6 DEF Connect, server
  <2>2. x = ExchangesLeft(step, "connect") /\ x2 = ExchangesLeft(step, "send")
    BY <1>5, <2>1
  <2>3. x2 < x
    BY <1>0, <2>2, StageDrops
  <2> QED  BY <1>3, <1>4, <2>1, <2>3
<1>7. CASE Send
  <2>1. step' = step /\ b2 = b /\ pc = "send" /\ pc' = "wait"
    BY <1>5, <1>7 DEF Send
  <2>2. q2 = q + 1
    BY <1>0, <1>5, <1>7, SendLowers
  <2>3. x = ExchangesLeft(step, "send") /\ x2 = ExchangesLeft(step, "wait")
    BY <1>5, <2>1
  <2>4. x = x2 + 8
    BY <1>0, <2>3, StageDrops
  <2> QED  BY <1>3, <1>4, <2>1, <2>2, <2>4
<1>8. CASE SendRejected \/ ReadRefusal \/ (Fails /\ pc = "woken")
  <2>1. /\ step' = step /\ q2 = q /\ b2 = b
        /\ pc \notin {"resolved", "rejected"} /\ pc' = "rejected"
    BY <1>5, <1>8 DEF SendRejected, ReadRefusal, Fails, server
  <2>2. x = ExchangesLeft(step, pc) /\ x2 = ExchangesLeft(step, "rejected")
    BY <1>5, <2>1
  <2>3. x2 < x
    BY <1>0, <2>1, <2>2, StageDrops
  <2> QED  BY <1>3, <1>4, <2>1, <2>3
<1>9. ASSUME NEW n \in 1 .. Len(inbound), Deliver(n)
      PROVE  5 * q2 + x2 + b2 + u2 + d2 < 5 * q + x + b + u + d
  <2>1. b2 < b
    BY <1>0, <1>5, <1>9, DeliverLowers
  <2>2. /\ step' = step /\ q2 = q
        /\ pc' = pc \/ (pc = "wait" /\ pc' = "woken")
    BY <1>5, <1>9 DEF Deliver, Wakes, server
  <2>3. x2 <= x
    <3>1. CASE pc' = pc
      BY <1>4, <1>5, <2>2, <3>1
    <3>2. CASE pc = "wait" /\ pc' = "woken"
      <4>1. x = ExchangesLeft(step, "wait") /\ x2 = ExchangesLeft(step, "woken")
        BY <1>5, <2>2, <3>2
      <4> QED  BY <1>0, <1>4, <4>1, StageDrops
    <3> QED  BY <2>2, <3>1, <3>2
  <2> QED  BY <1>3, <1>4, <2>1, <2>2, <2>3
<1>a. CASE pc = "woken" /\ Proceed(passwordLevel')
  <2>1. x2 < x
    BY <1>0, <1>5, <1>a, ProceedLowers
  <2>2. q2 <= q /\ b2 <= b
    BY <1>0, <1>4, <1>5, <1>a, ProceedLowers, EmptySeq
  <2> QED  BY <1>3, <1>4, <2>1, <2>2
<1>b. ASSUME NEW v \in Verdicts, NEW n \in 2 .. 4, ServerAnswers(v, n)
      PROVE  5 * q2 + x2 + b2 + u2 + d2 < 5 * q + x + b + u + d
  <2>1. q2 = q - 1 /\ b2 = b + n
    BY <1>5, <1>b, ServerAnswersLowers
  <2>2. x2 = x
    BY <1>5, <1>b DEF ServerAnswers, caller
  <2> QED  BY <1>3, <1>4, <2>1, <2>2
<1>c. CASE ConnectRefused \/ \E h \in Hosts : PeerClose(h)
  <2>1. step' = step /\ pc' = pc /\ b2 = b /\ q2 <= q
    BY <1>4, <1>5, <1>c, EmptySeq DEF ConnectRefused, PeerClose, caller, server
  <2>2. PICK h \in Hosts : SocketLeft(socket'[h]) < SocketLeft(socket[h])
    <3>1. Host(step) \in Hosts /\ socket \in [Hosts -> SocketStates]
      BY <1>0, HostType DEF TypeOK, SocketStates
    <3>2. CASE ConnectRefused
      BY <3>1, <3>2, SocketTable DEF ConnectRefused
    <3>3. ASSUME NEW g \in Hosts, PeerClose(g)
          PROVE  SocketLeft(socket'[g]) < SocketLeft(socket[g])
      BY <3>1, <3>3, SocketTable DEF PeerClose
    <3> QED  BY <1>c, <3>2, <3>3
  <2>3. u2 < u \/ d2 < d
    BY <1>5, <2>2 DEF Hosts
  <2>4. x2 = x
    BY <1>5, <2>1
  <2> QED  BY <1>3, <1>4, <2>1, <2>3, <2>4
<1>d. CASE ReadReply \/ Misread
  BY <1>8, <1>a, <1>d DEF ReadReply, Misread
<1> QED
  BY <1>6, <1>7, <1>8, <1>9, <1>b, <1>c, <1>d DEF Next

LEMMA RemainingInNat == TypeOK => Remaining \in Nat
<1> SUFFICES ASSUME TypeOK PROVE Remaining \in Nat
  OBVIOUS
<1>1. PICK x, q, b, u, d : Numbers(x, q, b, u, d)
  BY NumbersExist
<1>2. /\ Remaining = x + 5 * q + b + u + d
      /\ x \in Nat /\ q \in Nat /\ b \in Nat /\ u \in 0 .. 2 /\ d \in 0 .. 2
  BY <1>1 DEF Numbers
<1>3. x + 5 * q + b + u + d \in Nat
  BY ONLY <1>2
<1> QED  BY <1>2, <1>3

LEMMA InitRemaining == Init => Remaining = 196
<1> SUFFICES ASSUME Init PROVE Remaining = 196
  OBVIOUS
<1>1. /\ Len(requests) = 0 /\ Len(inbound) = 0
      /\ socket["signon"] = "none" /\ socket["database"] = "none"
  BY EmptySeq DEF Init, Hosts
<1>2. ExchangesLeft(step, pc) = 192
  <2>1. step = 1 /\ pc = "connect" /\ step \in Steps /\ pc \in PCs
    BY DEF Init, GetInfo, Steps, SetServerAttributes, PCs
  <2> QED  BY <2>1, LeftTable
<1> QED  BY <1>1, <1>2, SocketTable DEF Remaining

\* The steps of a login run out: each of them lowers what is left, which is
\* never negative.  With LoginNeverStuck this is what LoginSettles says, but
\* for the fairness that makes a step happen that can.
THEOREM LoginStepsRunOut == Spec => StepsRunOut /\ [](Remaining \in 0 .. 196)
<1>1. IInv /\ IInv' /\ (TypeOK => \E x, q, b, u, d : Numbers(x, q, b, u, d))' /\ [Next]_vars => [Remaining' < Remaining]_vars
  BY NextLowers
<1>2. Init => Remaining \in 0 .. 196
  BY InitRemaining
<1>3. (IInv /\ IInv' /\ (TypeOK => \E x, q, b, u, d : Numbers(x, q, b, u, d))' /\ (Remaining \in Nat)' /\ Remaining \in 0 .. 196 /\ [Next]_vars)
        => (Remaining \in 0 .. 196)'
  <2> SUFFICES ASSUME IInv, IInv', (TypeOK => \E x, q, b, u, d : Numbers(x, q, b, u, d))', Remaining' \in Nat,
                      Remaining \in 0 .. 196, [Next]_vars
               PROVE  Remaining' \in 0 .. 196
    OBVIOUS
  <2>1. CASE UNCHANGED vars
    BY <2>1 DEF vars, fixed, caller, server, Remaining
  <2>2. CASE Next
    BY <2>2, NextLowers
  <2> QED  BY <2>1, <2>2
<1>4. IInv => Remaining \in Nat
  BY RemainingInNat DEF IInv
<1> QED
  BY <1>1, <1>2, <1>3, <1>4, NumbersExist, Invariance, PTL DEF Spec, StepsRunOut

-----------------------------------------------------------------------------
(* No attempt is repeated *)

\* Requests are those of different exchanges, none ahead of the caller.
NotAhead ==
  \A j \in 1 .. Len(requests) :
    /\ requests[j].step <= step
    /\ pc \in {"connect", "send"} => requests[j].step < step

AskedOnce ==
  \A j, k \in 1 .. Len(requests) :
    j # k => requests[j].step # requests[k].step

\* A server has not decided on a substitute that is on its way to it, or that
\* has not been sent.
Undecided ==
  \A j \in 1 .. Len(requests) :
    requests[j].step \in Substitutes => granted[Host(requests[j].step)] = "none"

NotAsked ==
  \A s \in Substitutes :
    s > step \/ (s = step /\ pc \in {"connect", "send"})
      => granted[Host(s)] = "none"

Attempts == NotAhead /\ AskedOnce /\ Undecided /\ NotAsked

\* Each server takes one substitute.
LEMMA SubstituteHosts ==
  ASSUME NEW s \in Substitutes, NEW t \in Substitutes
  PROVE  /\ s \in Steps /\ Host(s) \in Hosts
         /\ Host(s) = Host(t) => s = t
<1>1. Host(SignonInfo) = "signon" /\ Host(StartServer) = "database"
  BY DEF Host, SignonInfo, StartServer
<1> QED
  BY <1>1 DEF Substitutes, Steps, Hosts, SignonInfo, StartServer, GetInfo,
              SetServerAttributes

LEMMA AttemptsKept ==
  ASSUME Attempts, UNCHANGED <<requests, granted, step>>,
         pc' \in {"connect", "send"} => pc \in {"connect", "send"}
  PROVE  Attempts'
BY DEF Attempts, NotAhead, AskedOnce, Undecided, NotAsked

LEMMA AttemptsCleared ==
  ASSUME TypeOK, Attempts, requests' = <<>>, UNCHANGED granted,
         step' \in Steps,
         \/ step' = step /\ pc' = pc
         \/ step' > step
  PROVE  Attempts'
<1>1. \A j \in 1 .. Len(requests') : FALSE
  BY EmptySeq
<1>2. NotAsked'
  <2> SUFFICES ASSUME NEW s \in Substitutes,
                      s > step' \/ (s = step' /\ pc' \in {"connect", "send"})
               PROVE  granted[Host(s)] = "none"
    BY DEF NotAsked
  <2>1. s \in Int /\ step \in Int /\ step' \in Int
    BY SubstituteHosts DEF TypeOK, Steps, GetInfo, SetServerAttributes
  <2>2. s > step \/ (s = step /\ pc \in {"connect", "send"})
    BY <2>1
  <2> QED  BY <2>2 DEF Attempts, NotAsked
<1> QED  BY <1>1, <1>2 DEF Attempts, NotAhead, AskedOnce, Undecided

LEMMA AttemptsProceed ==
  ASSUME IInv, Attempts, Proceed(passwordLevel'), pc = "woken", UNCHANGED granted
  PROVE  Attempts'
<1>1. TypeOK /\ step \in Steps /\ requests \in Seq(Requests)
  BY DEF IInv, TypeOK
<1>2. CASE UNCHANGED <<step, requests>> /\ pc' \in {"rejected", "resolved"}
  BY <1>2, AttemptsKept
<1>3. CASE step = SignonInfo /\ step' = RandomSeeds /\ requests' = <<>>
  <2>1. step' \in Steps /\ step' > step
    BY <1>3 DEF Steps, RandomSeeds, SignonInfo, GetInfo, SetServerAttributes
  <2> QED  BY <1>1, <1>3, <2>1, AttemptsCleared
<1>4. CASE step' = step + 1 /\ UNCHANGED requests
  <2>1. step \in Int /\ step' \in Int
    BY <1>1, <1>4 DEF Steps, GetInfo, SetServerAttributes
  <2>2. NotAhead'
    <3> SUFFICES ASSUME NEW j \in 1 .. Len(requests)
                 PROVE  /\ requests[j].step <= step'
                        /\ requests[j].step < step'
      BY <1>4 DEF NotAhead
    <3>1. requests[j] \in Requests
      BY <1>1, ElementOfSeq
    <3>2. requests[j].step \in Int
      BY <3>1 DEF Requests, Steps, GetInfo, SetServerAttributes
    <3>3. requests[j].step <= step
      BY DEF Attempts, NotAhead
    <3> QED  BY <1>4, <2>1, <3>2, <3>3
  <2>3. NotAsked'
    <3> SUFFICES ASSUME NEW s \in Substitutes, s > step' \/ s = step'
                 PROVE  granted[Host(s)] = "none"
      BY DEF NotAsked
    <3>1. s \in Int
      BY SubstituteHosts DEF Steps, GetInfo, SetServerAttributes
    <3>2. s > step
      BY <1>4, <2>1, <3>1
    <3> QED  BY <3>2 DEF Attempts, NotAsked
  <2> QED  BY <1>4, <2>2, <2>3 DEF Attempts, AskedOnce, Undecided
<1> QED  BY <1>2, <1>3, <1>4 DEF Proceed, NextExchange

LEMMA SendAttempts ==
  ASSUME IInv, Attempts, Send
  PROVE  Attempts'
<1> DEFINE r == [step |-> step,
                 seed |-> IF step \in Substitutes THEN serverSeed ELSE NoSeed]
<1>1. /\ requests \in Seq(Requests) /\ r \in Requests
      /\ requests' = Append(requests, r)
      /\ step \in Steps
  BY DEF IInv, TypeOK, Send, Requests, NoSeed
<1>2. PICK m \in Nat : m = Len(requests)
  BY <1>1, LenProperties
<1>3. /\ Len(requests') = m + 1
      /\ \A j \in 1 .. m : requests'[j] = requests[j]
      /\ requests'[m + 1].step = step
  BY <1>1, <1>2, AppendProperties
<1>4. \A j \in 1 .. m : requests'[j].step \in Int /\ requests'[j].step < step
  <2> SUFFICES ASSUME NEW j \in 1 .. m
               PROVE  requests[j].step \in Int /\ requests[j].step < step
    BY <1>3
  <2>1. requests[j] \in Requests
    BY <1>1, <1>2, ElementOfSeq
  <2> QED
    BY <1>2, <2>1 DEF Attempts, NotAhead, Send, Requests, Steps, GetInfo,
                      SetServerAttributes
<1>5. \A j \in 1 .. m + 1 : j \in 1 .. m \/ j = m + 1
  OBVIOUS
<1>6. step \in Int /\ UNCHANGED <<step, granted>> /\ pc = "send" /\ pc' = "wait"
  BY <1>1 DEF Send, Steps, GetInfo, SetServerAttributes
<1>7. NotAhead'
  <2> SUFFICES ASSUME NEW j \in 1 .. m + 1 PROVE requests'[j].step <= step
    BY <1>3, <1>6 DEF NotAhead
  <2>1. CASE j \in 1 .. m
    BY <1>4, <1>6, <2>1
  <2>2. CASE j = m + 1
    BY <1>3, <1>6, <2>2
  <2> QED  BY <1>5, <2>1, <2>2
<1>8. AskedOnce'
  <2> SUFFICES ASSUME NEW j \in 1 .. m + 1, NEW k \in 1 .. m + 1, j # k
               PROVE  requests'[j].step # requests'[k].step
    BY <1>3 DEF AskedOnce
  <2>1. CASE j \in 1 .. m /\ k \in 1 .. m
    BY <1>2, <1>3, <2>1 DEF Attempts, AskedOnce
  <2>2. CASE j = m + 1 /\ k \in 1 .. m
    BY <1>3, <1>4, <1>6, <2>2
  <2>3. CASE j \in 1 .. m /\ k = m + 1
    BY <1>3, <1>4, <1>6, <2>3
  <2> QED  BY <1>5, <2>1, <2>2, <2>3
<1>9. Undecided'
  <2> SUFFICES ASSUME NEW j \in 1 .. m + 1, requests'[j].step \in Substitutes
               PROVE  granted[Host(requests'[j].step)] = "none"
    BY <1>3, <1>6 DEF Undecided
  <2>1. CASE j \in 1 .. m
    BY <1>2, <1>3, <2>1 DEF Attempts, Undecided
  <2>2. CASE j = m + 1
    BY <1>3, <1>6, <2>2 DEF Attempts, NotAsked
  <2> QED  BY <1>5, <2>1, <2>2
<1>10. NotAsked'
  BY <1>6 DEF Attempts, NotAsked
<1> QED  BY <1>7, <1>8, <1>9, <1>10 DEF Attempts

LEMMA ServerAnswersAttempts ==
  ASSUME IInv, Attempts, NEW v \in Verdicts, NEW n \in 2 .. 4,
         ServerAnswers(v, n)
  PROVE  Attempts'
<1>1. /\ requests \in Seq(Requests) /\ requests # <<>>
      /\ requests' = Tail(requests)
      /\ granted \in [Hosts -> Verdicts \cup {"none"}]
      /\ UNCHANGED <<step, pc>>
  BY DEF IInv, TypeOK, ServerAnswers, caller
<1>2. PICK m \in Nat : m = Len(requests)
  BY <1>1, LenProperties
<1>3. /\ m >= 1
      /\ Len(requests') = m - 1
      /\ \A j \in 1 .. m - 1 : requests'[j] = requests[j + 1]
  BY <1>1, <1>2, EmptySeq, HeadTailProperties
<1>4. \A j \in 1 .. m - 1 : j + 1 \in 1 .. m /\ j + 1 # 1
  BY <1>3
<1>5. PICK t : t = requests[1].step
  OBVIOUS
<1>6. granted' = IF t \in Substitutes THEN [granted EXCEPT ![Host(t)] = v]
                 ELSE granted
  <2>1. Head(requests) = requests[1]
    BY <1>1, HeadTailProperties
  <2> QED  BY <1>5, <2>1 DEF ServerAnswers
<1>7. 1 \in 1 .. m
  BY <1>3
<1>8. ASSUME NEW s \in Substitutes, s # t
      PROVE  granted'[Host(s)] = granted[Host(s)]
  <2>1. t \in Substitutes => Host(s) # Host(t)
    BY <1>8, SubstituteHosts
  <2>2. Host(s) \in Hosts
    BY SubstituteHosts
  <2> QED  BY <1>1, <1>6, <2>1, <2>2
<1>9. NotAhead'
  BY <1>1, <1>2, <1>3, <1>4 DEF Attempts, NotAhead
<1>10. AskedOnce'
  <2> SUFFICES ASSUME NEW j \in 1 .. m - 1, NEW k \in 1 .. m - 1, j # k
               PROVE  requests'[j].step # requests'[k].step
    BY <1>3 DEF AskedOnce
  <2>1. j + 1 \in 1 .. m /\ k + 1 \in 1 .. m /\ j + 1 # k + 1
    BY <1>4
  <2>2. requests[j + 1].step # requests[k + 1].step
    BY <1>2, <2>1 DEF Attempts, AskedOnce
  <2> QED  BY <1>3, <2>2
<1>11. Undecided'
  <2> SUFFICES ASSUME NEW j \in 1 .. m - 1, requests'[j].step \in Substitutes
               PROVE  granted'[Host(requests'[j].step)] = "none"
    BY <1>3 DEF Undecided
  <2>1. PICK s \in Substitutes : s = requests[j + 1].step
    BY <1>3
  <2>2. s # t /\ granted[Host(s)] = "none"
    BY <1>2, <1>4, <1>5, <1>7, <2>1 DEF Attempts, AskedOnce, Undecided
  <2>3. granted'[Host(s)] = "none"
    BY <1>8, <2>2
  <2>4. requests'[j].step = s
    BY <1>3, <2>1
  <2> QED  BY <2>3, <2>4
<1>12. NotAsked'
  <2> SUFFICES ASSUME NEW s \in Substitutes,
                      s > step \/ (s = step /\ pc \in {"connect", "send"})
               PROVE  granted'[Host(s)] = "none"
    BY <1>1 DEF NotAsked
  <2>1. requests[1] \in Requests
    BY <1>1, <1>2, <1>7, ElementOfSeq
  <2>2. t \in Int /\ s \in Int /\ step \in Int
    <3>1. t \in Steps /\ s \in Steps /\ step \in Steps
      BY <1>5, <2>1, SubstituteHosts DEF IInv, TypeOK, Requests
    <3> QED  BY <3>1 DEF Steps, GetInfo, SetServerAttributes
  <2>3. t <= step /\ (pc \in {"connect", "send"} => t < step)
    BY <1>2, <1>5, <1>7 DEF Attempts, NotAhead
  <2>4. s # t
    BY <2>2, <2>3
  <2>5. granted[Host(s)] = "none"
    BY DEF Attempts, NotAsked
  <2> QED  BY <1>8, <2>4, <2>5
<1> QED  BY <1>9, <1>10, <1>11, <1>12 DEF Attempts

LEMMA NextAttempts == IInv /\ Attempts /\ [Next]_vars => Attempts'
<1> SUFFICES ASSUME IInv, Attempts, [Next]_vars
             PROVE  Attempts'
  OBVIOUS
<1> USE DEF fixed, caller, server
<1>1. CASE UNCHANGED vars
  BY <1>1, AttemptsKept DEF vars
<1>2. CASE Connect \/ ConnectRefused \/ SendRejected
  BY <1>2, AttemptsKept DEF Connect, ConnectRefused, SendRejected
<1>3. CASE Send
  BY <1>3, SendAttempts
<1>4. ASSUME NEW n \in 1 .. Len(inbound), Deliver(n)
      PROVE  Attempts'
  <2>1. pc' \in {"connect", "send"} => pc \in {"connect", "send"}
    BY <1>4 DEF Deliver, Wakes
  <2> QED  BY <1>4, <2>1, AttemptsKept DEF Deliver
<1>5. CASE ReadReply
  BY <1>5, AttemptsProceed DEF ReadReply
<1>6. CASE ReadRefusal
  BY <1>6, AttemptsKept DEF ReadRefusal, Fails
<1>7. CASE Misread
  <2>1. CASE Fails
    BY <1>7, <2>1, AttemptsKept DEF Misread, Fails
  <2>2. CASE Proceed(passwordLevel')
    BY <1>7, <2>2, AttemptsProceed DEF Misread
  <2> QED  BY <1>7, <2>1, <2>2 DEF Misread
<1>8. ASSUME NEW v \in Verdicts, NEW n \in 2 .. 4, ServerAnswers(v, n)
      PROVE  Attempts'
  BY <1>8, ServerAnswersAttempts
<1>9. ASSUME NEW h \in Hosts, PeerClose(h)
      PROVE  Attempts'
  BY <1>9, AttemptsCleared DEF PeerClose, IInv, TypeOK
<1> QED
  BY <1>1, <1>2, <1>3, <1>4, <1>5, <1>6, <1>7, <1>8, <1>9 DEF Next

LEMMA InitAttempts == Init => Attempts
<1> SUFFICES ASSUME Init PROVE Attempts
  OBVIOUS
<1>1. \A j \in 1 .. Len(requests) : FALSE
  BY EmptySeq DEF Init
<1>2. NotAsked
  BY SubstituteHosts DEF Init, NotAsked
<1> QED  BY <1>1, <1>2 DEF Attempts, NotAhead, AskedOnce, Undecided

-----------------------------------------------------------------------------
(* The sign-on is implemented *)

LEMMA InitSigns == Init => Signing!Init
BY DEF Init, Hosts, Signing!Init, Signing!Hosts

\* A step that neither settles the login, nor decides anything, nor is cut.
LEMMA NoSigning ==
  ASSUME UNCHANGED <<granted, cut>>,
         pc \notin {"resolved", "rejected"}, pc' \notin {"resolved", "rejected"}
  PROVE  UNCHANGED Signing!vars
BY DEF Signing!vars

LEMMA RejectSigns ==
  ASSUME UNCHANGED <<granted, cut>>,
         pc \notin {"resolved", "rejected"}, pc' = "rejected"
  PROVE  [Signing!Next]_Signing!vars
BY DEF Signing!Next, Signing!Reject

\* What the code between two exchanges does.
LEMMA ProceedSigns ==
  ASSUME ResolvedMeansGranted', Proceed(passwordLevel'), pc = "woken",
         UNCHANGED <<granted, cut>>
  PROVE  [Signing!Next]_Signing!vars
<1>1. CASE pc' = "rejected"
  BY <1>1, RejectSigns
<1>2. CASE pc' \in {"connect", "send"}
  BY <1>2, NoSigning
<1>3. CASE pc' = "resolved"
  <2>1. ~cut => granted = [h \in Hosts |-> "ok"]
    BY <1>3 DEF ResolvedMeansGranted
  <2>2. Signing!Resolve
    BY <1>3, <2>1 DEF Signing!Resolve, Signing!Hosts, Hosts
  <2> QED  BY <2>2 DEF Signing!Next
<1> QED  BY <1>1, <1>2, <1>3 DEF Proceed

LEMMA DeliverSigns ==
  ASSUME IInv, NEW n \in 1 .. Len(inbound), Deliver(n)
  PROVE  [Signing!Next]_Signing!vars
<1>1. /\ pc \notin {"resolved", "rejected"} /\ pc' \notin {"resolved", "rejected"}
      /\ UNCHANGED granted
      /\ cut => cut'
      /\ cut \in BOOLEAN /\ cut' \in BOOLEAN
  BY DEF Deliver, Wakes, server, IInv, TypeOK
<1>2. CASE cut' = cut
  BY <1>1, <1>2, NoSigning
<1>3. CASE ~cut /\ cut'
  <2>1. Signing!Lapse
    BY <1>1, <1>3 DEF Signing!Lapse
  <2> QED  BY <2>1 DEF Signing!Next
<1> QED  BY <1>1, <1>2, <1>3

LEMMA ServerAnswersSigns ==
  ASSUME IInv, Attempts, NEW v \in Verdicts, NEW n \in 2 .. 4,
         ServerAnswers(v, n)
  PROVE  [Signing!Next]_Signing!vars
<1>1. /\ requests \in Seq(Requests) /\ requests # <<>>
      /\ UNCHANGED <<step, pc, cut>>
      /\ step \in Steps
  BY DEF IInv, TypeOK, ServerAnswers, caller
<1>2. 1 \in 1 .. Len(requests) /\ Head(requests) = requests[1]
  BY <1>1, EmptySeq, LenProperties, HeadTailProperties
<1>3. PICK t : t = requests[1].step
  OBVIOUS
<1>4. granted' = IF t \in Substitutes THEN [granted EXCEPT ![Host(t)] = v]
                 ELSE granted
  BY <1>2, <1>3 DEF ServerAnswers
<1>5. CASE t \notin Substitutes
  BY <1>1, <1>4, <1>5 DEF Signing!vars
<1>6. CASE t \in Substitutes
  <2>1. granted[Host(t)] = "none" /\ Host(t) \in Hosts
    BY <1>2, <1>3, <1>6, SubstituteHosts DEF Attempts, Undecided
  <2>2. ASSUME ~cut
        PROVE  /\ pc \notin {"resolved", "rejected"}
               /\ Host(t) = "database" => granted["signon"] = "ok"
    <3>1. Conversation /\ Stages
      BY <2>2 DEF IInv, Uncut
    <3>2. pc = "wait" /\ Asked
      BY <1>1, <3>1 DEF IInv, TypeOK, Conversation, Quiet
    <3>3. t = step
      BY <1>3, <3>2 DEF Asked
    <3>4. Host(t) = "database" => step > SignonInfo
      BY <1>1, <3>3, HostType DEF Steps, GetInfo, SetServerAttributes, SignonInfo
    <3> QED  BY <3>1, <3>2, <3>4 DEF Stages
  <2>3. Signing!Decide(Host(t), v)
    BY <1>1, <1>4, <1>6, <2>1, <2>2 DEF Signing!Decide
  <2> QED  BY <2>1, <2>3 DEF Signing!Next, Signing!Hosts, Hosts, Verdicts
<1> QED  BY <1>5, <1>6

LEMMA StepSigns ==
  IInv /\ Attempts /\ ResolvedMeansGranted' /\ [Next]_vars
    => [Signing!Next]_Signing!vars
<1> SUFFICES ASSUME IInv, Attempts, ResolvedMeansGranted', [Next]_vars
             PROVE  [Signing!Next]_Signing!vars
  OBVIOUS
<1> USE DEF fixed, caller, server
<1>1. CASE UNCHANGED vars
  BY <1>1 DEF vars, Signing!vars
<1>2. CASE Connect \/ ConnectRefused \/ Send
  BY <1>2, NoSigning DEF Connect, ConnectRefused, Send
<1>3. CASE SendRejected \/ ReadRefusal
  BY <1>3, RejectSigns DEF SendRejected, ReadRefusal, Fails
<1>4. ASSUME NEW n \in 1 .. Len(inbound), Deliver(n)
      PROVE  [Signing!Next]_Signing!vars
  BY <1>4, DeliverSigns
<1>5. CASE ReadReply
  BY <1>5, ProceedSigns DEF ReadReply
<1>6. CASE Misread
  <2>1. CASE Fails
    BY <1>6, <2>1, RejectSigns DEF Misread, Fails
  <2>2. CASE Proceed(passwordLevel')
    BY <1>6, <2>2, ProceedSigns DEF Misread
  <2> QED  BY <1>6, <2>1, <2>2 DEF Misread
<1>7. ASSUME NEW v \in Verdicts, NEW n \in 2 .. 4, ServerAnswers(v, n)
      PROVE  [Signing!Next]_Signing!vars
  BY <1>7, ServerAnswersSigns
<1>8. ASSUME NEW h \in Hosts, PeerClose(h)
      PROVE  [Signing!Next]_Signing!vars
  BY <1>8 DEF PeerClose, Signing!vars
<1> QED
  BY <1>1, <1>2, <1>3, <1>4, <1>5, <1>6, <1>7, <1>8 DEF Next

\* A login implements the sign-on, for all levels and accounts: no server is
\* ever asked to decide twice on its substitute, and an uncut login asks the
\* servers in turn and settles as they decide.
THEOREM SignOnImplemented == Spec => ImplementsSignOn
<1>1. IInv /\ Attempts /\ ResolvedMeansGranted' /\ [Next]_vars
    => [Signing!Next]_Signing!vars
  BY StepSigns
<1>2. Init => Signing!Init
  BY InitSigns
<1> QED
  BY <1>1, <1>2, Invariance, InitAttempts, NextAttempts, ResolvedIsGranted, PTL
     DEF Spec, ImplementsSignOn, Signing!Spec

=============================================================================
