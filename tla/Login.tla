------------------------------- MODULE Login -------------------------------
(***************************************************************************)
(* One login, from Connection.getConnection() to the point where it        *)
(* settles: six exchanges over two sockets that are open one after the     *)
(* other.                                                                  *)
(*                                                                         *)
(*   signon server    1. getInfo(false), learns the password level         *)
(*                    2. getInfo(true), learns the seeds                   *)
(*                    3. the signon info request, with the substitute      *)
(*   database server  4. sendExchangeRandomSeedsRequest, new seeds         *)
(*                    5. sendStartServerRequest, with a new substitute     *)
(*                    6. setServerAttributes                               *)
(*                                                                         *)
(* The caller is alone on its sockets, so a request is one step.  A reply  *)
(* is parts: 1 and 2 are the halves of its header, up to the return code,  *)
(* 3 and 4 its payload; a seed may be cut in two, between parts 3 and 4.   *)
(* The network may cut the stream between any two parts, and wait() wakes  *)
(* the caller with the first chunk.                                        *)
(*                                                                         *)
(* A faulty form that nothing uses stands before some operators (see the   *)
(* "mutants" of PROJECT.json).                                             *)
(***************************************************************************)
EXTENDS Integers, Sequences

CONSTANTS
  PasswordLevels,  \* password levels a server may report, Absent if it may not
  Accounts         \* lengths of user name and password, is the latter a number

Absent == -1

ASSUME PasswordLevelsAssumption == PasswordLevels \subseteq Absent .. 4
ASSUME AccountsAssumption ==
  Accounts \subseteq [user : Nat, password : Nat, numeric : BOOLEAN]

VARIABLES
  account,        \* what the caller passes (fixed)
  level,          \* what the signon server reports (fixed)
  step,           \* the exchange under way
  pc,             \* "connect", "send", "wait", "woken" or settled
  passwordLevel,  \* systemInfo.passwordLevel
  serverSeed,     \* the seed the caller holds, NoSeed if it is not the server's
  socket,         \* socket[h]: "none", "open", "closed", "gone"
  internalBuffer, \* reply parts received and not read
  inbound,        \* reply parts that no 'data' event has taken
  requests,       \* requests the server has not answered, oldest first
  seed,           \* seed[h]: the number of the last seed that h gave out
  granted,        \* granted[h]: what h said to the substitute
  refused,        \* a server has refused something (history)
  cut             \* a chunk has ended inside a reply (history)

caller == <<step, pc, passwordLevel, serverSeed>>
server == <<requests, seed, granted, refused>>
fixed == <<account, level>>
vars == <<fixed, caller, socket, internalBuffer, inbound, server, cut>>

-----------------------------------------------------------------------------
(* Data *)

GetInfo == 1
GetSeeds == 2
SignonInfo == 3
RandomSeeds == 4
StartServer == 5
SetServerAttributes == 6
Steps == GetInfo .. SetServerAttributes

Hosts == {"signon", "database"}
Host(s) == IF s <= SignonInfo THEN "signon" ELSE "database"

NoSeed == 0
Requests == [step : Steps, seed : Nat]

\* Exchanges that carry a password substitute, and those that bring a seed.
Substitutes == {SignonInfo, StartServer}
KeepsFirstSeed(s) == s \in {GetInfo, RandomSeeds}
BringsSeed(s) == s \in {GetSeeds, RandomSeeds}

\* The server gives out a seed in exchange 1 too, which the caller skips.
GivesSeed(s) == s \in {GetInfo, GetSeeds, RandomSeeds}

Verdicts == {"ok", "error"}
Parts == [step : Steps, verdict : Verdicts, part : 1 .. 4, size : 2 .. 4,
          seed : Nat]
Reply(s, v, n, x) ==
  [i \in 1 .. n |->
     [step |-> s, verdict |-> v, part |-> i, size |-> n, seed |-> x]]

\* Sizes of the replies of the server to exchange s.
Sizes(s, v) == IF v = "error" THEN {2}
               ELSE IF GivesSeed(s) THEN {4} ELSE {2, 3}

Drop(s, n) == SubSeq(s, n + 1, Len(s))

-----------------------------------------------------------------------------
Init ==
  /\ account \in Accounts
  /\ level \in PasswordLevels
  /\ step = GetInfo
  /\ pc = "connect"
  /\ passwordLevel = Absent
  /\ serverSeed = NoSeed
  /\ socket = [h \in Hosts |-> "none"]
  /\ internalBuffer = <<>> /\ inbound = <<>>
  /\ requests = <<>>
  /\ seed = [h \in Hosts |-> 0]
  /\ granted = [h \in Hosts |-> "none"]
  /\ refused = FALSE
  /\ cut = FALSE

-----------------------------------------------------------------------------
(* The caller *)

\* connectSocket() resolves.
Connect ==
  /\ pc = "connect" /\ socket[Host(step)] = "none"
  /\ socket' = [socket EXCEPT ![Host(step)] = "open"]
  /\ pc' = "send"
  /\ UNCHANGED <<fixed, step, passwordLevel, serverSeed, internalBuffer,
                 inbound, server, cut>>

\* The host refuses.  connectSocket() never rejects, and no one listens for
\* the 'error' event: the login never settles.
ConnectRefused ==
  /\ pc = "connect" /\ socket[Host(step)] = "none"
  /\ socket' = [socket EXCEPT ![Host(step)] = "gone"]
  /\ UNCHANGED <<fixed, caller, internalBuffer, inbound, server, cut>>

\* flush(), the writes of the request, then wait() registers its listener.
Send ==
  /\ pc = "send" /\ socket[Host(step)] = "open"
  /\ internalBuffer' = <<>>
  /\ requests' = Append(requests,
       [step |-> step,
        seed |-> IF step \in Substitutes THEN serverSeed ELSE NoSeed])
  /\ pc' = "wait"
  /\ UNCHANGED <<fixed, step, passwordLevel, serverSeed, socket, inbound,
                 seed, granted, refused, cut>>

\* The socket is not writable any more: "Not connected.", or the write rejects.
SendRejected ==
  /\ pc = "send" /\ socket[Host(step)] # "open"
  /\ pc' = "rejected"
  /\ UNCHANGED <<fixed, step, passwordLevel, serverSeed, socket,
                 internalBuffer, inbound, server, cut>>

\* A chunk arrives; it is lost unless the caller waits.
NeverWakes(p) == p
Wakes(p) == IF p = "wait" THEN "woken" ELSE p

Deliver(n) ==
  /\ pc \in {"send", "wait"}
  /\ inbound' = Drop(inbound, n)
  /\ internalBuffer' = IF pc = "wait"
                       THEN internalBuffer \o SubSeq(inbound, 1, n)
                       ELSE internalBuffer
  /\ pc' = Wakes(pc)
  /\ cut' = (cut \/ inbound[n].part < inbound[n].size)
  /\ UNCHANGED <<fixed, step, passwordLevel, serverSeed, socket, server>>

HasHeader(b) ==
  /\ Len(b) >= 2
  /\ b[1].part = 1 /\ b[2].part = 2
  /\ b[1].step = b[2].step /\ b[1].verdict = b[2].verdict

\* The payload parts at hand of the reply at the start of the buffer.
PayloadRead(b) ==
  {i \in 3 .. Len(b) : b[i].part = i /\ b[i].step = b[1].step}
Whole(b) == PayloadRead(b) = 3 .. b[1].size

\* A return code that is not zero makes every reader of a reply throw (the
\* one of StartServer calls a function that is not defined).
RefusesExceptStart(h) == h.verdict = "error" /\ h.step # StartServer
Refuses(h) == h.verdict = "error"

\* What getUserBytes() and getPasswordBytes() accept: names of ten characters
\* at most, after a Q before a number.  From level 2 on they ask for an
\* encoding that does not exist, and throw.
NameFitsBelow(n) == n < 10
NameFits(n) == n <= 10
CredentialsEncode(l) ==
  /\ l < 2
  /\ NameFits(account.user)
  /\ NameFits(account.password + (IF account.numeric THEN 1 ELSE 0))

\* The sockets once exchange s is done: the signon connection is closed.
SocketsKept(s) == socket
SocketsAfter(s) ==
  IF s = SignonInfo THEN [socket EXCEPT !["signon"] = "closed"] ELSE socket

\* getConnection() returns after the last exchange.
NoLastExchange(s) == FALSE
LastExchange(s) == s = SetServerAttributes

\* The exchanges of a server follow one another.
SameExchange(s) == s
NextExchange(s) == s + 1

\* The code between the reply to an exchange and the next request.
Proceed(l) ==
  \/ /\ BringsSeed(step) /\ ~CredentialsEncode(l)
     /\ pc' = "rejected"
     /\ UNCHANGED <<step, socket, inbound, requests>>
  \/ /\ step = SignonInfo
     /\ pc' = "connect" /\ step' = RandomSeeds
     /\ socket' = SocketsAfter(step)
     /\ inbound' = <<>> /\ requests' = <<>>
  \/ /\ LastExchange(step)
     /\ pc' = "resolved"
     /\ UNCHANGED <<step, socket, inbound, requests>>
  \/ /\ step # SignonInfo /\ ~LastExchange(step)
     /\ BringsSeed(step) => CredentialsEncode(l)
     /\ pc' = "send" /\ step' = NextExchange(step)
     /\ UNCHANGED <<socket, inbound, requests>>

Fails ==
  /\ pc' = "rejected"
  /\ UNCHANGED <<step, passwordLevel, serverSeed, socket, inbound, requests>>

\* The reply is whole: its payload is read into the system information.
ReadReply ==
  /\ pc = "woken" /\ HasHeader(internalBuffer) /\ Whole(internalBuffer)
  /\ internalBuffer[1].step = step
  /\ ~Refuses(internalBuffer[1])
  /\ passwordLevel' = IF step = GetInfo THEN level ELSE passwordLevel
  /\ serverSeed' = IF BringsSeed(step) THEN internalBuffer[1].seed
                   ELSE serverSeed
  /\ Proceed(passwordLevel')
  /\ UNCHANGED <<fixed, internalBuffer, seed, granted, refused, cut>>

ReadRefusal ==
  /\ pc = "woken" /\ HasHeader(internalBuffer)
  /\ Refuses(internalBuffer[1])
  /\ Fails
  /\ UNCHANGED <<fixed, internalBuffer, seed, granted, refused, cut>>

\* The reply stops short, or the buffer starts in the middle of one, or with
\* the reply of another exchange.  readInt() and readShort() throw on a short
\* buffer, but readFully() leaves zeros: the reader of RandomSeeds never
\* notices, the others may not.  Other bytes may pass as a reply.
MayPass(b) ==
  IF HasHeader(b)
  THEN \/ b[1].step # step
       \/ step \in {GetInfo, GetSeeds} /\ PayloadRead(b) # {}
       \/ step \in {RandomSeeds, StartServer, SetServerAttributes}
  ELSE Len(b) >= 2 \/ b[1].part > 2

Misread ==
  /\ pc = "woken"
  /\ ~(HasHeader(internalBuffer) /\ Refuses(internalBuffer[1]))
  /\ ~(/\ HasHeader(internalBuffer) /\ Whole(internalBuffer)
       /\ internalBuffer[1].step = step)
  /\ \/ /\ ~(HasHeader(internalBuffer) /\ step = RandomSeeds)
        /\ Fails
     \/ /\ MayPass(internalBuffer)
        /\ passwordLevel' = IF step = GetInfo THEN level ELSE passwordLevel
        /\ serverSeed' \in (IF BringsSeed(step)
                            THEN {NoSeed, internalBuffer[1].seed}
                            ELSE {serverSeed})
        /\ Proceed(passwordLevel')
  /\ UNCHANGED <<fixed, internalBuffer, seed, granted, refused, cut>>

-----------------------------------------------------------------------------
(* The host servers (not part of the repository) and the network *)

\* A server gives out a new seed with each exchange that brings one, and takes
\* a substitute only if it was made with the last seed it gave out.
ServerAnswers(v, n) ==
  LET r == Head(requests)
      s == r.step
      h == Host(s)
  IN /\ requests # <<>> /\ socket[h] = "open"
     /\ n \in Sizes(s, v)
     /\ v = "ok" /\ s \in Substitutes => r.seed = seed[h]
     /\ seed' = IF GivesSeed(s) THEN [seed EXCEPT ![h] = @ + 1] ELSE seed
     /\ granted' = IF s \in Substitutes THEN [granted EXCEPT ![h] = v]
                   ELSE granted
     /\ refused' = (refused \/ v = "error")
     /\ inbound' = inbound \o Reply(s, v, n, seed'[h])
     /\ requests' = Tail(requests)
     /\ UNCHANGED <<fixed, caller, socket, internalBuffer, cut>>

PeerClose(h) ==
  /\ socket[h] = "open"
  /\ socket' = [socket EXCEPT ![h] = "gone"]
  /\ requests' = <<>>
  /\ UNCHANGED <<fixed, caller, internalBuffer, inbound, seed, granted,
                 refused, cut>>

-----------------------------------------------------------------------------
Next ==
  \/ Connect
  \/ ConnectRefused
  \/ Send
  \/ SendRejected
  \/ \E n \in 1 .. Len(inbound) : Deliver(n)
  \/ ReadReply
  \/ ReadRefusal
  \/ Misread
  \/ \E v \in Verdicts, n \in 2 .. 4 : ServerAnswers(v, n)
  \/ \E h \in Hosts : PeerClose(h)

Spec == Init /\ [][Next]_vars

\* The event loop runs callbacks and microtasks, the network delivers, the
\* servers answer.
Fairness ==
  /\ WF_vars(Connect \/ ConnectRefused)
  /\ WF_vars(Send \/ SendRejected)
  /\ WF_vars(\E n \in 1 .. Len(inbound) : Deliver(n))
  /\ WF_vars(ReadReply \/ ReadRefusal \/ Misread)
  /\ WF_vars(\E v \in Verdicts, n \in 2 .. 4 : ServerAnswers(v, n))

FairSpec == Spec /\ Fairness

-----------------------------------------------------------------------------
(* Properties *)

\* Every variable keeps its type.
TypeOK ==
  /\ account \in Accounts /\ level \in PasswordLevels
  /\ step \in Steps
  /\ pc \in {"connect", "send", "wait", "woken", "resolved", "rejected"}
  /\ passwordLevel \in PasswordLevels \cup {Absent}
  /\ serverSeed \in Nat
  /\ socket \in [Hosts -> {"none", "open", "closed", "gone"}]
  /\ internalBuffer \in Seq(Parts)
  /\ inbound \in Seq(Parts)
  /\ requests \in Seq(Requests)
  /\ seed \in [Hosts -> Nat]
  /\ granted \in [Hosts -> Verdicts \cup {"none"}]
  /\ refused \in BOOLEAN
  /\ cut \in BOOLEAN

\* As long as no reply has been cut, the substitute that authenticate() and
\* initialConnect() send was made with the seed that the server holds: the one
\* of the second exchange on the signon socket, a new one on the database
\* socket, and never one the server has replaced since.
SubstituteFresh ==
  ~cut => \A i \in 1 .. Len(requests) :
            LET r == requests[i]
            IN r.step \in Substitutes => r.seed = seed[Host(r.step)]

\* A login that resolves was accepted by both servers, in their turn, and
\* leaves no signon connection behind, unless a reply was cut.
ResolvedMeansGranted ==
  ~cut =>
    /\ pc = "resolved" =>
         /\ granted = [h \in Hosts |-> "ok"] /\ ~refused
         /\ socket["database"] # "closed"
    /\ socket["database"] # "none" =>
         granted["signon"] = "ok" /\ socket["signon"] = "closed"

\* What a login may fail for that is not the client's doing.
ForeignCause == refused \/ cut \/ \E h \in Hosts : socket[h] = "gone"

Fits == /\ account.user <= 10
        /\ account.password <= (IF account.numeric THEN 9 ELSE 10)

\* A login rejects only for a cause: a refusal, a lost connection, a reply that
\* was cut, a name that is too long, or a password level it does not support.
RejectedHasCause ==
  pc = "rejected" => ForeignCause \/ ~Fits \/ level >= 2

\* Whatever happens to the login, no socket is open but the one of the
\* exchange under way.  This one the client does not close when the login
\* settles, resolved or rejected: it stays open unless the host goes away.
OneSocket ==
  /\ \A h \in Hosts : socket[h] = "open" => h = Host(step)
  /\ pc \in {"resolved", "rejected"} => socket[Host(step)] \in {"open", "gone"}

\* A login takes 196 steps at most, whatever the servers and the network do: no
\* tail of a cut reply sends it back.  Each step lowers what is left, exchanges
\* and their stages, requests under way, which become parts of a reply, these
\* parts, and the ends of the connections.
StagesLeft(p) ==
  CASE p = "connect" -> 4
    [] p = "send" -> 3
    [] p = "wait" -> 2
    [] p = "woken" -> 1
    [] OTHER -> 0
ExchangesLeft(s, p) ==
  IF StagesLeft(p) = 0 THEN 0
  ELSE 32 * (SetServerAttributes - s) + 8 * StagesLeft(p)
SocketLeft(state) ==
  CASE state = "none" -> 2
    [] state = "open" -> 1
    [] OTHER -> 0
Remaining ==
  ExchangesLeft(step, pc) + 5 * Len(requests) + Len(inbound)
    + SocketLeft(socket["signon"]) + SocketLeft(socket["database"])
StepsRunOut == [][Remaining' < Remaining]_vars

\* A login that waits on a live connection has a request in front of the
\* server of this connection or bytes in front of it, even when the tail of a
\* cut reply has woken it too early or has been thrown away.
NeverLeftWaiting ==
  pc = "wait" /\ socket[Host(step)] = "open" =>
    \/ requests # <<>> /\ Host(Head(requests).step) = Host(step)
    \/ inbound # <<>>

\* A login settles in the end unless a connection goes away: the tails of cut
\* replies may spoil it, but never leave it waiting.
LoginSettles ==
  <>(pc \in {"resolved", "rejected"} \/ \E h \in Hosts : socket[h] = "gone")

\* The login implements the abstract sign-on: it is reliable until a reply is
\* cut.
Signing == INSTANCE SignOn
             WITH outcome <- IF pc \in {"resolved", "rejected"} THEN pc
                             ELSE "pending",
                  reliable <- ~cut

\* Every step of a login is a step of the sign-on, or no step of it: each
\* server decides at most once on a substitute, even when cut replies are
\* misread, and an uncut login asks them in turn and settles as they decide.
ImplementsSignOn == Signing!Spec

-----------------------------------------------------------------------------
(* A statement of the source that the code does not meet *)

\* EncryptPassword.js:7: the class encrypts a password based on the password
\* level.  A login whose name and password fit is not rejected by the client
\* at any level.
EveryLevelServed == pc = "rejected" => ForeignCause \/ ~Fits

=============================================================================
