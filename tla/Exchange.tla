------------------------------ MODULE Exchange ------------------------------
(***************************************************************************)
(* Request/reply exchanges of a DatabaseConnection over its                *)
(* HostServerConnection: DatabaseConnection.setServerAttributes,           *)
(* createRequestParameterBlock and prepareAndDescribe, called by any       *)
(* number of asynchronous callers of one connection, the socket helpers    *)
(* they use, and the database host server at the other end.                *)
(*                                                                         *)
(* One call is one invocation of one of the three methods.  The single     *)
(* thread of Node.js runs one step at a time; a step ends at an await of   *)
(* something that is not settled.  The steps are                           *)
(*                                                                         *)
(*   - a method entry up to its first write (flush, then the writes);      *)
(*   - one awaited write (the next step is its callback);                  *)
(*   - a 'data' event, which runs every listener wait() has registered;    *)
(*   - the microtasks this event queued, first in first out: the reading   *)
(*     of the reply header by each woken call, then, one promise later,    *)
(*     what each of them does with the rest of the reply.                  *)
(*                                                                         *)
(* Microtasks drain before the next event, so every other step requires    *)
(* jobs = <<>>.  The callback of a call's last write registers its         *)
(* listener before the event loop polls the socket again, so the last      *)
(* write and the registration are one step.                                *)
(*                                                                         *)
(* Data.  A request is three units in the order they are written: its      *)
(* header, with the correlation ID, its template and its parameters.  The  *)
(* writes within each of them (six, seven and one) are not told apart: two *)
(* calls that write at once already spoil the stream at this grain.  A     *)
(* reply is the two halves of its forty byte header and, when it has one,  *)
(* its payload: the byte stream may be cut at any boundary between the two *)
(* halves, the payload and the next reply.                                 *)
(*                                                                         *)
(* Next to some operators stands a faulty form of the same operator, which *)
(* nothing uses: put in its place, it violates the properties that         *)
(* PROJECT.json names under "mutants".                                     *)
(***************************************************************************)
EXTENDS Integers, Sequences, FiniteSets

CONSTANTS
  Calls,       \* invocations of the three methods on this connection
  Methods,     \* methods that callers use, of Ops below
  Handles,     \* request parameter block IDs that callers pass
  MaxActive,   \* bound: calls under way at once (the code has none)
  MaxID,       \* largest correlation ID, 0x7FFFFFFF in the code
  NoRPB        \* the initial currentRPB, -1 in the code

ASSUME MaxIDAssumption == MaxID \in Nat \ {0}
ASSUME HandlesAssumption == NoRPB \notin Handles

VARIABLES
  op,             \* op[c]: the method call c runs
  rpb,            \* rpb[c]: the rpbID it was passed
  pc,             \* pc[c]: where it is
  field,          \* field[c]: the next field of its request to write
  correlationID,  \* the connection's counter
  currentRPB,     \* the connection's current request parameter block
  internalBuffer, \* bytes received and not yet read
  listeners,      \* calls whose wait() has a 'data' listener, oldest first
  jobs,           \* microtasks: woken calls to resume, oldest first
  heard,          \* heard[c]: the reply c took for its own
  socket,         \* "open", "local" after close(), "peer" once the peer is gone
  outbound,       \* fields written and not yet read by the server
  inbound,        \* bytes the server sent that no 'data' event has taken
  created,        \* request parameter blocks the server holds
  verdict,        \* verdict[c]: how the server answered the request of c
  clean,          \* clean[c]: c had a quiet connection to itself (history)
  garbled,        \* the request stream may no longer be well framed (history)
  issued          \* correlation IDs issued, oldest first (history)

caller == <<op, rpb, pc, field, heard>>
connection == <<correlationID, currentRPB, issued>>
stream == <<internalBuffer, listeners, jobs>>
server == <<created, verdict>>
history == <<clean, garbled>>
vars == <<caller, connection, stream, socket, outbound, inbound, server, history>>

-----------------------------------------------------------------------------
(* Data *)

Ops == {"attributes", "create", "prepare"}
Settled == {"done", "failed"}
PCs == {"idle", "write", "wait", "woken", "read"} \cup Settled

\* The units of a request.
Header == 1
Template == 2
Parameters == 3
Fields == Header .. Parameters

RequestField == [call : Calls, field : Fields]
Request(c) == [i \in Fields |-> [call |-> c, field |-> i]]

Verdicts == {"ok", "error"}

\* Part 1 and 2 are the halves of the header, part 3 is the payload.
ReplyPart == [call : Calls, verdict : Verdicts, part : 1 .. 3, size : 2 .. 3]
Reply(c, v, n) ==
  [i \in 1 .. n |-> [call |-> c, verdict |-> v, part |-> i, size |-> n]]

NoReply == [call |-> "none"]
Garbage == [call |-> "garbage"]
Heard == ReplyPart \cup {NoReply, Garbage}

Drop(s, n) == SubSeq(s, n + 1, Len(s))

\* Each of n listeners appends its own copy of the chunk to the buffer.
Copies(chunk, n) ==
  [i \in 1 .. (n * Len(chunk)) |-> chunk[((i - 1) % Len(chunk)) + 1]]

Active(c) == pc[c] \notin {"idle"} \cup Settled

-----------------------------------------------------------------------------
(* Callers *)

Init ==
  /\ op = [c \in Calls |-> "attributes"]
  /\ rpb = [c \in Calls |-> NoRPB]
  /\ pc = [c \in Calls |-> "idle"]
  /\ field = [c \in Calls |-> Header]
  /\ heard = [c \in Calls |-> NoReply]
  /\ correlationID = 1
  /\ currentRPB = NoRPB
  /\ issued = <<>>
  /\ internalBuffer = <<>> /\ listeners = <<>> /\ jobs = <<>>
  /\ socket = "open"
  /\ outbound = <<>> /\ inbound = <<>>
  /\ created = {}
  /\ verdict = [c \in Calls |-> "none"]
  /\ clean = [c \in Calls |-> FALSE]
  /\ garbled = FALSE

\* flush() throws away what was received.
FlushKeepsBuffer(buffer) == buffer
Flush(buffer) == <<>>

\* newCorrelationID(): the counter wraps before it is incremented.
NewCorrelationIDUnwrapped(id) == id + 1
NewCorrelationIDStuck(id) == IF id = MaxID THEN MaxID ELSE id + 1
NewCorrelationID(id) == (IF id = MaxID THEN 0 ELSE id) + 1

\* A method entry: the buffer is flushed.  History: the call is clean while no
\* other call is under way and nothing is in flight; any call that was under
\* way is not alone any more.
Enter(c, o, h, state) ==
  /\ jobs = <<>>
  /\ pc[c] = "idle" /\ o \in Methods
  /\ Cardinality({d \in Calls : Active(d)}) < MaxActive
  /\ op' = [op EXCEPT ![c] = o]
  /\ rpb' = [rpb EXCEPT ![c] = h]
  /\ pc' = [pc EXCEPT ![c] = state]
  /\ internalBuffer' = Flush(internalBuffer)
  /\ clean' = [d \in Calls |->
                 IF d = c THEN /\ inbound = <<>> /\ outbound = <<>>
                               /\ \A e \in Calls : ~Active(e)
                          ELSE clean[d] /\ ~Active(d)]
  /\ UNCHANGED <<field, heard, connection, listeners, jobs, socket, outbound,
                 inbound, server>>

\* The request is encoded and about to be sent.  History: two calls that write
\* at once may interleave their fields.
Begin(c, o, h) ==
  /\ Enter(c, o, h, "write")
  /\ garbled' = (garbled \/ \E d \in Calls : pc[d] = "write")

\* The encoder throws, and the call rejects before it has written anything.
EncoderThrows(c, o, h) == Enter(c, o, h, "failed") /\ UNCHANGED garbled

Start(c, o, h) == Begin(c, o, h) \/ EncoderThrows(c, o, h)
SetServerAttributes(c) == Start(c, "attributes", NoRPB)
CreateRequestParameterBlock(c, h) == Start(c, "create", h)
PrepareAndDescribe(c) == Start(c, "prepare", NoRPB)

\* After the header, sendPrepareAndDescribeRequest evaluates a name that is
\* not defined: it throws, and the header stays on the wire.
AbandonsAnyRequest(c) == field[c] = Template
Abandons(c) == op[c] = "prepare" /\ field[c] = Template

\* The units of a request are written in the order of the format.
NextFieldSkipsTemplate(f) == IF f = Header THEN Parameters ELSE f + 1
NextFieldAgain(f) == f
NextField(f) == f + 1

\* One awaited write.  The correlation ID is drawn as the header is written.
\* After the last field the call registers its 'data' listener.
WriteField(c) ==
  /\ jobs = <<>>
  /\ pc[c] = "write" /\ socket = "open" /\ ~Abandons(c)
  /\ outbound' = Append(outbound, [call |-> c, field |-> field[c]])
  /\ IF field[c] = Header
       THEN /\ correlationID' = NewCorrelationID(correlationID)
            /\ issued' = Append(issued, correlationID')
       ELSE UNCHANGED <<correlationID, issued>>
  /\ IF field[c] = Parameters
       THEN /\ pc' = [pc EXCEPT ![c] = "wait"]
            /\ listeners' = Append(listeners, c)
            /\ UNCHANGED field
       ELSE /\ field' = [field EXCEPT ![c] = NextField(@)]
            /\ UNCHANGED <<pc, listeners>>
  /\ UNCHANGED <<op, rpb, heard, currentRPB, internalBuffer, jobs, socket,
                 inbound, server, history>>

\* A write to a socket that is gone rejects, and so does the call.
WriteRejected(c) ==
  /\ jobs = <<>>
  /\ pc[c] = "write" /\ socket # "open" /\ ~Abandons(c)
  /\ pc' = [pc EXCEPT ![c] = "failed"]
  /\ UNCHANGED <<op, rpb, field, heard, connection, stream, socket, outbound,
                 inbound, server, history>>

PrepareThrows(c) ==
  /\ jobs = <<>>
  /\ pc[c] = "write" /\ Abandons(c)
  /\ pc' = [pc EXCEPT ![c] = "failed"]
  /\ garbled' = TRUE
  /\ UNCHANGED <<op, rpb, field, heard, connection, stream, socket, outbound,
                 inbound, server, clean>>

-----------------------------------------------------------------------------
(* The socket's 'data' event and the microtasks it queues *)

\* History: a chunk that ends inside a reply ends the cleanness of whoever
\* hears it.
CutsReply(n) == inbound[n].part < inbound[n].size

\* The kernel hands over a chunk.  wait() uses once('data'): every listener is
\* removed, appends the chunk to the buffer and resolves its call's promise.
\* The socket keeps flowing without listeners, so a chunk nobody waits for is
\* lost.
Deliver(n) ==
  LET chunk == SubSeq(inbound, 1, n)
  IN /\ jobs = <<>>
     /\ socket # "local"
     /\ internalBuffer' =
          IF listeners = <<>> THEN internalBuffer
          ELSE internalBuffer \o Copies(chunk, Len(listeners))
     /\ inbound' = Drop(inbound, n)
     /\ jobs' = listeners
     /\ listeners' = <<>>
     /\ pc' = [c \in Calls |->
                 IF pc[c] = "wait" THEN "woken" ELSE pc[c]]
     /\ clean' = [c \in Calls |->
                    clean[c] /\ ~(pc[c] = "wait" /\ CutsReply(n))]
     /\ UNCHANGED <<op, rpb, field, heard, connection, socket, outbound,
                    server, garbled>>

HasHeader(b) ==
  /\ Len(b) >= 2
  /\ b[1].part = 1 /\ b[2].part = 2
  /\ \A f \in {"call", "verdict", "size"} : b[2][f] = b[1][f]

\* readReplyHeader() rejects bad lengths, other ReqRep IDs and short buffers
\* (RangeError); other bytes that happen to pass those tests are accepted.
MayPassAsHeader(b) ==
  \/ Len(b) >= 2
  \/ Len(b) = 1 /\ b[1].part = 3

ResumeBeforeOthers(c, state) ==
  /\ pc' = [pc EXCEPT ![c] = state]
  /\ jobs' = IF state = "read" THEN jobs ELSE Tail(jobs)
ResumeOnce(c, state) ==
  /\ pc' = [pc EXCEPT ![c] = state]
  /\ jobs' = Tail(jobs)
Resume(c, state) ==
  /\ pc' = [pc EXCEPT ![c] = state]
  /\ jobs' = IF state = "read" THEN Append(Tail(jobs), c) ELSE Tail(jobs)

\* A negative return code, with a class that is not zero.
NeverRejects(h) == FALSE
Rejects(h) == h.verdict = "error"

\* The next woken call finds a reply header at the start of the buffer: a
\* negative return code makes it read the messages in the payload and throw.
\* Neither the correlation ID nor anything else ties the reply to the request.
ReadReplyHeader ==
  /\ jobs # <<>> /\ pc[Head(jobs)] = "woken" /\ HasHeader(internalBuffer)
  /\ LET c == Head(jobs)
         h == Head(internalBuffer)
     IN /\ heard' = [heard EXCEPT ![c] = h]
        /\ IF Rejects(h)
             THEN /\ Resume(c, "failed")
                  /\ internalBuffer' = Drop(internalBuffer, h.size)
             ELSE /\ Resume(c, "read")
                  /\ internalBuffer' = Drop(internalBuffer, 2)
  /\ UNCHANGED <<op, rpb, field, connection, listeners, socket, outbound,
                 inbound, server, history>>

\* It finds bytes that are no reply header.  How many of them the readers
\* take before they throw, or before the test passes, depends on the bytes.
MisreadReplyHeader ==
  /\ jobs # <<>> /\ pc[Head(jobs)] = "woken" /\ ~HasHeader(internalBuffer)
  /\ LET c == Head(jobs)
     IN /\ \/ Resume(c, "failed")
           \/ MayPassAsHeader(internalBuffer) /\ Resume(c, "read")
        /\ heard' = [heard EXCEPT ![c] = Garbage]
  /\ \E n \in 0 .. Len(internalBuffer) :
       internalBuffer' = Drop(internalBuffer, n)
  /\ UNCHANGED <<op, rpb, field, connection, listeners, socket, outbound,
                 inbound, server, history>>

\* readFullReply(): the rest of the reply is skipped; slice() takes what is
\* there when the buffer is shorter.  Then the RPB becomes the current one.
FinishCreate ==
  /\ jobs # <<>>
  /\ LET c == Head(jobs)
     IN /\ pc[c] = "read" /\ op[c] = "create"
        /\ Resume(c, "done")
        /\ currentRPB' = rpb[c]
        /\ IF heard[c] = Garbage
             THEN \E n \in 0 .. Len(internalBuffer) :
                    internalBuffer' = Drop(internalBuffer, n)
             ELSE internalBuffer' = Drop(internalBuffer, heard[c].size - 2)
  /\ UNCHANGED <<op, rpb, field, heard, correlationID, issued, listeners,
                 socket, outbound, inbound, server, history>>

\* setServerAttributes() reads the attributes out of the payload, when the
\* reply has one, and throws on a wrong code point, a short parameter or a
\* short buffer.  What it does with another payload than that of the reply it
\* has heard, or of a reply to another method, depends on the bytes.
FinishAttributes ==
  /\ jobs # <<>>
  /\ LET c == Head(jobs)
         expected == heard[c] # Garbage /\ heard[c].size = 2
         complete == /\ heard[c] # Garbage /\ heard[c].size = 3
                     /\ op[heard[c].call] = "attributes"
                     /\ internalBuffer # <<>>
                     /\ Head(internalBuffer) = [heard[c] EXCEPT !.part = 3]
     IN /\ pc[c] = "read" /\ op[c] = "attributes"
        /\ \/ expected /\ Resume(c, "done") /\ UNCHANGED internalBuffer
           \/ complete /\ Resume(c, "done")
                       /\ internalBuffer' = Tail(internalBuffer)
           \/ /\ ~expected /\ ~complete
              /\ \/ Resume(c, "failed")
                 \/ /\ heard[c] = Garbage \/ internalBuffer # <<>>
                    /\ Resume(c, "done")
              /\ \E n \in 0 .. Len(internalBuffer) :
                   internalBuffer' = Drop(internalBuffer, n)
  /\ UNCHANGED <<op, rpb, field, heard, connection, listeners, socket,
                 outbound, inbound, server, history>>

-----------------------------------------------------------------------------
(* The ends of the connection *)

\* DatabaseConnection.close(): the socket is destroyed, no listener fires any
\* more and nothing tells the calls that wait.
Close ==
  /\ jobs = <<>>
  /\ socket = "open"
  /\ socket' = "local"
  /\ inbound' = <<>>
  /\ UNCHANGED <<caller, connection, stream, outbound, server, history>>

\* The server's job ends.  What it has sent may still arrive.
PeerClose ==
  /\ jobs = <<>>
  /\ socket = "open"
  /\ socket' = "peer"
  /\ outbound' = <<>>
  /\ UNCHANGED <<caller, connection, stream, inbound, server, history>>

-----------------------------------------------------------------------------
(* The database host server (not part of the repository) *)

\* The next three fields are the fields of one request, in their order.
WellFramed == \E c \in Calls : SubSeq(outbound, 1, Parameters) = Request(c)

\* It executes a well framed request, which creates the request parameter
\* block when that was asked for, and answers it with or without a payload.
ServerAnswers(v, n) ==
  /\ jobs = <<>>
  /\ Len(outbound) >= Parameters /\ WellFramed
  /\ LET c == outbound[1].call
     IN /\ verdict' = [verdict EXCEPT ![c] = v]
        /\ created' = IF op[c] = "create" /\ v = "ok"
                      THEN created \cup {rpb[c]} ELSE created
        /\ inbound' = IF socket = "open" THEN inbound \o Reply(c, v, n)
                      ELSE inbound
  /\ outbound' = Drop(outbound, Parameters)
  /\ UNCHANGED <<caller, connection, stream, socket, history>>

\* It answers the fields of several requests with an error, or gives up.
ServerRefuses ==
  /\ jobs = <<>>
  /\ Len(outbound) >= Parameters /\ ~WellFramed
  /\ \/ /\ socket' = IF socket = "open" THEN "peer" ELSE socket
        /\ outbound' = <<>>
        /\ UNCHANGED inbound
     \/ /\ inbound' = IF socket = "open"
                      THEN inbound \o Reply(outbound[1].call, "error", 2)
                      ELSE inbound
        /\ outbound' = Drop(outbound, Parameters)
        /\ UNCHANGED socket
  /\ UNCHANGED <<caller, connection, stream, server, history>>

-----------------------------------------------------------------------------
Next ==
  \/ \E c \in Calls : SetServerAttributes(c)
  \/ \E c \in Calls, h \in Handles : CreateRequestParameterBlock(c, h)
  \/ \E c \in Calls : PrepareAndDescribe(c)
  \/ \E c \in Calls : WriteField(c)
  \/ \E c \in Calls : WriteRejected(c)
  \/ \E c \in Calls : PrepareThrows(c)
  \/ \E n \in 1 .. Len(inbound) : Deliver(n)
  \/ ReadReplyHeader
  \/ MisreadReplyHeader
  \/ FinishCreate
  \/ FinishAttributes
  \/ Close
  \/ PeerClose
  \/ \E v \in Verdicts, n \in 2 .. 3 : ServerAnswers(v, n)
  \/ ServerRefuses

Spec == Init /\ [][Next]_vars

\* The event loop runs callbacks and microtasks, the network delivers, and the
\* server answers a complete frame.  Nobody has to call or to close.
Fairness ==
  /\ \A c \in Calls : WF_vars(WriteField(c))
  /\ \A c \in Calls : WF_vars(WriteRejected(c))
  /\ \A c \in Calls : WF_vars(PrepareThrows(c))
  /\ WF_vars(ReadReplyHeader \/ MisreadReplyHeader)
  /\ WF_vars(FinishCreate \/ FinishAttributes)
  /\ WF_vars(\E n \in 1 .. Len(inbound) : Deliver(n))
  /\ WF_vars(\E v \in Verdicts, n \in 2 .. 3 : ServerAnswers(v, n))
  /\ WF_vars(ServerRefuses)

FairSpec == Spec /\ Fairness

-----------------------------------------------------------------------------
(* Properties *)

\* Every variable keeps its type.
TypeOK ==
  /\ op \in [Calls -> Ops]
  /\ rpb \in [Calls -> Handles \cup {NoRPB}]
  /\ \A c \in Calls : op[c] = "create" => rpb[c] \in Handles
  /\ pc \in [Calls -> PCs]
  /\ field \in [Calls -> Fields]
  /\ heard \in [Calls -> Heard]
  /\ \A c \in Calls : pc[c] = "read" => heard[c] # NoReply
  /\ correlationID \in 1 .. MaxID
  /\ currentRPB \in Handles \cup {NoRPB}
  /\ issued \in Seq(1 .. MaxID)
  /\ internalBuffer \in Seq(ReplyPart)
  /\ listeners \in Seq(Calls)
  /\ jobs \in Seq(Calls)
  /\ socket \in {"open", "local", "peer"}
  /\ outbound \in Seq(RequestField)
  /\ inbound \in Seq(ReplyPart)
  /\ created \in SUBSET Handles
  /\ verdict \in [Calls -> Verdicts \cup {"none"}]
  /\ clean \in [Calls -> BOOLEAN]
  /\ garbled \in BOOLEAN

\* Two requests carry the same correlation ID only when MaxID others have
\* been sent since the first of them: the counter of newCorrelationID() skips
\* none and repeats none when it wraps.
CorrelationIDsDistinct ==
  \A i, j \in 1 .. Len(issued) :
    i < j /\ j - i < MaxID => issued[i] # issued[j]

\* A call that ran alone on a quiet connection, and whose reply was not cut,
\* resolves only if the server carried out its own request, and rejects only
\* if the server did not, whatever happened on the connection before: stale
\* bytes that earlier calls left in the buffer, replies nobody waited for.
CleanCallAgrees ==
  \A c \in Calls : clean[c] =>
    /\ pc[c] = "done" => verdict[c] = "ok" /\ heard[c].call = c
    /\ pc[c] = "failed" => verdict[c] # "ok"

\* Whatever clean calls have done, they leave nothing behind when they have
\* settled, resolved or not: no unit of a request that the server would put
\* before the next one, no part of a reply that the next call would take for
\* its own, and no byte that was read past.
SettledClean(c) == pc[c] \in Settled /\ clean[c] /\ op[c] # "prepare"
NothingLeftBehind ==
  (socket = "open" /\ \A c \in Calls : pc[c] = "idle" \/ SettledClean(c))
    => outbound = <<>> /\ inbound = <<>> /\ internalBuffer = <<>>

\* writeTemplate() sends currentRPB by default: it names a block the server
\* really holds as long as every creation that resolved was a clean call.
CurrentRPBCreated ==
  (\A c \in Calls : op[c] = "create" /\ pc[c] = "done" => clean[c])
    => currentRPB \in created \cup {NoRPB}

\* While no two calls have been writing at once and none has abandoned its
\* request, the server sees whole requests, one after the other: calls may
\* overlap in every other way.
RequestsFramed ==
  ~garbled =>
    \A i \in 1 .. Len(outbound) :
      LET f == outbound[i].field
      IN /\ f = ((i - 1) % Parameters) + 1
         /\ outbound[i].call = outbound[i - f + 1].call

\* No wakeup is missed: as long as the connection lives and the stream is well
\* framed, a call that waits has its request in front of the server or a part
\* of its own reply in front of it, however its chunks are cut and whoever else
\* they wake.
NoWakeupMissed ==
  ~garbled /\ socket = "open" =>
    \A c \in Calls : pc[c] = "wait" =>
      \/ \E i \in 1 .. Len(outbound) :
           outbound[i] = [call |-> c, field |-> Parameters]
      \/ \E i \in 1 .. Len(inbound) : inbound[i].call = c

\* Each call is resumed once by what it waits for.  A call that waits has one
\* listener; one that was woken, or has read its header, is queued once in the
\* microtasks; nobody else is in either list, so that no call is resumed after
\* it settled.  All calls that a chunk woke read their headers from the shared
\* buffer before any of them reads on.
ListedOnce(list, group) ==
  /\ {list[i] : i \in 1 .. Len(list)} = group
  /\ \A i, j \in 1 .. Len(list) : list[i] = list[j] => i = j
EachResumedOnce ==
  /\ ListedOnce(listeners, {c \in Calls : pc[c] = "wait"})
  /\ ListedOnce(jobs, {c \in Calls : pc[c] \in {"woken", "read"}})
  /\ \A i, j \in 1 .. Len(jobs) :
       i < j /\ pc[jobs[i]] = "read" => pc[jobs[j]] = "read"

\* The exchanges of n calls take 14 * n + 1 steps at most, whatever the
\* callers, the network and the server do: no two calls wake each other, or
\* retry, for ever.  Each step lowers what is left: the writes of each call
\* and what comes of them, units under way, which become parts of a reply,
\* these parts, and the end of the connection.
Ahead(c) ==
  CASE pc[c] = "idle" -> 14
    [] pc[c] = "write" -> 16 - 3 * field[c]
    [] pc[c] = "wait" -> 3
    [] pc[c] = "woken" -> 2
    [] pc[c] = "read" -> 1
    [] OTHER -> 0
StepsAhead == {w \in Calls \X (1 .. 14) : w[2] <= Ahead(w[1])}
Remaining ==
  Cardinality(StepsAhead) + 2 * Len(outbound) + Len(inbound)
    + (IF socket = "open" THEN 1 ELSE 0)
StepsRunOut == [][Remaining' < Remaining]_vars

\* A call settles in the end unless the connection goes away under it or the
\* request stream was spoiled: no reply is missed by the call it is for, even
\* when calls overlap and replies are cut.
CallSettles ==
  \A c \in Calls :
    Active(c) ~> (pc[c] \in Settled \/ garbled \/ socket # "open")

\* The connection implements the abstract remote call: a clean call is a
\* reliable one.
Phase(c) ==
  CASE pc[c] = "idle" -> "idle"
    [] pc[c] = "done" -> "ok"
    [] pc[c] = "failed" -> "error"
    [] OTHER -> "pending"

Remote == INSTANCE RemoteCall
            WITH phase <- [c \in Calls |-> Phase(c)],
                 answer <- verdict, reliable <- clean

\* Every step of an exchange is a step of the remote call, or no step of it:
\* a request is carried out at most once, a call settles at most once, and a
\* clean call that failed is never carried out afterwards.
ImplementsRemoteCall == Remote!Spec
=============================================================================
